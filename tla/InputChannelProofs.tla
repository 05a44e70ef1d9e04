------------------------- MODULE InputChannelProofs -------------------------
(***************************************************************************)
(* The safety of InputChannel, for any number of commands, any queue limit *)
(* and any number of faults.                                               *)
(***************************************************************************)
EXTENDS InputChannel, TLAPS

Message == [type : {"resume", "ended", "expect"}, seq : Nat]

BrowserRecord == [open : BOOLEAN, active : BOOLEAN, nextSeq : Nat \ {0}]

HubRecord == [old : BOOLEAN, marking : BOOLEAN, seq : Nat,
              greet : {"no", "reconnect", "starting", "connected", "read"}]

ExecRecord == [state : {"none", "on", "stopped"}, lastEnqueued : Nat, lastApplied : Nat,
               chain : Seq(Command), pc : {"idle", "gate", "call", "persist"},
               cmd : Command \cup {None}]

\* No number is known anywhere that the browser has not yet given, except the next one.
Announced(q) == \A i \in DOMAIN q : q[i].type # "ended" => q[i].seq \in 1 .. sent + 1

Types ==
    /\ owner \in {"active", "away", "over"}
    /\ sent \in 0 .. MaxSends /\ conn \in Nat \ {0} /\ faults \in 0 .. MaxFaults
    /\ stored \in 0 .. sent
    /\ browser \in BrowserRecord /\ browser.nextSeq <= sent + 1
    /\ conn <= faults + (IF browser.open THEN 1 ELSE 0)
    /\ up \in Seq(Command) /\ stray \in Seq(Command)
    /\ down \in Seq(Message) /\ Announced(down)
    /\ hub \in HubRecord /\ hub.seq <= sent + 1
    /\ starting \in (0 .. sent) \cup {None}
    /\ newest \in [Conns -> Nat] /\ \A c \in Conns : newest[c] <= sent
    /\ late \in Nat

\* The executor's numbers, of which Redis has recorded s: what waits is numbered above
\* what was applied, in increasing order, and the command under execution is between.
Numbered(e, s) ==
    /\ e \in ExecRecord
    /\ e.pc = "idle" <=> e.cmd = None
    /\ Len(e.chain) <= MaxPending
    /\ e.state = "none" => e.chain = <<>> /\ e.pc = "idle"
    /\ e.state # "none" => s <= e.lastApplied
    /\ e.lastApplied <= e.lastEnqueued
    /\ \A i \in DOMAIN e.chain : e.lastApplied < e.chain[i].seq /\ e.chain[i].seq <= e.lastEnqueued
    /\ \A i, j \in DOMAIN e.chain : i < j => e.chain[i].seq < e.chain[j].seq
    /\ e.pc # "idle" => \A i \in DOMAIN e.chain : e.cmd.seq < e.chain[i].seq
    /\ e.pc \in {"gate", "call"} => e.lastApplied < e.cmd.seq /\ e.cmd.seq <= e.lastEnqueued
    /\ e.pc = "persist" => e.cmd.seq <= e.lastApplied

Numbers == Numbered(exec, stored) /\ exec.lastEnqueued <= sent

\* Of two commands of one socket, x was sent before y.
Before(x, y) == x.conn = y.conn => x.id < y.id
First(x, q) == \A j \in DOMAIN q : Before(x, q[j])
Ascending(q) == \A i, j \in DOMAIN q : i < j => Before(q[i], q[j])
Precede(q, r) == \A i \in DOMAIN q : First(q[i], r)

\* A command that is among the n sent over the k sockets, and is newer than what the
\* device has executed of its socket.
Fresh(x, m, n, k) == x.id <= n /\ x.seq <= n /\ x.conn <= k /\ m[x.conn] < x.id
AllFresh(q, m, n, k) == \A i \in DOMAIN q : Fresh(q[i], m, n, k)

\* The commands stand in the order in which they were sent: the one under execution,
\* the chain, and what a socket still holds.
InOrder(e, u, s, m, n, k) ==
    /\ AllFresh(u, m, n, k) /\ AllFresh(s, m, n, k) /\ AllFresh(e.chain, m, n, k)
    /\ Ascending(u) /\ Ascending(s) /\ Ascending(e.chain)
    /\ Precede(e.chain, u) /\ Precede(e.chain, s)
    /\ e.pc \in {"gate", "call"} =>
          Fresh(e.cmd, m, n, k) /\ First(e.cmd, e.chain) /\ First(e.cmd, u) /\ First(e.cmd, s)

\* The two sockets have no commands to compare.
Apart ==
    /\ \A i \in DOMAIN up : up[i].conn = conn
    /\ browser.open => \A i \in DOMAIN stray : stray[i].conn < conn
    /\ ~browser.open => up = <<>>
    /\ ~hub.old => stray = <<>>

Order == InOrder(exec, up, stray, newest, sent, conn) /\ Apart

\* A command that may be executed late has not been counted yet, and is the only one.
Lateness ==
    \/ late = 0
    \/ late = 1 /\ owner # "active" /\ exec.pc # "call"

InputInv == Types /\ Numbers /\ Order /\ Lateness

-----------------------------------------------------------------------------
(* Records, once. *)

Exec(s, le, la, ch, pc, cmd) ==
    [state |-> s, lastEnqueued |-> le, lastApplied |-> la, chain |-> ch, pc |-> pc, cmd |-> cmd]

\* An executor is the record of its fields, and so is one of which some have changed.
LEMMA ExecIsRecord ==
    ASSUME NEW e \in ExecRecord
    PROVE  e = Exec(e.state, e.lastEnqueued, e.lastApplied, e.chain, e.pc, e.cmd)
BY DEF ExecRecord, Exec

\* The changes of an executor that its steps make.
Enqueues(e, n, ch) == [e EXCEPT !.lastEnqueued = n, !.chain = ch]
Chained(e, ch) == [e EXCEPT !.chain = ch]
Skips(e, ch, n) == [Chained(e, ch) EXCEPT !.lastApplied = n]
Begins(e, ch, x) == [Chained(e, ch) EXCEPT !.pc = "gate", !.cmd = x]
Calls(e) == [e EXCEPT !.pc = "call"]
Applies(e, n) == [e EXCEPT !.pc = "persist", !.lastApplied = n]
Answers(e, n) == [e EXCEPT !.pc = "idle", !.cmd = None, !.lastApplied = n]
Stops(e) == [e EXCEPT !.state = "stopped"]

LEMMA ExecUpdates ==
    ASSUME NEW e \in ExecRecord, NEW n, NEW ch, NEW x
    PROVE  /\ Enqueues(e, n, ch) = Exec(e.state, n, e.lastApplied, ch, e.pc, e.cmd)
           /\ Chained(e, ch) = Exec(e.state, e.lastEnqueued, e.lastApplied, ch, e.pc, e.cmd)
           /\ Skips(e, ch, n) = Exec(e.state, e.lastEnqueued, n, ch, e.pc, e.cmd)
           /\ Begins(e, ch, x) = Exec(e.state, e.lastEnqueued, e.lastApplied, ch, "gate", x)
           /\ Calls(e) = Exec(e.state, e.lastEnqueued, e.lastApplied, e.chain, "call", e.cmd)
           /\ Applies(e, n) = Exec(e.state, e.lastEnqueued, n, e.chain, "persist", e.cmd)
           /\ Answers(e, n) = Exec(e.state, e.lastEnqueued, n, e.chain, "idle", None)
           /\ Stops(e) = Exec("stopped", e.lastEnqueued, e.lastApplied, e.chain, e.pc, e.cmd)
<1> DEFINE st == e.state
           le == e.lastEnqueued
           la == e.lastApplied
           c == e.chain
           pc == e.pc
           cmd == e.cmd
<1>1. e = Exec(st, le, la, c, pc, cmd)
  BY ExecIsRecord
<1> HIDE DEF st, le, la, c, pc, cmd
<1>2. Enqueues(e, n, ch) = Exec(st, n, la, ch, pc, cmd)
  <2>1. [e EXCEPT !.lastEnqueued = n] = Exec(st, n, la, c, pc, cmd)
    BY <1>1 DEF Exec
  <2>2. [Exec(st, n, la, c, pc, cmd) EXCEPT !.chain = ch] = Exec(st, n, la, ch, pc, cmd)
    BY DEF Exec
  <2>3. QED
    BY <2>1, <2>2 DEF Enqueues
<1>3. Chained(e, ch) = Exec(st, le, la, ch, pc, cmd)
  BY <1>1 DEF Chained, Exec
<1>4. Skips(e, ch, n) = Exec(st, le, n, ch, pc, cmd)
  BY <1>3 DEF Skips, Exec
<1>5. Begins(e, ch, x) = Exec(st, le, la, ch, "gate", x)
  <2>1. [Chained(e, ch) EXCEPT !.pc = "gate"] = Exec(st, le, la, ch, "gate", cmd)
    BY <1>3 DEF Exec
  <2>2. [Exec(st, le, la, ch, "gate", cmd) EXCEPT !.cmd = x] = Exec(st, le, la, ch, "gate", x)
    BY DEF Exec
  <2>3. QED
    BY <2>1, <2>2 DEF Begins
<1>6. Calls(e) = Exec(st, le, la, c, "call", cmd)
  BY <1>1 DEF Calls, Exec
<1>7. Applies(e, n) = Exec(st, le, n, c, "persist", cmd)
  <2>1. [e EXCEPT !.pc = "persist"] = Exec(st, le, la, c, "persist", cmd)
    BY <1>1 DEF Exec
  <2>2. [Exec(st, le, la, c, "persist", cmd) EXCEPT !.lastApplied = n] = Exec(st, le, n, c, "persist", cmd)
    BY DEF Exec
  <2>3. QED
    BY <2>1, <2>2 DEF Applies
<1>8. Answers(e, n) = Exec(st, le, n, c, "idle", None)
  <2>1. [e EXCEPT !.pc = "idle"] = Exec(st, le, la, c, "idle", cmd)
    BY <1>1 DEF Exec
  <2>2. [Exec(st, le, la, c, "idle", cmd) EXCEPT !.cmd = None] = Exec(st, le, la, c, "idle", None)
    BY DEF Exec
  <2>3. [Exec(st, le, la, c, "idle", None) EXCEPT !.lastApplied = n] = Exec(st, le, n, c, "idle", None)
    BY DEF Exec
  <2>4. QED
    BY <2>1, <2>2, <2>3 DEF Answers
<1>9. Stops(e) = Exec("stopped", le, la, c, pc, cmd)
  BY <1>1 DEF Stops, Exec
<1>10. QED
  BY <1>2, <1>3, <1>4, <1>5, <1>6, <1>7, <1>8, <1>9 DEF st, le, la, c, pc, cmd

LEMMA NewExecutorFields ==
    ASSUME NEW seq
    PROVE  NewExecutor(seq) = Exec("on", seq, seq, <<>>, "idle", None)
<1>1. NoExecutor = Exec("none", 0, 0, <<>>, "idle", None)
  BY DEF NoExecutor, Exec
<1>2. /\ [NoExecutor EXCEPT !.state = "on"] = Exec("on", 0, 0, <<>>, "idle", None)
      /\ [Exec("on", 0, 0, <<>>, "idle", None) EXCEPT !.lastEnqueued = seq]
           = Exec("on", seq, 0, <<>>, "idle", None)
      /\ [Exec("on", seq, 0, <<>>, "idle", None) EXCEPT !.lastApplied = seq]
           = Exec("on", seq, seq, <<>>, "idle", None)
  BY <1>1 DEF Exec
<1>3. QED
  BY <1>2 DEF NewExecutor

Hub(o, m, s, g) == [old |-> o, marking |-> m, seq |-> s, greet |-> g]

LEMMA HubIsRecord ==
    ASSUME NEW h \in HubRecord
    PROVE  h = Hub(h.old, h.marking, h.seq, h.greet)
BY DEF HubRecord, Hub

Browser(o, a, n) == [open |-> o, active |-> a, nextSeq |-> n]

LEMMA BrowserIsRecord ==
    ASSUME NEW b \in BrowserRecord
    PROVE  b = Browser(b.open, b.active, b.nextSeq)
BY DEF BrowserRecord, Browser

-----------------------------------------------------------------------------
(* Queues, once. *)

LEMMA Appended ==
    ASSUME NEW S, NEW w \in Seq(S), NEW f \in S
    PROVE  /\ Append(w, f) \in Seq(S)
           /\ Len(w) \in Nat /\ Len(Append(w, f)) = Len(w) + 1
           /\ DOMAIN w = 1 .. Len(w) /\ DOMAIN Append(w, f) = 1 .. Len(w) + 1
           /\ \A i \in 1 .. Len(w) : Append(w, f)[i] = w[i] /\ w[i] \in S
           /\ Append(w, f)[Len(w) + 1] = f
OBVIOUS

LEMMA Shifted ==
    ASSUME NEW S, NEW w \in Seq(S), w # <<>>
    PROVE  /\ Tail(w) \in Seq(S)
           /\ Len(w) \in Nat \ {0} /\ Len(Tail(w)) = Len(w) - 1
           /\ DOMAIN w = 1 .. Len(w) /\ DOMAIN Tail(w) = 1 .. Len(w) - 1
           /\ \A i \in 1 .. Len(w) - 1 : Tail(w)[i] = w[i + 1]
           /\ Head(w) = w[1] /\ Head(w) \in S /\ 1 \in DOMAIN w
OBVIOUS

\* The chain's first command is taken out.
LEMMA FirstTaken ==
    ASSUME NEW S, NEW w \in Seq(S), w # <<>>
    PROVE  RemoveAt(w, 1) = Tail(w)
<1>1. SubSeq(w, 1, 1 - 1) = <<>>
  BY Shifted
<1>2. SubSeq(w, 1 + 1, Len(w)) = Tail(w)
  BY Shifted
<1>3. RemoveAt(w, 1) = <<>> \o Tail(w)
  BY <1>1, <1>2 DEF RemoveAt
<1>4. QED
  BY <1>3, Shifted

\* What a queue that gets a command keeps.
LEMMA AppendKeeps ==
    ASSUME NEW q \in Seq(Command), NEW x \in Command, NEW r \in Seq(Command),
           NEW m, NEW n, NEW k
    PROVE  /\ AllFresh(q, m, n, k) /\ Fresh(x, m, n, k) => AllFresh(Append(q, x), m, n, k)
           /\ Ascending(q) /\ (\A i \in DOMAIN q : Before(q[i], x)) => Ascending(Append(q, x))
           /\ Precede(q, r) /\ First(x, r) => Precede(Append(q, x), r)
           /\ Precede(r, q) /\ (\A i \in DOMAIN r : Before(r[i], x)) => Precede(r, Append(q, x))
           /\ \A y : First(y, q) /\ Before(y, x) => First(y, Append(q, x))
<1> DEFINE a == Append(q, x)
<1>1. /\ Len(q) \in Nat /\ DOMAIN q = 1 .. Len(q) /\ DOMAIN a = 1 .. Len(q) + 1
      /\ \A i \in 1 .. Len(q) : a[i] = q[i]
      /\ a[Len(q) + 1] = x
  BY Appended
<1> HIDE DEF a
<1>2. \A i \in DOMAIN a : (i \in DOMAIN q /\ a[i] = q[i]) \/ (i = Len(q) + 1 /\ a[i] = x)
  BY <1>1
<1>3. AllFresh(q, m, n, k) /\ Fresh(x, m, n, k) => AllFresh(a, m, n, k)
  BY <1>2 DEF AllFresh
<1>4. Ascending(q) /\ (\A i \in DOMAIN q : Before(q[i], x)) => Ascending(a)
  BY <1>1, <1>2 DEF Ascending
<1>5. Precede(q, r) /\ First(x, r) => Precede(a, r)
  BY <1>2 DEF Precede
<1>6. \A y : First(y, q) /\ Before(y, x) => First(y, a)
  BY <1>2 DEF First
<1>7. Precede(r, q) /\ (\A i \in DOMAIN r : Before(r[i], x)) => Precede(r, a)
  BY <1>6 DEF Precede
<1>8. QED
  BY <1>3, <1>4, <1>5, <1>6, <1>7 DEF a

\* What a queue that loses its first command keeps, and what is known of that command.
LEMMA TailKeeps ==
    ASSUME NEW q \in Seq(Command), q # <<>>, NEW r \in Seq(Command), NEW m, NEW n, NEW k
    PROVE  /\ AllFresh(q, m, n, k) => AllFresh(Tail(q), m, n, k) /\ Fresh(Head(q), m, n, k)
           /\ Ascending(q) => Ascending(Tail(q)) /\ First(Head(q), Tail(q))
           /\ Precede(q, r) => Precede(Tail(q), r) /\ First(Head(q), r)
           /\ Precede(r, q) => Precede(r, Tail(q)) /\ \A i \in DOMAIN r : Before(r[i], Head(q))
           /\ \A y : First(y, q) => First(y, Tail(q)) /\ Before(y, Head(q))
<1> DEFINE t == Tail(q)
           h == Head(q)
<1>1. /\ Len(q) \in Nat \ {0} /\ DOMAIN q = 1 .. Len(q) /\ DOMAIN t = 1 .. Len(q) - 1
      /\ \A i \in 1 .. Len(q) - 1 : t[i] = q[i + 1]
      /\ h = q[1] /\ 1 \in DOMAIN q
  BY Shifted
<1> HIDE DEF t, h
<1>2. \A i \in DOMAIN t : i + 1 \in DOMAIN q /\ 1 < i + 1 /\ t[i] = q[i + 1]
  BY <1>1
<1>3. \A i, j \in DOMAIN t : i < j => i + 1 < j + 1
  BY <1>1
<1>4. AllFresh(q, m, n, k) => AllFresh(t, m, n, k) /\ Fresh(h, m, n, k)
  BY <1>1, <1>2 DEF AllFresh
<1>5. Ascending(q) => Ascending(t)
  BY <1>2, <1>3 DEF Ascending
<1>6. Ascending(q) => First(h, t)
  BY <1>1, <1>2 DEF Ascending, First
<1>7. Precede(q, r) => Precede(t, r) /\ First(h, r)
  BY <1>1, <1>2 DEF Precede
<1>8. \A y : First(y, q) => First(y, t) /\ Before(y, h)
  BY <1>1, <1>2 DEF First
<1>9. Precede(r, q) => Precede(r, t) /\ \A i \in DOMAIN r : Before(r[i], h)
  BY <1>8 DEF Precede
<1>10. QED
  BY <1>4, <1>5, <1>6, <1>7, <1>8, <1>9 DEF t, h

\* Nothing is known of nothing.
LEMMA EmptyKeeps ==
    ASSUME NEW r, NEW m, NEW n, NEW k
    PROVE  /\ AllFresh(<<>>, m, n, k) /\ Ascending(<<>>) /\ Precede(<<>>, r) /\ Precede(r, <<>>)
           /\ \A y : First(y, <<>>)
BY DEF AllFresh, Ascending, Precede, First

-----------------------------------------------------------------------------
(* The order of commands, once. *)

\* The two sockets are alike.
LEMMA SocketsAlike ==
    ASSUME NEW e, NEW u, NEW s, NEW m, NEW n, NEW k, InOrder(e, u, s, m, n, k)
    PROVE  InOrder(e, s, u, m, n, k)
BY DEF InOrder

\* What is new stays new while only more is sent.
LEMMA FreshGrows ==
    ASSUME NEW m, NEW n \in Nat, NEW k \in Nat, NEW n2 \in Nat, NEW k2 \in Nat, n <= n2, k <= k2
    PROVE  /\ \A x \in Command : Fresh(x, m, n, k) => Fresh(x, m, n2, k2)
           /\ \A q \in Seq(Command) : AllFresh(q, m, n, k) => AllFresh(q, m, n2, k2)
<1>1. ASSUME NEW x \in Command, Fresh(x, m, n, k)
      PROVE  Fresh(x, m, n2, k2)
  <2>1. x.id \in Int /\ x.seq \in Int /\ x.conn \in Int
    BY InputBoundsAssumption DEF Command, Ids, Seqs, Conns
  <2>2. QED
    BY <1>1, <2>1 DEF Fresh
<1>2. ASSUME NEW q \in Seq(Command), AllFresh(q, m, n, k)
      PROVE  AllFresh(q, m, n2, k2)
  <2>1. \A i \in DOMAIN q : q[i] \in Command
    BY Appended
  <2>2. QED
    BY <1>1, <1>2, <2>1 DEF AllFresh
<1>3. QED
  BY <1>1, <1>2

\* A queue is lost.
LEMMA QueueLost ==
    ASSUME NEW e, NEW u, NEW s, NEW m, NEW n, NEW k, InOrder(e, u, s, m, n, k)
    PROVE  InOrder(e, <<>>, s, m, n, k) /\ InOrder(e, u, <<>>, m, n, k)
BY EmptyKeeps DEF InOrder

\* An executor that has nothing to do.
LEMMA IdleInOrder ==
    ASSUME NEW e, NEW u, NEW s, NEW m, NEW n, NEW k, NEW f, InOrder(e, u, s, m, n, k),
           f.chain = <<>>, f.pc = "idle"
    PROVE  InOrder(f, u, s, m, n, k)
BY EmptyKeeps DEF InOrder

\* The first command of a socket moves to the end of the chain.
LEMMA Admitted ==
    ASSUME NEW e \in ExecRecord, NEW f \in ExecRecord, NEW u \in Seq(Command), NEW s \in Seq(Command),
           NEW m, NEW n, NEW k, u # <<>>, InOrder(e, u, s, m, n, k), First(Head(u), s),
           f.pc = e.pc, f.cmd = e.cmd, f.chain = Append(e.chain, Head(u))
    PROVE  InOrder(f, Tail(u), s, m, n, k)
<1> DEFINE h == Head(u)
           t == Tail(u)
           c == e.chain
<1>1. h \in Command /\ t \in Seq(Command) /\ c \in Seq(Command)
  BY Shifted DEF ExecRecord
<1>2. /\ AllFresh(t, m, n, k) /\ Fresh(h, m, n, k)
      /\ Ascending(t) /\ First(h, t)
      /\ Precede(c, t) /\ \A i \in DOMAIN c : Before(c[i], h)
      /\ \A y : First(y, u) => First(y, t) /\ Before(y, h)
  BY <1>1, TailKeeps DEF InOrder
<1>3. AllFresh(f.chain, m, n, k)
  BY <1>1, <1>2, AppendKeeps DEF InOrder
<1>4. Ascending(f.chain)
  BY <1>1, <1>2, AppendKeeps DEF InOrder
<1>5. Precede(f.chain, t)
  BY <1>1, <1>2, AppendKeeps DEF InOrder
<1>6. Precede(f.chain, s)
  BY <1>1, AppendKeeps DEF InOrder
<1>7. ASSUME f.pc \in {"gate", "call"}
      PROVE  Fresh(f.cmd, m, n, k) /\ First(f.cmd, f.chain) /\ First(f.cmd, t) /\ First(f.cmd, s)
  <2>1. Fresh(e.cmd, m, n, k) /\ First(e.cmd, c) /\ First(e.cmd, u) /\ First(e.cmd, s)
    BY <1>7 DEF InOrder
  <2>2. First(e.cmd, t) /\ Before(e.cmd, h)
    BY <1>2, <2>1
  <2>3. First(e.cmd, f.chain)
    BY <1>1, <2>1, <2>2, AppendKeeps
  <2>4. QED
    BY <2>1, <2>2, <2>3
<1>8. QED
  BY <1>2, <1>3, <1>4, <1>5, <1>6, <1>7 DEF InOrder

\* The first command of a socket is dropped.
LEMMA Refused ==
    ASSUME NEW e, NEW u \in Seq(Command), NEW s \in Seq(Command),
           NEW m, NEW n, NEW k, u # <<>>, e.chain \in Seq(Command), InOrder(e, u, s, m, n, k)
    PROVE  InOrder(e, Tail(u), s, m, n, k)
<1>1. /\ AllFresh(Tail(u), m, n, k) /\ Ascending(Tail(u)) /\ Precede(e.chain, Tail(u))
      /\ \A y : First(y, u) => First(y, Tail(u))
  BY TailKeeps DEF InOrder
<1>2. QED
  BY <1>1 DEF InOrder

\* The oldest command of the chain is taken out, for execution or not.
LEMMA Taken ==
    ASSUME NEW e \in ExecRecord, NEW f \in ExecRecord, NEW u \in Seq(Command), NEW s \in Seq(Command),
           NEW m, NEW n, NEW k, e.chain # <<>>, InOrder(e, u, s, m, n, k),
           f.chain = Tail(e.chain), f.pc = "idle" \/ (f.pc = "gate" /\ f.cmd = Head(e.chain))
    PROVE  InOrder(f, u, s, m, n, k)
<1> DEFINE c == e.chain
<1>1. c \in Seq(Command)
  BY DEF ExecRecord
<1>2. /\ AllFresh(Tail(c), m, n, k) /\ Fresh(Head(c), m, n, k)
      /\ Ascending(Tail(c)) /\ First(Head(c), Tail(c))
      /\ Precede(Tail(c), u) /\ First(Head(c), u)
      /\ Precede(Tail(c), s) /\ First(Head(c), s)
  BY <1>1, TailKeeps DEF InOrder
<1>3. QED
  BY <1>2 DEF InOrder

\* The command under execution is answered.
LEMMA Answered ==
    ASSUME NEW e, NEW f, NEW u, NEW s, NEW m, NEW n, NEW k, InOrder(e, u, s, m, n, k),
           f.chain = e.chain, f.pc \notin {"gate", "call"} \/ (f.cmd = e.cmd /\ e.pc \in {"gate", "call"})
    PROVE  InOrder(f, u, s, m, n, k)
BY DEF InOrder

-----------------------------------------------------------------------------
(* Fields and messages, once. *)

Greets == {"no", "reconnect", "starting", "connected", "read"}

\* The changes of the hub's record, and of the browser's, that the steps make.
Marks(h, m) == [h EXCEPT !.marking = m]
SetGreet(h, g) == [h EXCEPT !.greet = g]
Closes(h, o, m) == [h EXCEPT !.old = o, !.marking = m]
Drops(h, o, g) == [h EXCEPT !.old = o, !.greet = g]
Reads(h, g, s) == [h EXCEPT !.greet = g, !.seq = s]
Opens(b, o) == [b EXCEPT !.open = o]
Counts(b, n) == [b EXCEPT !.nextSeq = n]
Hears(b, a, n) == [b EXCEPT !.active = a, !.nextSeq = n]

LEMMA HubUpdates ==
    ASSUME NEW h \in HubRecord, NEW o, NEW m, NEW g, NEW s
    PROVE  /\ Marks(h, m) = Hub(h.old, m, h.seq, h.greet)
           /\ SetGreet(h, g) = Hub(h.old, h.marking, h.seq, g)
           /\ Closes(h, o, m) = Hub(o, m, h.seq, h.greet)
           /\ Drops(h, o, g) = Hub(o, h.marking, h.seq, g)
           /\ Reads(h, g, s) = Hub(h.old, h.marking, s, g)
<1> DEFINE ho == h.old
           hm == h.marking
           hs == h.seq
           hg == h.greet
<1>1. h = Hub(ho, hm, hs, hg)
  BY HubIsRecord
<1> HIDE DEF ho, hm, hs, hg
<1>2. Marks(h, m) = Hub(ho, m, hs, hg)
  BY <1>1 DEF Marks, Hub
<1>3. SetGreet(h, g) = Hub(ho, hm, hs, g)
  BY <1>1 DEF SetGreet, Hub
<1>4. Closes(h, o, m) = Hub(o, m, hs, hg)
  <2>1. [h EXCEPT !.old = o] = Hub(o, hm, hs, hg)
    BY <1>1 DEF Hub
  <2>2. [Hub(o, hm, hs, hg) EXCEPT !.marking = m] = Hub(o, m, hs, hg)
    BY DEF Hub
  <2>3. QED
    BY <2>1, <2>2 DEF Closes
<1>5. Drops(h, o, g) = Hub(o, hm, hs, g)
  <2>1. [h EXCEPT !.old = o] = Hub(o, hm, hs, hg)
    BY <1>1 DEF Hub
  <2>2. [Hub(o, hm, hs, hg) EXCEPT !.greet = g] = Hub(o, hm, hs, g)
    BY DEF Hub
  <2>3. QED
    BY <2>1, <2>2 DEF Drops
<1>6. Reads(h, g, s) = Hub(ho, hm, s, g)
  <2>1. [h EXCEPT !.greet = g] = Hub(ho, hm, hs, g)
    BY <1>1 DEF Hub
  <2>2. [Hub(ho, hm, hs, g) EXCEPT !.seq = s] = Hub(ho, hm, s, g)
    BY DEF Hub
  <2>3. QED
    BY <2>1, <2>2 DEF Reads
<1>7. QED
  BY <1>2, <1>3, <1>4, <1>5, <1>6 DEF ho, hm, hs, hg

LEMMA BrowserUpdates ==
    ASSUME NEW b \in BrowserRecord, NEW o, NEW a, NEW n
    PROVE  /\ Opens(b, o) = Browser(o, b.active, b.nextSeq)
           /\ Counts(b, n) = Browser(b.open, b.active, n)
           /\ Hears(b, a, n) = Browser(b.open, a, n)
<1> DEFINE bo == b.open
           ba == b.active
           bn == b.nextSeq
<1>1. b = Browser(bo, ba, bn)
  BY BrowserIsRecord
<1> HIDE DEF bo, ba, bn
<1>2. Opens(b, o) = Browser(o, ba, bn) /\ Counts(b, n) = Browser(bo, ba, n)
  BY <1>1 DEF Opens, Counts, Browser
<1>3. Hears(b, a, n) = Browser(bo, a, n)
  <2>1. [b EXCEPT !.active = a] = Browser(bo, a, bn)
    BY <1>1 DEF Browser
  <2>2. [Browser(bo, a, bn) EXCEPT !.nextSeq = n] = Browser(bo, a, n)
    BY DEF Browser
  <2>3. QED
    BY <2>1, <2>2 DEF Hears
<1>4. QED
  BY <1>2, <1>3 DEF bo, ba, bn

LEMMA HubFields ==
    ASSUME NEW o \in BOOLEAN, NEW m \in BOOLEAN, NEW s \in Nat, NEW g \in Greets
    PROVE  LET h == Hub(o, m, s, g) IN h \in HubRecord /\ h.old = o /\ h.seq = s
BY DEF Hub, HubRecord, Greets

LEMMA BrowserFields ==
    ASSUME NEW o \in BOOLEAN, NEW a \in BOOLEAN, NEW n \in Nat \ {0}
    PROVE  LET b == Browser(o, a, n) IN b \in BrowserRecord /\ b.open = o /\ b.nextSeq = n
BY DEF Browser, BrowserRecord

\* What the server may send: a number it knows of, or the end.
LEMMA Messages ==
    /\ \A n \in Nat : Resume(n) \in Message /\ Resume(n).seq = n + 1
    /\ \A n \in Nat : Expect(n) \in Message /\ Expect(n).seq = n
    /\ Ended \in Message /\ Ended.type = "ended"
BY DEF Resume, Expect, Ended, Message

LEMMA Delivery ==
    ASSUME Types, NEW msg \in Message, msg.type # "ended" => msg.seq \in 1 .. sent + 1
    PROVE  Delivered(msg) \in Seq(Message) /\ Announced(Delivered(msg))
<1>1. CASE ~browser.open
  BY <1>1 DEF Types, Delivered
<1>2. CASE browser.open
  <2>1. Delivered(msg) = Append(down, msg) /\ down \in Seq(Message)
    BY <1>2 DEF Types, Delivered
  <2>2. Announced(Append(down, msg))
    <3>1. \A i \in DOMAIN Append(down, msg) :
             (i \in DOMAIN down /\ Append(down, msg)[i] = down[i]) \/ Append(down, msg)[i] = msg
      BY <2>1, Appended
    <3>2. Announced(down)
      BY DEF Types
    <3>3. QED
      BY <3>1, <3>2 DEF Announced
  <2>3. QED
    BY <2>1, <2>2, Appended
<1>3. QED
  BY <1>1, <1>2

-----------------------------------------------------------------------------
(* The initial states. *)

LEMMA InputInvInit == InputInit => InputInv
<1> SUFFICES ASSUME InputInit PROVE InputInv
  OBVIOUS
<1> USE InputBoundsAssumption, InputNoneAssumption
<1>1. exec = Exec("on", 0, 0, <<>>, "idle", None)
  BY NewExecutorFields DEF InputInit
<1>2. /\ exec.state = "on" /\ exec.lastEnqueued = 0 /\ exec.lastApplied = 0
      /\ exec.chain = <<>> /\ exec.pc = "idle" /\ exec.cmd = None
      /\ exec \in ExecRecord
  BY <1>1 DEF Exec, ExecRecord
<1>3. Types
  BY DEF InputInit, Types, BrowserRecord, HubRecord, Announced, Conns
<1>4. Numbers
  BY <1>2 DEF InputInit, Numbers, Numbered
<1>5. Order
  BY <1>2, EmptyKeeps DEF InputInit, Order, InOrder, Apart
<1>6. Lateness
  BY DEF InputInit, Lateness
<1>7. QED
  BY <1>3, <1>4, <1>5, <1>6 DEF InputInv

-----------------------------------------------------------------------------
(* The browser's steps. *)

\* A command's numbers are numbers.
LEMMA CommandNumbers ==
    ASSUME NEW x \in Command
    PROVE  /\ x.id \in Nat \ {0} /\ x.seq \in Nat /\ x.conn \in Nat \ {0}
           /\ x.id <= MaxSends /\ x.seq <= MaxSends /\ x.conn \in Conns
BY InputBoundsAssumption DEF Command, Ids, Seqs, Conns

LEMMA SendKeeps == ASSUME InputInv, Send PROVE InputInv'
<1> USE InputBoundsAssumption, InputNoneAssumption
<1> DEFINE x == [id |-> sent + 1, seq |-> browser.nextSeq, conn |-> conn]
<1>1. Types /\ Numbers /\ Order /\ Lateness
  BY DEF InputInv
<1>2. /\ sent \in Nat /\ sent < MaxSends /\ sent' = sent + 1
      /\ conn \in Nat \ {0} /\ stored \in 0 .. sent /\ faults \in 0 .. MaxFaults
      /\ browser \in BrowserRecord /\ browser.nextSeq \in 1 .. sent + 1
      /\ conn <= faults + (IF browser.open THEN 1 ELSE 0)
      /\ up \in Seq(Command) /\ stray \in Seq(Command) /\ exec \in ExecRecord
      /\ newest \in [Conns -> Nat] /\ \A c \in Conns : newest[c] <= sent
      /\ UNCHANGED <<owner, stored, stray, down, hub, starting, exec, conn, faults, newest, late>>
  BY <1>1 DEF Types, Numbers, Numbered, Send, history, BrowserRecord
<1>3. /\ browser' \in BrowserRecord /\ browser'.open = browser.open
      /\ browser'.nextSeq = browser.nextSeq + 1
  <2>1. browser' = Counts(browser, browser.nextSeq + 1)
    BY DEF Send, Counts
  <2>2. browser' = Browser(browser.open, browser.active, browser.nextSeq + 1)
    BY <1>2, <2>1, BrowserUpdates
  <2>3. browser.open \in BOOLEAN /\ browser.active \in BOOLEAN /\ browser.nextSeq + 1 \in Nat \ {0}
    BY <1>2 DEF BrowserRecord
  <2>4. QED
    BY <2>2, <2>3, BrowserFields
<1>4. (browser.open /\ up' = Append(up, x)) \/ (~browser.open /\ up' = up)
  BY DEF Send
<1>5. browser.open => x \in Command /\ Fresh(x, newest, sent', conn)
  <2>1. ASSUME browser.open
        PROVE  conn \in Conns
    BY <1>2, <2>1 DEF Conns
  <2>2. QED
    BY <1>2, <2>1 DEF Command, Ids, Seqs, Fresh
<1> HIDE DEF x
<1>6. up' \in Seq(Command)
  <2>1. browser.open => Append(up, x) \in Seq(Command)
    BY <1>2, <1>5, Appended
  <2>2. QED
    BY <1>2, <1>4, <2>1
<1>7. Types'
  <2>1. Announced(down)'
    BY <1>1, <1>2 DEF Types, Announced
  <2>2. starting' \in (0 .. sent') \cup {None} /\ stored' \in 0 .. sent' /\ hub'.seq <= sent' + 1
    BY <1>1, <1>2 DEF Types, HubRecord
  <2>3. newest' \in [Conns -> Nat] /\ \A c \in Conns : newest'[c] <= sent'
    BY <1>2
  <2>4. sent' \in 0 .. MaxSends /\ browser'.nextSeq <= sent' + 1
    BY <1>2, <1>3
  <2>5. QED
    BY <1>1, <1>2, <1>3, <1>6, <2>1, <2>2, <2>3, <2>4 DEF Types
<1>8. Numbers'
  BY <1>1, <1>2 DEF Numbers, ExecRecord
<1>9. InOrder(exec, up, stray, newest, sent, conn)
  BY <1>1 DEF Order
<1>10. InOrder(exec, up, stray, newest, sent', conn)
  <2> DEFINE n == sent + 1
  <2>1. /\ \A y \in Command : Fresh(y, newest, sent, conn) => Fresh(y, newest, n, conn)
        /\ \A q \in Seq(Command) : AllFresh(q, newest, sent, conn) => AllFresh(q, newest, n, conn)
    <3>1. sent \in Nat /\ n \in Nat /\ conn \in Nat /\ sent <= n /\ conn <= conn
      BY <1>2
    <3> HIDE DEF n
    <3>2. QED
      BY <3>1, FreshGrows
  <2>2. sent' = n
    BY <1>2
  <2> HIDE DEF n
  <2>3. AllFresh(up, newest, sent', conn) /\ AllFresh(stray, newest, sent', conn)
    BY <1>2, <1>9, <2>1, <2>2 DEF InOrder
  <2>4. exec.chain \in Seq(Command) /\ (exec.pc # "idle" => exec.cmd \in Command)
    BY <1>1, <1>2 DEF Numbers, Numbered, ExecRecord
  <2>5. AllFresh(exec.chain, newest, sent', conn)
    BY <1>9, <2>4, <2>1, <2>2 DEF InOrder
  <2>6. exec.pc \in {"gate", "call"} => Fresh(exec.cmd, newest, sent', conn)
    BY <1>9, <2>4, <2>1, <2>2 DEF InOrder
  <2>7. QED
    BY <1>9, <2>3, <2>5, <2>6 DEF InOrder
<1>11. InOrder(exec', up', stray', newest', sent', conn')
  <2>1. CASE up' = up
    BY <1>2, <1>10, <2>1
  <2>2. CASE browser.open /\ up' = Append(up, x)
    <3>1. \A y \in Command : Fresh(y, newest, sent, conn) => Before(y, x)
      BY <1>2, CommandNumbers DEF Fresh, Before, x
    <3>2. \A q \in Seq(Command) : AllFresh(q, newest, sent, conn) => \A i \in DOMAIN q : Before(q[i], x)
      BY <3>1, Appended DEF AllFresh
    <3>3. exec.chain \in Seq(Command) /\ (exec.pc # "idle" => exec.cmd \in Command)
      BY <1>1, <1>2 DEF Numbers, Numbered, ExecRecord
    <3>4. /\ \A i \in DOMAIN up : Before(up[i], x)
          /\ \A i \in DOMAIN exec.chain : Before(exec.chain[i], x)
          /\ exec.pc \in {"gate", "call"} => Before(exec.cmd, x)
      BY <1>2, <1>9, <3>1, <3>2, <3>3 DEF InOrder
    <3>5. /\ AllFresh(up', newest, sent', conn) /\ Ascending(up')
          /\ Precede(exec.chain, up')
          /\ exec.pc \in {"gate", "call"} => First(exec.cmd, up')
      BY <1>2, <1>5, <1>10, <2>2, <3>3, <3>4, AppendKeeps DEF InOrder
    <3>6. QED
      BY <1>2, <1>10, <3>5 DEF InOrder
  <2>3. QED
    BY <1>4, <2>1, <2>2
<1>12. Apart'
  <2>1. \A i \in DOMAIN up : up[i].conn = conn
    BY <1>1 DEF Order, Apart
  <2>2. \A i \in DOMAIN up' : up'[i].conn = conn
    <3>1. CASE up' = up
      BY <2>1, <3>1
    <3>2. CASE browser.open /\ up' = Append(up, x)
      <4>1. \A i \in DOMAIN Append(up, x) : (i \in DOMAIN up /\ Append(up, x)[i] = up[i]) \/ Append(up, x)[i] = x
        BY <1>2, <1>5, <3>2, Appended
      <4>2. x.conn = conn
        BY DEF x
      <4>3. QED
        BY <2>1, <3>2, <4>1, <4>2
    <3>3. QED
      BY <1>4, <3>1, <3>2
  <2>3. QED
    BY <1>1, <1>2, <1>3, <1>4, <2>2 DEF Order, Apart
<1>13. Lateness'
  BY <1>1, <1>2 DEF Lateness
<1>14. QED
  BY <1>7, <1>8, <1>11, <1>12, <1>13 DEF InputInv, Order

LEMMA ReceiveKeeps == ASSUME InputInv, Receive PROVE InputInv'
<1> USE InputBoundsAssumption, InputNoneAssumption
<1> DEFINE msg == Head(down)
           a == IF msg.type = "expect" THEN browser.active ELSE msg.type = "resume"
           n == IF msg.type = "ended" THEN browser.nextSeq ELSE msg.seq
<1>1. Types /\ Numbers /\ Order /\ Lateness
  BY DEF InputInv
<1>2. /\ UNCHANGED <<owner, stored, up, stray, hub, starting, exec, sent, conn, faults, newest, late>>
      /\ down \in Seq(Message) /\ down # <<>> /\ down' = Tail(down) /\ Announced(down)
      /\ browser \in BrowserRecord /\ browser.nextSeq \in 1 .. sent + 1 /\ sent \in Nat
  BY <1>1 DEF Types, Receive, history, BrowserRecord
<1>3. browser' = Hears(browser, a, n)
  BY DEF Receive, Hears
<1>4. a \in BOOLEAN /\ n \in 1 .. sent + 1
  <2>1. msg \in Message /\ (msg.type # "ended" => msg.seq \in 1 .. sent + 1)
    BY <1>2, Shifted DEF Announced
  <2>2. browser.active \in BOOLEAN
    BY <1>2 DEF BrowserRecord
  <2>3. QED
    BY <1>2, <2>1, <2>2
<1>5. /\ browser' \in BrowserRecord /\ browser'.open = browser.open
      /\ browser'.nextSeq = n
  <2>1. browser' = Browser(browser.open, a, n)
    BY <1>2, <1>3, BrowserUpdates
  <2>2. browser.open \in BOOLEAN /\ a \in BOOLEAN /\ n \in Nat \ {0}
    BY <1>2, <1>4 DEF BrowserRecord
  <2> HIDE DEF a, n
  <2>3. QED
    BY <2>1, <2>2, BrowserFields
<1>6. down' \in Seq(Message) /\ Announced(down)'
  BY <1>2, Shifted DEF Announced
<1> HIDE DEF a, n
<1>7. Types'
  BY <1>1, <1>2, <1>4, <1>5, <1>6 DEF Types
<1>8. Numbers' /\ Lateness'
  BY <1>1, <1>2 DEF Numbers, Lateness
<1>9. Order'
  BY <1>1, <1>2, <1>5 DEF Order, Apart
<1>10. QED
  BY <1>7, <1>8, <1>9 DEF InputInv

LEMMA DropKeeps == ASSUME InputInv, Drop PROVE InputInv'
<1> USE InputBoundsAssumption, InputNoneAssumption
<1> DEFINE g == IF hub.greet = "reconnect" THEN hub.greet ELSE "no"
<1>1. Types /\ Numbers /\ Order /\ Lateness
  BY DEF InputInv
<1>2. /\ UNCHANGED <<owner, stored, starting, exec, sent, conn, newest, late>>
      /\ browser.open /\ faults \in Nat /\ faults < MaxFaults /\ faults' = faults + 1 /\ ~hub.old
      /\ stray' = up /\ up' = <<>> /\ down' = <<>>
      /\ browser \in BrowserRecord /\ hub \in HubRecord
  BY <1>1 DEF Types, Drop, history
<1>3. browser' \in BrowserRecord /\ ~browser'.open /\ browser'.nextSeq = browser.nextSeq
  <2>1. browser' = Opens(browser, FALSE)
    BY DEF Drop, Opens
  <2>2. browser' = Browser(FALSE, browser.active, browser.nextSeq)
    BY <1>2, <2>1, BrowserUpdates
  <2>3. browser.active \in BOOLEAN /\ browser.nextSeq \in Nat \ {0}
    BY <1>2 DEF BrowserRecord
  <2>4. QED
    BY <2>2, <2>3, BrowserFields
<1>4. hub' \in HubRecord /\ hub'.old /\ hub'.seq = hub.seq
  <2> DEFINE o == TRUE
  <2>1. hub' = Drops(hub, o, g)
    BY DEF Drop, Drops
  <2>2. o \in BOOLEAN /\ hub.marking \in BOOLEAN /\ hub.seq \in Nat /\ g \in Greets
    BY <1>2 DEF HubRecord, Greets
  <2> HIDE DEF g, o
  <2>3. hub' = Hub(o, hub.marking, hub.seq, g)
    BY <1>2, <2>1, HubUpdates
  <2>4. hub' \in HubRecord /\ hub'.old = o /\ hub'.seq = hub.seq
    BY <2>2, <2>3, HubFields
  <2>5. QED
    BY <2>4 DEF o
<1>5. Types'
  <2>1. conn \in Nat \ {0} /\ conn <= faults + 1
    BY <1>1, <1>2 DEF Types
  <2>2. conn' <= faults' + 0 /\ faults' \in 0 .. MaxFaults
    BY <1>2, <2>1
  <2>3. Announced(down)' /\ down' \in Seq(Message) /\ up' \in Seq(Command) /\ stray' \in Seq(Command)
    BY <1>1, <1>2 DEF Announced, Types
  <2>4. QED
    BY <1>1, <1>2, <1>3, <1>4, <2>2, <2>3 DEF Types
<1>6. Numbers' /\ Lateness'
  BY <1>1, <1>2 DEF Numbers, Lateness
<1>7. Order'
  <2>1. InOrder(exec, <<>>, up, newest, sent, conn)
    BY <1>1, SocketsAlike, QueueLost DEF Order
  <2>2. Apart'
    BY <1>2, <1>3, <1>4 DEF Apart
  <2>3. QED
    BY <1>2, <2>1, <2>2 DEF Order
<1>8. QED
  BY <1>5, <1>6, <1>7 DEF InputInv

LEMMA ConnectKeeps == ASSUME InputInv, Connect PROVE InputInv'
<1> USE InputBoundsAssumption, InputNoneAssumption
<1>1. Types /\ Numbers /\ Order /\ Lateness
  BY DEF InputInv
<1>2. /\ UNCHANGED <<owner, stored, up, stray, down, starting, exec, sent, faults, newest, late>>
      /\ ~browser.open /\ up = <<>> /\ conn \in Nat /\ conn' = conn + 1 /\ sent \in Nat
      /\ stray \in Seq(Command) /\ exec \in ExecRecord
      /\ browser \in BrowserRecord /\ hub \in HubRecord
  BY <1>1 DEF Types, Connect, history, Order, Apart, Numbers, Numbered
<1>3. browser' \in BrowserRecord /\ browser'.open /\ browser'.nextSeq = browser.nextSeq
  <2>1. browser' = Opens(browser, TRUE)
    BY DEF Connect, Opens
  <2>2. browser' = Browser(TRUE, browser.active, browser.nextSeq)
    BY <1>2, <2>1, BrowserUpdates
  <2>3. browser.active \in BOOLEAN /\ browser.nextSeq \in Nat \ {0}
    BY <1>2 DEF BrowserRecord
  <2>4. QED
    BY <2>2, <2>3, BrowserFields
<1>4. hub' \in HubRecord /\ hub'.old = hub.old /\ hub'.seq = hub.seq
  <2>1. hub' = SetGreet(hub, "reconnect")
    BY DEF Connect, SetGreet
  <2>2. hub' = Hub(hub.old, hub.marking, hub.seq, "reconnect")
    BY <1>2, <2>1, HubUpdates
  <2>3. hub.old \in BOOLEAN /\ hub.marking \in BOOLEAN /\ hub.seq \in Nat /\ "reconnect" \in Greets
    BY <1>2 DEF HubRecord, Greets
  <2>4. QED
    BY <2>2, <2>3, HubFields
<1>5. Types'
  <2>1. conn \in Nat \ {0} /\ conn <= faults + 0 /\ faults \in Nat
    BY <1>1, <1>2 DEF Types
  <2>2. conn' \in Nat \ {0} /\ conn' <= faults' + 1
    BY <1>2, <2>1
  <2>3. Announced(down)'
    BY <1>1, <1>2 DEF Types, Announced
  <2>4. QED
    BY <1>1, <1>2, <1>3, <1>4, <2>2, <2>3 DEF Types
<1>6. Numbers' /\ Lateness'
  BY <1>1, <1>2 DEF Numbers, Lateness
<1>7. InOrder(exec, up, stray, newest, sent, conn)
  BY <1>1 DEF Order
<1>8. InOrder(exec, up, stray, newest, sent, conn + 1)
  <2> DEFINE k == conn + 1
  <2>1. /\ \A y \in Command : Fresh(y, newest, sent, conn) => Fresh(y, newest, sent, k)
        /\ \A q \in Seq(Command) : AllFresh(q, newest, sent, conn) => AllFresh(q, newest, sent, k)
    <3>1. sent \in Nat /\ k \in Nat /\ conn \in Nat /\ sent <= sent /\ conn <= k
      BY <1>2
    <3> HIDE DEF k
    <3>2. QED
      BY <3>1, FreshGrows
  <2>2. exec.chain \in Seq(Command) /\ (exec.pc # "idle" => exec.cmd \in Command)
    BY <1>1, <1>2 DEF Numbers, Numbered, ExecRecord
  <2> HIDE DEF k
  <2>3. up \in Seq(Command)
    BY <1>1 DEF Types
  <2>4. InOrder(exec, up, stray, newest, sent, k)
    BY <1>2, <1>7, <2>1, <2>2, <2>3 DEF InOrder
  <2>5. QED
    BY <2>4 DEF k
<1>9. Apart'
  <2>1. \A i \in DOMAIN stray : stray[i] \in Command /\ stray[i].conn <= conn
    BY <1>2, <1>7, Appended DEF InOrder, AllFresh, Fresh
  <2>2. \A i \in DOMAIN stray : stray[i].conn < conn + 1
    BY <1>2, <2>1, CommandNumbers
  <2>3. \A i \in DOMAIN up' : up'[i].conn = conn'
    BY <1>2
  <2>4. ~hub.old => stray = <<>>
    BY <1>1 DEF Order, Apart
  <2>5. QED
    BY <1>2, <1>3, <1>4, <2>2, <2>3, <2>4 DEF Apart
<1>10. QED
  BY <1>2, <1>5, <1>6, <1>8, <1>9 DEF InputInv, Order

-----------------------------------------------------------------------------
(* The hub's steps. *)

LEMMA SocketClosedKeeps == ASSUME InputInv, SocketClosed PROVE InputInv'
<1> DEFINE m == ~browser.open
<1>1. Types /\ Numbers /\ Order /\ Lateness
  BY DEF InputInv
<1>2. /\ UNCHANGED <<owner, stored, browser, up, sent, conn, down, starting, exec, faults, newest, late>>
      /\ stray' = <<>> /\ hub \in HubRecord /\ browser \in BrowserRecord
  BY <1>1 DEF Types, SocketClosed, history, browserVars
<1>3. hub' \in HubRecord /\ ~hub'.old /\ hub'.seq = hub.seq
  <2> DEFINE o == FALSE
  <2>1. hub' = Closes(hub, o, m)
    BY DEF SocketClosed, Closes
  <2>2. o \in BOOLEAN /\ m \in BOOLEAN /\ hub.seq \in Nat /\ hub.greet \in Greets
    BY <1>2 DEF HubRecord, Greets
  <2> HIDE DEF m, o
  <2>3. hub' = Hub(o, m, hub.seq, hub.greet)
    BY <1>2, <2>1, HubUpdates
  <2>4. hub' \in HubRecord /\ hub'.old = o /\ hub'.seq = hub.seq
    BY <2>2, <2>3, HubFields
  <2>5. QED
    BY <2>4 DEF o
<1>4. Types'
  <2>1. Announced(down)'
    BY <1>1, <1>2 DEF Types, Announced
  <2>2. QED
    BY <1>1, <1>2, <1>3, <2>1 DEF Types
<1>5. Numbers' /\ Lateness'
  BY <1>1, <1>2 DEF Numbers, Lateness
<1>6. Order'
  <2>1. InOrder(exec, up, <<>>, newest, sent, conn)
    BY <1>1, QueueLost DEF Order
  <2>2. QED
    BY <1>1, <1>2, <1>3, <2>1 DEF Order, Apart
<1>7. QED
  BY <1>4, <1>5, <1>6 DEF InputInv

\* Steps that change nothing but the owner, what the hub has to do, and what the
\* browser is told.
LEMMA HubStepKeeps ==
    ASSUME InputInv,
           UNCHANGED <<stored, browser, up, stray, exec, sent, conn, faults, newest, late>>,
           owner' \in {"active", "away", "over"},
           late = 1 => owner' # "active",
           hub' \in HubRecord, hub'.old = hub.old, hub'.seq <= sent + 1,
           down' \in Seq(Message), Announced(down'),
           starting' \in (0 .. sent) \cup {None}
    PROVE  InputInv'
<1>1. Types /\ Numbers /\ Order /\ Lateness
  BY DEF InputInv
<1>2. Announced(down)'
  BY DEF Announced
<1>3. Types'
  BY <1>1, <1>2 DEF Types
<1>4. Numbers' /\ Lateness'
  BY <1>1 DEF Numbers, Lateness
<1>5. Order'
  BY <1>1 DEF Order, Apart
<1>6. QED
  BY <1>3, <1>4, <1>5 DEF InputInv

LEMMA DisconnectedKeeps == ASSUME InputInv, Disconnected PROVE InputInv'
<1> DEFINE m == FALSE
<1>1. Types /\ Lateness
  BY DEF InputInv
<1>2. /\ UNCHANGED <<stored, browser, up, stray, sent, conn, down, starting, exec, faults, newest, late>>
      /\ hub \in HubRecord /\ owner' = IF owner = "active" THEN "away" ELSE owner
      /\ down \in Seq(Message) /\ Announced(down) /\ hub.seq <= sent + 1
      /\ starting \in (0 .. sent) \cup {None} /\ owner \in {"active", "away", "over"}
  BY <1>1 DEF Types, Disconnected, history, browserVars
<1>3. hub' \in HubRecord /\ hub'.old = hub.old /\ hub'.seq = hub.seq
  <2>1. hub' = Marks(hub, m)
    BY DEF Disconnected, Marks
  <2>2. m \in BOOLEAN /\ hub.old \in BOOLEAN /\ hub.seq \in Nat /\ hub.greet \in Greets
    BY <1>2 DEF HubRecord, Greets
  <2> HIDE DEF m
  <2>3. hub' = Hub(hub.old, m, hub.seq, hub.greet)
    BY <1>2, <2>1, HubUpdates
  <2>4. QED
    BY <2>2, <2>3, HubFields
<1>4. Announced(down')
  BY <1>2 DEF Announced
<1>5. QED
  BY <1>2, <1>3, <1>4, HubStepKeeps

\* The greeting goes on.
LEMMA GreetKeeps ==
    ASSUME NEW h \in HubRecord, NEW g \in Greets
    PROVE  /\ SetGreet(h, g) \in HubRecord
           /\ SetGreet(h, g).old = h.old /\ SetGreet(h, g).seq = h.seq
<1>1. h.old \in BOOLEAN /\ h.marking \in BOOLEAN /\ h.seq \in Nat
  BY DEF HubRecord
<1>2. SetGreet(h, g) = Hub(h.old, h.marking, h.seq, g)
  BY HubUpdates
<1>3. QED
  BY <1>1, <1>2, HubFields

LEMMA ReconnectedKeeps == ASSUME InputInv, Reconnected PROVE InputInv'
<1> USE InputBoundsAssumption, InputNoneAssumption
<1>1. Types /\ Numbers /\ Order /\ Lateness
  BY DEF InputInv
<1>2. /\ UNCHANGED <<stored, browser, up, stray, sent, conn, faults, newest>>
      /\ hub \in HubRecord /\ down \in Seq(Message) /\ Announced(down) /\ hub.seq <= sent + 1
      /\ starting \in (0 .. sent) \cup {None} /\ owner \in {"active", "away", "over"}
      /\ sent \in 0 .. MaxSends /\ stored \in 0 .. sent
  BY <1>1 DEF Types, Reconnected, browserVars
<1>3. \A g \in Greets : hub' = SetGreet(hub, g) =>
          hub' \in HubRecord /\ hub'.old = hub.old /\ hub'.seq <= sent + 1
  BY <1>2, GreetKeeps
<1>4. "connected" \in Greets /\ "starting" \in Greets
  BY DEF Greets
<1>5. CASE /\ hub' = [hub EXCEPT !.greet = "connected"]
           /\ UNCHANGED <<owner, down, exec, starting, late>>
  <2>1. hub' \in HubRecord /\ hub'.old = hub.old /\ hub'.seq <= sent + 1
    BY <1>3, <1>4, <1>5 DEF SetGreet
  <2>2. down' \in Seq(Message) /\ Announced(down')
    BY <1>2, <1>5 DEF Announced
  <2>3. late = 1 => owner' # "active"
    BY <1>1, <1>5 DEF Lateness
  <2>4. QED
    BY <1>2, <1>5, <2>1, <2>2, <2>3, HubStepKeeps
<1>6. CASE /\ owner' = "active" /\ late' = 0 /\ exec.state = "on"
           /\ down' = Delivered(Resume(exec.lastApplied))
           /\ hub' = [hub EXCEPT !.greet = "connected"] /\ UNCHANGED <<exec, starting>>
  <2>1. hub' \in HubRecord /\ hub'.old = hub.old /\ hub'.seq <= sent + 1
    BY <1>3, <1>4, <1>6 DEF SetGreet
  <2>2. exec.lastApplied \in Nat /\ exec.lastApplied + 1 \in 1 .. sent + 1
    BY <1>1, <1>2 DEF Numbers, Numbered, ExecRecord
  <2>3. down' \in Seq(Message) /\ Announced(down)'
    <3>1. down' \in Seq(Message) /\ Announced(down')
      BY <1>1, <1>6, <2>2, Messages, Delivery
    <3>2. QED
      BY <1>2, <3>1 DEF Announced
  <2>4. Types'
    BY <1>1, <1>2, <1>6, <2>1, <2>3 DEF Types
  <2>5. Numbers' /\ Lateness'
    BY <1>1, <1>2, <1>6 DEF Numbers, Lateness
  <2>6. Order'
    BY <1>1, <1>2, <1>6, <2>1 DEF Order, Apart
  <2>7. QED
    BY <2>4, <2>5, <2>6 DEF InputInv
<1>7. CASE /\ owner' = "active" /\ late' = 0 /\ exec' = NewExecutor(stored) /\ starting' = stored
           /\ hub' = [hub EXCEPT !.greet = "starting"] /\ UNCHANGED down
  <2>1. hub' \in HubRecord /\ hub'.old = hub.old /\ hub'.seq <= sent + 1
    BY <1>3, <1>4, <1>7 DEF SetGreet
  <2>2. /\ exec'.state = "on" /\ exec'.lastEnqueued = stored /\ exec'.lastApplied = stored
        /\ exec'.chain = <<>> /\ exec'.pc = "idle" /\ exec'.cmd = None
        /\ exec' \in ExecRecord
    <3>1. exec' = Exec("on", stored, stored, <<>>, "idle", None)
      BY <1>7, NewExecutorFields
    <3>2. stored \in Nat
      BY <1>2
    <3>3. QED
      BY <3>1, <3>2 DEF Exec, ExecRecord
  <2>3. Announced(down)'
    BY <1>2, <1>7 DEF Announced
  <2>4. Types'
    BY <1>1, <1>2, <1>7, <2>1, <2>3 DEF Types
  <2>5. Numbers'
    BY <1>2, <2>2 DEF Numbers, Numbered
  <2>6. Lateness'
    BY <1>7 DEF Lateness
  <2>7. InOrder(exec', up, stray, newest, sent, conn)
    BY <1>1, <2>2, IdleInOrder DEF Order
  <2>8. Order'
    BY <1>1, <1>2, <2>1, <2>7 DEF Order, Apart
  <2>9. QED
    BY <2>4, <2>5, <2>6, <2>8 DEF InputInv
<1>8. QED
  BY <1>5, <1>6, <1>7 DEF Reconnected, FirstSeq

LEMMA StreamStartedKeeps == ASSUME InputInv, StreamStarted PROVE InputInv'
<1> DEFINE g == IF hub.greet = "starting" THEN "connected" ELSE hub.greet
<1>1. Types /\ Lateness
  BY DEF InputInv
<1>2. /\ UNCHANGED <<owner, stored, browser, up, stray, sent, conn, exec, faults, newest, late>>
      /\ starting' = None /\ starting # None /\ down' = Delivered(Resume(starting))
      /\ hub \in HubRecord /\ hub.seq <= sent + 1 /\ sent \in Nat
      /\ starting \in (0 .. sent) \cup {None} /\ owner \in {"active", "away", "over"}
  BY <1>1 DEF Types, StreamStarted, history, browserVars
<1>3. hub' \in HubRecord /\ hub'.old = hub.old /\ hub'.seq <= sent + 1
  <2>1. hub' = SetGreet(hub, g)
    BY DEF StreamStarted, SetGreet
  <2>2. g \in Greets
    BY <1>2 DEF HubRecord, Greets
  <2> HIDE DEF g
  <2>3. QED
    BY <1>2, <2>1, <2>2, GreetKeeps
<1>4. starting \in Nat /\ starting + 1 \in 1 .. sent + 1
  BY <1>2
<1>5. down' \in Seq(Message) /\ Announced(down')
  BY <1>1, <1>2, <1>4, Messages, Delivery
<1>6. late = 1 => owner' # "active"
  BY <1>1, <1>2 DEF Lateness
<1>7. QED
  BY <1>2, <1>3, <1>5, <1>6, HubStepKeeps

\* The greeting is read, or sent.
LEMMA ReadKeeps ==
    ASSUME NEW h \in HubRecord, NEW g \in Greets, NEW n \in Nat
    PROVE  /\ Reads(h, g, n) \in HubRecord
           /\ Reads(h, g, n).old = h.old /\ Reads(h, g, n).seq = n
<1>1. h.old \in BOOLEAN /\ h.marking \in BOOLEAN
  BY DEF HubRecord
<1>2. Reads(h, g, n) = Hub(h.old, h.marking, n, g)
  BY HubUpdates
<1>3. QED
  BY <1>1, <1>2, HubFields

LEMMA StateReadKeeps == ASSUME InputInv, StateRead PROVE InputInv'
<1> DEFINE n == IF owner = "over" THEN 0 ELSE stored + 1
<1>1. Types /\ Lateness
  BY DEF InputInv
<1>2. /\ UNCHANGED <<owner, stored, browser, up, stray, sent, conn, exec, down, starting, faults,
                     newest, late>>
      /\ hub \in HubRecord /\ stored \in 0 .. sent /\ sent \in Nat
      /\ down \in Seq(Message) /\ Announced(down)
      /\ starting \in (0 .. sent) \cup {None} /\ owner \in {"active", "away", "over"}
  BY <1>1 DEF Types, StateRead, history, browserVars
<1>3. hub' \in HubRecord /\ hub'.old = hub.old /\ hub'.seq <= sent + 1
  <2>1. hub' = Reads(hub, "read", n)
    BY DEF StateRead, Reads
  <2>2. n \in Nat /\ n <= sent + 1 /\ "read" \in Greets
    BY <1>2 DEF Greets
  <2> HIDE DEF n
  <2>3. QED
    BY <1>2, <2>1, <2>2, ReadKeeps
<1>4. Announced(down')
  BY <1>2 DEF Announced
<1>5. late = 1 => owner' # "active"
  BY <1>1, <1>2 DEF Lateness
<1>6. QED
  BY <1>2, <1>3, <1>4, <1>5, HubStepKeeps

LEMMA HelloKeeps == ASSUME InputInv, Hello PROVE InputInv'
<1>1. Types /\ Lateness
  BY DEF InputInv
<1>2. /\ UNCHANGED <<owner, stored, browser, up, stray, sent, conn, exec, starting, faults, newest, late>>
      /\ hub \in HubRecord /\ hub.seq <= sent + 1 /\ sent \in Nat
      /\ down' = Delivered(IF hub.seq = 0 THEN Ended ELSE Resume(hub.seq - 1))
      /\ starting \in (0 .. sent) \cup {None} /\ owner \in {"active", "away", "over"}
  BY <1>1 DEF Types, Hello, history, browserVars
<1>3. hub' \in HubRecord /\ hub'.old = hub.old /\ hub'.seq <= sent + 1
  <2>1. hub' = Reads(hub, "no", 0)
    BY DEF Hello, Reads
  <2>2. "no" \in Greets /\ 0 \in Nat
    BY DEF Greets
  <2>3. QED
    BY <1>2, <2>1, <2>2, ReadKeeps
<1>4. down' \in Seq(Message) /\ Announced(down')
  <2>1. CASE hub.seq = 0
    BY <1>1, <1>2, <2>1, Messages, Delivery
  <2>2. CASE hub.seq # 0
    <3>1. hub.seq - 1 \in Nat /\ (hub.seq - 1) + 1 \in 1 .. sent + 1
      BY <1>2, <2>2 DEF HubRecord
    <3>2. QED
      BY <1>1, <1>2, <2>2, <3>1, Messages, Delivery
  <2>3. QED
    BY <2>1, <2>2
<1>5. late = 1 => owner' # "active"
  BY <1>1, <1>2 DEF Lateness
<1>6. QED
  BY <1>2, <1>3, <1>4, <1>5, HubStepKeeps

-----------------------------------------------------------------------------
(* The executor's steps. *)

\* What submit() makes of the executor and tells the browser.
LEMMA SubmitKeeps ==
    ASSUME InputInv, NEW x \in Command, x.seq <= sent, Submit(x)
    PROVE  /\ Numbered(exec', stored) /\ exec'.lastEnqueued <= sent
           /\ exec'.pc = exec.pc /\ exec'.cmd = exec.cmd
           /\ exec'.chain = exec.chain \/ exec'.chain = Append(exec.chain, x)
           /\ down' \in Seq(Message) /\ Announced(down')
<1> USE InputBoundsAssumption, InputNoneAssumption
<1> DEFINE gap == exec.state = "on" /\ x.seq > exec.lastEnqueued + 1
           admits == exec.state = "on" /\ x.seq = exec.lastEnqueued + 1 /\ Len(exec.chain) < MaxPending
           c == exec.chain
<1>1. Types /\ Numbers
  BY DEF InputInv
<1>2. /\ exec' = (IF admits THEN [exec EXCEPT !.lastEnqueued = x.seq, !.chain = Append(exec.chain, x)] ELSE exec)
      /\ down' = IF gap THEN Delivered(Expect(exec.lastEnqueued + 1)) ELSE down
  BY DEF Submit
<1>3. /\ Numbered(exec, stored) /\ exec.lastEnqueued <= sent /\ exec \in ExecRecord
      /\ x.seq \in Nat /\ sent \in Nat /\ exec.lastEnqueued \in Nat /\ exec.lastApplied \in Nat
      /\ down \in Seq(Message) /\ Announced(down) /\ stored \in Nat
  BY <1>1, CommandNumbers DEF Types, Numbers, Numbered, ExecRecord
<1>4. down' \in Seq(Message) /\ Announced(down')
  <2>1. CASE gap
    <3>1. exec.lastEnqueued + 1 \in Nat /\ exec.lastEnqueued + 1 \in 1 .. sent + 1
      BY <1>3
    <3>2. QED
      BY <1>1, <1>2, <2>1, <3>1, Messages, Delivery
  <2>2. CASE ~gap
    BY <1>2, <1>3, <2>2
  <2>3. QED
    BY <2>1, <2>2
<1>5. CASE ~admits
  <2>1. exec' = exec
    BY <1>2, <1>5
  <2>2. QED
    BY <1>3, <1>4, <2>1
<1>6. CASE admits
  <2>1. exec' = Enqueues(exec, x.seq, Append(c, x))
    BY <1>2, <1>6 DEF Enqueues
  <2>2. exec' = Exec(exec.state, x.seq, exec.lastApplied, Append(c, x), exec.pc, exec.cmd)
    BY <1>3, <2>1, ExecUpdates
  <2>3. c \in Seq(Command) /\ Append(c, x) \in Seq(Command)
    BY <1>3, Appended DEF ExecRecord
  <2>4. /\ exec'.state = exec.state /\ exec'.lastEnqueued = x.seq
        /\ exec'.lastApplied = exec.lastApplied /\ exec'.chain = Append(c, x)
        /\ exec'.pc = exec.pc /\ exec'.cmd = exec.cmd
    BY <2>2 DEF Exec
  <2>5. exec' \in ExecRecord
    BY <1>3, <2>2, <2>3 DEF Exec, ExecRecord
  <2>6. /\ Len(Append(c, x)) = Len(c) + 1 /\ Len(c) \in Nat
        /\ \A i \in DOMAIN Append(c, x) :
              \/ i \in DOMAIN c /\ Append(c, x)[i] = c[i] /\ c[i] \in Command
              \/ i = Len(c) + 1 /\ Append(c, x)[i] = x
        /\ DOMAIN c = 1 .. Len(c) /\ DOMAIN Append(c, x) = 1 .. Len(c) + 1
    BY <2>3, Appended
  <2> DEFINE a == Append(c, x)
  <2> HIDE DEF a
  <2>7. \A i \in DOMAIN c : c[i].seq \in Nat /\ exec.lastApplied < c[i].seq /\ c[i].seq <= exec.lastEnqueued
    BY <1>3, <2>6, CommandNumbers DEF Numbered, a
  <2>8. \A i \in DOMAIN a : exec.lastApplied < a[i].seq /\ a[i].seq <= x.seq
    <3>1. exec.lastApplied < x.seq /\ exec.lastEnqueued < x.seq
      BY <1>3, <1>6 DEF Numbered
    <3>2. QED
      BY <1>3, <2>6, <2>7, <3>1 DEF a
  <2>9. \A i, j \in DOMAIN a : i < j => a[i].seq < a[j].seq
    <3>1. \A i, j \in DOMAIN c : i < j => c[i].seq < c[j].seq
      BY <1>3 DEF Numbered
    <3>2. SUFFICES ASSUME NEW i \in DOMAIN a, NEW j \in DOMAIN a, i < j
                   PROVE  a[i].seq < a[j].seq
      OBVIOUS
    <3>3. i \in DOMAIN c /\ a[i] = c[i]
      BY <2>6, <3>2 DEF a
    <3>4. CASE j \in DOMAIN c /\ a[j] = c[j]
      BY <3>1, <3>2, <3>3, <3>4
    <3>5. CASE a[j] = x
      BY <1>3, <1>6, <2>7, <3>3, <3>5
    <3>6. QED
      BY <2>6, <3>4, <3>5 DEF a
  <2>10. exec.pc # "idle" => \A i \in DOMAIN a : exec.cmd.seq < a[i].seq
    <3>1. SUFFICES ASSUME exec.pc # "idle", NEW i \in DOMAIN a
                   PROVE  exec.cmd.seq < a[i].seq
      OBVIOUS
    <3>2. exec.cmd \in Command /\ exec.cmd.seq \in Nat
      BY <1>3, <3>1, CommandNumbers DEF Numbered, ExecRecord
    <3>3. exec.cmd.seq <= exec.lastEnqueued /\ exec.lastEnqueued < x.seq
      BY <1>3, <1>6, <3>1, <3>2 DEF Numbered, ExecRecord
    <3>4. CASE i \in DOMAIN c /\ a[i] = c[i]
      BY <1>3, <3>1, <3>4 DEF Numbered
    <3>5. CASE a[i] = x
      BY <1>3, <3>2, <3>3, <3>5
    <3>6. QED
      BY <2>6, <3>4, <3>5 DEF a
  <2>11. Numbered(exec', stored)
    <3>1. exec'.chain = a /\ Len(a) <= MaxPending /\ exec.state = "on"
      BY <1>6, <2>4, <2>6 DEF a
    <3>2. exec.lastApplied <= x.seq
      BY <1>3, <1>6 DEF Numbered
    <3>3. /\ exec.pc \in {"gate", "call"} => exec.lastApplied < exec.cmd.seq /\ exec.cmd.seq <= x.seq
          /\ exec.pc = "persist" => exec.cmd.seq <= exec.lastApplied
      <4>1. exec.pc # "idle" => exec.cmd.seq \in Nat
        BY <1>3, CommandNumbers DEF Numbered, ExecRecord
      <4>2. QED
        BY <1>3, <1>6, <4>1 DEF Numbered
    <3>4. /\ exec.pc = "idle" <=> exec.cmd = None
          /\ stored <= exec.lastApplied
      BY <1>3, <3>1 DEF Numbered
    <3>5. QED
      BY <2>4, <2>5, <2>8, <2>9, <2>10, <3>1, <3>2, <3>3, <3>4 DEF Numbered
  <2>12. QED
    BY <1>3, <1>4, <2>4, <2>11
<1>7. QED
  BY <1>5, <1>6

\* The message of one of the two sockets is taken off it and submitted.
LEMMA SubmitInOrder ==
    ASSUME InputInv, NEW q \in Seq(Command), NEW r \in Seq(Command), q # <<>>, Submit(Head(q)),
           InOrder(exec, q, r, newest, sent, conn), First(Head(q), r)
    PROVE  /\ Numbered(exec', stored) /\ exec'.lastEnqueued <= sent /\ exec'.pc = exec.pc
           /\ down' \in Seq(Message) /\ Announced(down')
           /\ InOrder(exec', Tail(q), r, newest, sent, conn)
<1> DEFINE x == Head(q)
<1>1. x \in Command /\ Fresh(x, newest, sent, conn)
  BY TailKeeps, Shifted DEF InOrder
<1>2. x.seq <= sent
  BY <1>1 DEF Fresh
<1>3. /\ Numbered(exec', stored) /\ exec'.lastEnqueued <= sent
      /\ exec'.pc = exec.pc /\ exec'.cmd = exec.cmd
      /\ exec'.chain = exec.chain \/ exec'.chain = Append(exec.chain, x)
      /\ down' \in Seq(Message) /\ Announced(down')
  BY <1>1, <1>2, SubmitKeeps
<1>4. exec \in ExecRecord /\ exec' \in ExecRecord /\ exec.chain \in Seq(Command)
  BY <1>3 DEF InputInv, Numbers, Numbered, ExecRecord
<1>5. CASE exec'.chain = Append(exec.chain, x)
  BY <1>3, <1>4, <1>5, Admitted
<1>6. CASE exec'.chain = exec.chain
  <2>1. InOrder(exec, Tail(q), r, newest, sent, conn)
    BY <1>4, Refused
  <2>2. QED
    BY <1>3, <1>6, <2>1 DEF InOrder
<1>7. QED
  BY <1>3, <1>5, <1>6

LEMMA ArrivesKeeps == ASSUME InputInv, Arrives PROVE InputInv'
<1>1. Types /\ Numbers /\ Order /\ Lateness
  BY DEF InputInv
<1>2. /\ UNCHANGED <<owner, stored, browser, hub, starting, sent, conn, faults, newest, late>>
      /\ up \in Seq(Command) /\ stray \in Seq(Command)
      /\ InOrder(exec, up, stray, newest, sent, conn)
      /\ InOrder(exec, stray, up, newest, sent, conn)
  BY <1>1, SocketsAlike DEF Types, Order, Arrives, history
<1>3. /\ \A i \in DOMAIN up : up[i].conn = conn
      /\ browser.open => \A i \in DOMAIN stray : stray[i].conn < conn
      /\ ~browser.open => up = <<>>
      /\ ~hub.old => stray = <<>>
      /\ conn \in Nat
  BY <1>1 DEF Types, Order, Apart
<1>4. up # <<>> => browser.open /\ Head(up).conn = conn
  BY <1>2, <1>3, Shifted
<1>5. CASE up # <<>> /\ Submit(Head(up)) /\ up' = Tail(up) /\ UNCHANGED stray
  <2>1. First(Head(up), stray)
    BY <1>3, <1>4, <1>5 DEF First, Before
  <2>2. /\ Numbered(exec', stored) /\ exec'.lastEnqueued <= sent /\ exec'.pc = exec.pc
        /\ down' \in Seq(Message) /\ Announced(down')
        /\ InOrder(exec', Tail(up), stray, newest, sent, conn)
    BY <1>2, <1>5, <2>1, SubmitInOrder
  <2>3. up' \in Seq(Command) /\ \A i \in DOMAIN up' : up'[i].conn = conn
    BY <1>2, <1>3, <1>5, Shifted
  <2>4. Announced(down)'
    BY <1>2, <2>2 DEF Announced
  <2>5. Types'
    BY <1>1, <1>2, <1>5, <2>2, <2>3, <2>4 DEF Types
  <2>6. Numbers' /\ Lateness'
    BY <1>1, <1>2, <2>2 DEF Numbers, Lateness
  <2>7. Order'
    BY <1>2, <1>3, <1>4, <1>5, <2>2, <2>3 DEF Order, Apart
  <2>8. QED
    BY <2>5, <2>6, <2>7 DEF InputInv
<1>6. CASE stray # <<>> /\ Submit(Head(stray)) /\ stray' = Tail(stray) /\ UNCHANGED up
  <2>1. First(Head(stray), up)
    <3>1. Head(stray).conn = conn => ~browser.open
      BY <1>2, <1>3, <1>6, Shifted
    <3>2. QED
      BY <1>3, <3>1 DEF First, Before
  <2>2. /\ Numbered(exec', stored) /\ exec'.lastEnqueued <= sent /\ exec'.pc = exec.pc
        /\ down' \in Seq(Message) /\ Announced(down')
        /\ InOrder(exec', Tail(stray), up, newest, sent, conn)
    BY <1>2, <1>6, <2>1, SubmitInOrder
  <2>3. stray' \in Seq(Command)
    BY <1>2, <1>6, Shifted
  <2>4. Announced(down)'
    BY <1>2, <2>2 DEF Announced
  <2>5. Types'
    BY <1>1, <1>2, <1>6, <2>2, <2>3, <2>4 DEF Types
  <2>6. Numbers' /\ Lateness'
    BY <1>1, <1>2, <2>2 DEF Numbers, Lateness
  <2>7. InOrder(exec', up, Tail(stray), newest, sent, conn)
    BY <2>2, SocketsAlike
  <2>8. browser.open => \A i \in DOMAIN Tail(stray) : Tail(stray)[i].conn < conn
    BY <1>2, <1>3, <1>6, Shifted
  <2>9. Order'
    BY <1>2, <1>3, <1>6, <2>7, <2>8 DEF Order, Apart
  <2>10. QED
    BY <2>5, <2>6, <2>9 DEF InputInv
<1>7. QED
  BY <1>5, <1>6 DEF Arrives

\* Steps of the executor that leave everything to its record, and execute nothing.
LEMMA ExecStepKeeps ==
    ASSUME InputInv,
           UNCHANGED <<browser, up, sent, conn, stray, down, hub, starting, faults, newest, late>>,
           owner' = owner,
           stored' \in 0 .. sent, Numbered(exec', stored'), exec'.lastEnqueued <= sent,
           exec'.pc = "call" => exec.pc = "call" \/ late = 0,
           InOrder(exec', up, stray, newest, sent, conn)
    PROVE  InputInv'
<1>1. Types /\ Numbers /\ Order /\ Lateness
  BY DEF InputInv
<1>2. Announced(down)'
  BY <1>1 DEF Types, Announced
<1>3. Types'
  BY <1>1, <1>2 DEF Types
<1>4. Numbers' /\ Lateness'
  BY <1>1 DEF Numbers, Lateness
<1>5. Order'
  BY <1>1 DEF Order, Apart
<1>6. QED
  BY <1>3, <1>4, <1>5 DEF InputInv

LEMMA ExecStartsKeeps ==
    ASSUME InputInv, ExecStarts, UNCHANGED <<browserVars, stray, down, hub, starting, faults>>
    PROVE  InputInv'
<1> USE InputBoundsAssumption, InputNoneAssumption
<1> DEFINE c == exec.chain
           x == Head(c)
           t == Tail(c)
<1>1. /\ UNCHANGED <<owner, stored, browser, up, sent, conn, stray, down, hub, starting, faults,
                     newest, late>>
      /\ exec.pc = "idle" /\ c # <<>>
  BY DEF ExecStarts, MayStart, history, browserVars
<1>2. /\ Numbered(exec, stored) /\ exec.lastEnqueued <= sent /\ exec \in ExecRecord
      /\ sent \in Nat /\ stored \in 0 .. sent /\ stored' \in 0 .. sent
      /\ up \in Seq(Command) /\ stray \in Seq(Command)
      /\ exec.lastEnqueued \in Nat /\ exec.lastApplied \in Nat
      /\ InOrder(exec, up, stray, newest, sent, conn)
  BY <1>1 DEF InputInv, Types, Numbers, Numbered, Order, ExecRecord
<1>3. /\ c \in Seq(Command) /\ t \in Seq(Command) /\ x \in Command /\ x = c[1] /\ 1 \in DOMAIN c
      /\ Len(c) \in Nat \ {0} /\ Len(t) = Len(c) - 1
      /\ \A i \in DOMAIN t : i + 1 \in DOMAIN c /\ t[i] = c[i + 1] /\ 1 < i + 1 /\ i \in Nat
      /\ RemoveAt(c, 1) = t
  <2>1. c \in Seq(Command)
    BY <1>2 DEF ExecRecord
  <2>2. /\ t \in Seq(Command) /\ x \in Command /\ x = c[1] /\ 1 \in DOMAIN c
        /\ Len(c) \in Nat \ {0} /\ Len(t) = Len(c) - 1
        /\ DOMAIN c = 1 .. Len(c) /\ DOMAIN t = 1 .. Len(c) - 1
        /\ \A i \in 1 .. Len(c) - 1 : t[i] = c[i + 1]
    BY <1>1, <2>1, Shifted
  <2>3. RemoveAt(c, 1) = t
    BY <1>1, <2>1, FirstTaken
  <2> HIDE DEF c, t, x
  <2>4. QED
    BY <2>1, <2>2, <2>3
<1>4. \/ exec.state = "stopped" /\ exec' = Chained(exec, t)
      \/ exec.state # "stopped" /\ exec' = Skips(exec, t, Consumed(x.seq))
      \/ exec.state # "stopped" /\ exec' = Begins(exec, t, x)
  <2>1. PICK i \in DOMAIN exec.chain :
           /\ MayStart(i)
           /\ IF exec.state = "stopped"
                THEN exec' = [exec EXCEPT !.chain = RemoveAt(@, i)]
                ELSE exec' \in {[[exec EXCEPT !.chain = RemoveAt(@, i)] EXCEPT !.lastApplied = Consumed(exec.chain[i].seq)],
                                [[exec EXCEPT !.chain = RemoveAt(@, i)] EXCEPT !.pc = "gate", !.cmd = exec.chain[i]]}
    BY DEF ExecStarts
  <2>2. i = 1
    BY <2>1 DEF MayStart
  <2>3. QED
    BY <1>3, <2>1, <2>2 DEF Chained, Skips, Begins
<1>5. exec.state # "none"
  BY <1>1, <1>2 DEF Numbered
<1> HIDE DEF t, x
<1>6. /\ x.seq \in Nat /\ exec.lastApplied < x.seq /\ x.seq <= exec.lastEnqueued
      /\ Consumed(x.seq) = x.seq
  <2>1. x.seq \in Nat
    BY <1>3, CommandNumbers
  <2>2. exec.lastApplied < x.seq /\ x.seq <= exec.lastEnqueued
    BY <1>2, <1>3 DEF Numbered
  <2>3. QED
    BY <1>2, <2>1, <2>2 DEF Consumed
<1>7. /\ \A i \in DOMAIN t : x.seq < t[i].seq /\ t[i].seq \in Nat /\ t[i].seq <= exec.lastEnqueued
      /\ \A i, j \in DOMAIN t : i < j => t[i].seq < t[j].seq
  <2>1. \A i \in DOMAIN c : c[i].seq \in Nat /\ c[i].seq <= exec.lastEnqueued
    BY <1>2, <1>3, Appended, CommandNumbers DEF Numbered
  <2>2. \A i, j \in DOMAIN c : i < j => c[i].seq < c[j].seq
    BY <1>2 DEF Numbered
  <2>3. \A i, j \in DOMAIN t : i < j => i + 1 < j + 1
    BY <1>3
  <2>4. QED
    BY <1>3, <2>1, <2>2, <2>3
<1>8. CASE exec' = Chained(exec, t)
  <2>1. exec' = Exec(exec.state, exec.lastEnqueued, exec.lastApplied, t, exec.pc, exec.cmd)
    BY <1>2, <1>8, ExecUpdates
  <2>2. /\ exec'.state = exec.state /\ exec'.lastEnqueued = exec.lastEnqueued
        /\ exec'.lastApplied = exec.lastApplied /\ exec'.chain = t
        /\ exec'.pc = "idle" /\ exec'.cmd = exec.cmd /\ exec' \in ExecRecord
    BY <1>1, <1>2, <1>3, <2>1 DEF Exec, ExecRecord
  <2>3. Numbered(exec', stored')
    <3>1. \A i \in DOMAIN t : exec.lastApplied < t[i].seq /\ t[i].seq <= exec.lastEnqueued
      BY <1>2, <1>6, <1>7
    <3>2. Len(t) <= MaxPending
      BY <1>2, <1>3 DEF Numbered
    <3>3. QED
      BY <1>1, <1>2, <1>5, <1>7, <2>2, <3>1, <3>2 DEF Numbered
  <2>4. InOrder(exec', up, stray, newest, sent, conn)
    BY <1>1, <1>2, <2>2, Taken DEF t
  <2>5. QED
    BY <1>1, <1>2, <2>2, <2>3, <2>4, ExecStepKeeps
<1>9. CASE exec' = Skips(exec, t, Consumed(x.seq))
  <2>1. exec' = Exec(exec.state, exec.lastEnqueued, x.seq, t, exec.pc, exec.cmd)
    BY <1>2, <1>6, <1>9, ExecUpdates
  <2>2. /\ exec'.state = exec.state /\ exec'.lastEnqueued = exec.lastEnqueued
        /\ exec'.lastApplied = x.seq /\ exec'.chain = t
        /\ exec'.pc = "idle" /\ exec'.cmd = exec.cmd /\ exec' \in ExecRecord
    BY <1>1, <1>2, <1>3, <1>6, <2>1 DEF Exec, ExecRecord
  <2>3. Numbered(exec', stored')
    <3>1. Len(t) <= MaxPending
      BY <1>2, <1>3 DEF Numbered
    <3>2. stored <= x.seq
      BY <1>2, <1>5, <1>6 DEF Numbered
    <3>3. exec.cmd = None
      BY <1>1, <1>2 DEF Numbered
    <3>4. QED
      BY <1>1, <1>5, <1>6, <1>7, <2>2, <3>1, <3>2, <3>3 DEF Numbered
  <2>4. InOrder(exec', up, stray, newest, sent, conn)
    BY <1>1, <1>2, <2>2, Taken DEF t
  <2>5. QED
    BY <1>1, <1>2, <2>2, <2>3, <2>4, ExecStepKeeps
<1>10. CASE exec' = Begins(exec, t, x)
  <2>1. exec' = Exec(exec.state, exec.lastEnqueued, exec.lastApplied, t, "gate", x)
    BY <1>2, <1>10, ExecUpdates
  <2>2. /\ exec'.state = exec.state /\ exec'.lastEnqueued = exec.lastEnqueued
        /\ exec'.lastApplied = exec.lastApplied /\ exec'.chain = t
        /\ exec'.pc = "gate" /\ exec'.cmd = x /\ exec' \in ExecRecord
    BY <1>1, <1>2, <1>3, <2>1 DEF Exec, ExecRecord
  <2>3. Numbered(exec', stored')
    <3>1. \A i \in DOMAIN t : exec.lastApplied < t[i].seq /\ t[i].seq <= exec.lastEnqueued
      BY <1>2, <1>6, <1>7
    <3>2. Len(t) <= MaxPending
      BY <1>2, <1>3 DEF Numbered
    <3>3. x # None
      BY <1>3, InputNoneAssumption
    <3>4. QED
      BY <1>1, <1>2, <1>5, <1>6, <1>7, <2>2, <3>1, <3>2, <3>3 DEF Numbered
  <2>4. InOrder(exec', up, stray, newest, sent, conn)
    BY <1>1, <1>2, <2>2, Taken DEF t, x
  <2>5. QED
    BY <1>1, <1>2, <2>2, <2>3, <2>4, ExecStepKeeps
<1>11. QED
  BY <1>4, <1>8, <1>9, <1>10

\* What is known of the command under execution.
LEMMA Executing ==
    ASSUME InputInv, exec.pc # "idle"
    PROVE  /\ Numbered(exec, stored) /\ exec.lastEnqueued <= sent /\ exec \in ExecRecord
           /\ sent \in Nat /\ stored \in 0 .. sent
           /\ exec.lastEnqueued \in Nat /\ exec.lastApplied \in Nat
           /\ exec.cmd \in Command /\ exec.cmd.seq \in Nat /\ exec.state # "none"
           /\ stored <= exec.lastApplied
           /\ InOrder(exec, up, stray, newest, sent, conn)
<1>1. Types /\ Numbers /\ Order
  BY DEF InputInv
<1>2. Numbered(exec, stored) /\ exec \in ExecRecord
  BY <1>1 DEF Numbers, Numbered
<1>3. exec.cmd \in Command /\ exec.state # "none" /\ stored <= exec.lastApplied
  BY <1>2 DEF Numbered, ExecRecord
<1>4. QED
  BY <1>1, <1>2, <1>3, CommandNumbers DEF Types, Numbers, ExecRecord, Order

\* The command under execution is answered, as applied or not.
LEMMA AnswerKeeps ==
    ASSUME InputInv, exec.pc # "idle", NEW n, n \in {exec.lastApplied, Consumed(exec.cmd.seq)},
           n # exec.lastApplied => exec.pc = "call",
           exec' = Answers(exec, n),
           UNCHANGED <<browser, up, sent, conn, stray, down, hub, starting, faults, newest, late>>,
           owner' = owner, stored' \in 0 .. sent, stored' <= exec.lastApplied
    PROVE  InputInv'
<1>1. /\ Numbered(exec, stored) /\ exec.lastEnqueued <= sent /\ exec \in ExecRecord
      /\ exec.lastEnqueued \in Nat /\ exec.lastApplied \in Nat
      /\ exec.cmd \in Command /\ exec.cmd.seq \in Nat /\ exec.state # "none"
      /\ InOrder(exec, up, stray, newest, sent, conn)
  BY Executing
<1>2. /\ n \in Nat /\ exec.lastApplied <= n /\ n <= exec.lastEnqueued
      /\ \A i \in DOMAIN exec.chain : n < exec.chain[i].seq
  <2>1. CASE n = exec.lastApplied
    BY <1>1, <2>1 DEF Numbered
  <2>2. CASE n = exec.cmd.seq /\ exec.pc = "call"
    BY <1>1, <2>2 DEF Numbered
  <2>3. QED
    BY <2>1, <2>2 DEF Consumed
<1>3. exec' = Exec(exec.state, exec.lastEnqueued, n, exec.chain, "idle", None)
  BY <1>1, ExecUpdates
<1>4. /\ exec'.state = exec.state /\ exec'.lastEnqueued = exec.lastEnqueued
      /\ exec'.lastApplied = n /\ exec'.chain = exec.chain
      /\ exec'.pc = "idle" /\ exec'.cmd = None /\ exec' \in ExecRecord
  BY <1>1, <1>2, <1>3 DEF Exec, ExecRecord
<1>5. Numbered(exec', stored')
  <2>1. stored' <= n
    <3>1. sent \in Nat /\ stored' \in Nat
      BY DEF InputInv, Types
    <3>2. QED
      BY <1>1, <1>2, <3>1
  <2>2. QED
    BY <1>1, <1>2, <1>4, <2>1 DEF Numbered
<1>6. InOrder(exec', up, stray, newest, sent, conn)
  BY <1>1, <1>4, Answered
<1>7. QED
  BY <1>1, <1>4, <1>5, <1>6, ExecStepKeeps

LEMMA ExecGateKeeps ==
    ASSUME InputInv, ExecGate, UNCHANGED <<browserVars, stray, down, hub, starting, faults>>
    PROVE  InputInv'
<1>1. /\ UNCHANGED <<owner, stored, browser, up, sent, conn, stray, down, hub, starting, faults,
                     newest, late>>
      /\ exec.pc = "gate"
  BY DEF ExecGate, history, browserVars
<1>2. /\ Numbered(exec, stored) /\ exec.lastEnqueued <= sent /\ exec \in ExecRecord
      /\ exec.lastEnqueued \in Nat /\ exec.lastApplied \in Nat /\ sent \in Nat
      /\ exec.cmd \in Command /\ exec.cmd.seq \in Nat /\ exec.state # "none"
      /\ stored \in 0 .. sent /\ stored <= exec.lastApplied
      /\ InOrder(exec, up, stray, newest, sent, conn)
  BY <1>1, Executing
<1>3. CASE Authorized /\ exec' = [exec EXCEPT !.pc = "call"]
  <2>1. exec' = Exec(exec.state, exec.lastEnqueued, exec.lastApplied, exec.chain, "call", exec.cmd)
    BY <1>2, <1>3, ExecUpdates DEF Calls
  <2>2. /\ exec'.state = exec.state /\ exec'.lastEnqueued = exec.lastEnqueued
        /\ exec'.lastApplied = exec.lastApplied /\ exec'.chain = exec.chain
        /\ exec'.pc = "call" /\ exec'.cmd = exec.cmd /\ exec' \in ExecRecord
    BY <1>2, <2>1 DEF Exec, ExecRecord
  <2>3. Numbered(exec', stored')
    BY <1>1, <1>2, <2>2 DEF Numbered
  <2>4. late = 0
    BY <1>3 DEF InputInv, Lateness, Authorized
  <2>5. InOrder(exec', up, stray, newest, sent, conn)
    BY <1>1, <1>2, <2>2, Answered
  <2>6. QED
    BY <1>1, <1>2, <2>2, <2>3, <2>4, <2>5, ExecStepKeeps
<1>4. CASE Answer(exec.lastApplied)
  <2>1. exec' = Answers(exec, exec.lastApplied)
    BY <1>4 DEF Answer, Answers
  <2>2. QED
    BY <1>1, <1>2, <2>1, AnswerKeeps
<1>5. QED
  BY <1>3, <1>4 DEF ExecGate

LEMMA ExecFailsKeeps ==
    ASSUME InputInv, ExecFails, UNCHANGED <<browserVars, stray, down, hub, starting, faults>>
    PROVE  InputInv'
<1>1. /\ UNCHANGED <<owner, stored, browser, up, sent, conn, stray, down, hub, starting, faults,
                     newest, late>>
      /\ exec.pc = "call"
  BY DEF ExecFails, history, browserVars
<1>2. stored \in 0 .. sent /\ stored <= exec.lastApplied
  BY <1>1, Executing
<1>3. exec' = Answers(exec, Consumed(exec.cmd.seq))
  BY DEF ExecFails, Answer, Answers
<1>4. QED
  BY <1>1, <1>2, <1>3, AnswerKeeps

LEMMA ExecPersistsKeeps ==
    ASSUME InputInv, ExecPersists, UNCHANGED <<browserVars, stray, down, hub, starting, faults>>
    PROVE  InputInv'
<1>1. /\ UNCHANGED <<owner, browser, up, sent, conn, stray, down, hub, starting, faults, newest, late>>
      /\ exec.pc = "persist" /\ stored' \in {stored, exec.cmd.seq}
  BY DEF ExecPersists, history, browserVars
<1>2. /\ stored \in 0 .. sent /\ stored <= exec.lastApplied /\ exec.lastEnqueued <= sent
      /\ exec.cmd.seq \in Nat /\ sent \in Nat /\ exec.lastEnqueued \in Nat /\ exec.lastApplied \in Nat
      /\ Numbered(exec, stored)
  BY <1>1, Executing
<1>3. exec.cmd.seq <= exec.lastApplied /\ exec.lastApplied <= exec.lastEnqueued
  BY <1>1, <1>2 DEF Numbered
<1>4. stored' \in 0 .. sent /\ stored' <= exec.lastApplied
  BY <1>1, <1>2, <1>3
<1>5. exec' = Answers(exec, exec.lastApplied)
  BY DEF ExecPersists, Answer, Answers
<1>6. QED
  BY <1>1, <1>4, <1>5, AnswerKeeps

\* A command that succeeds is the newest of its socket, and all that still waits is newer.
LEMMA ExecSucceedsKeeps ==
    ASSUME InputInv, ExecSucceeds, UNCHANGED <<browserVars, stray, down, hub, starting, faults>>
    PROVE  InputInv'
<1> USE InputBoundsAssumption
<1> DEFINE x == exec.cmd
           c == exec.chain
<1>1. /\ UNCHANGED <<owner, stored, browser, up, sent, conn, stray, down, hub, starting, faults>>
      /\ exec.pc = "call" /\ newest' = [newest EXCEPT ![x.conn] = x.id]
      /\ late' = IF owner = "active" THEN late ELSE late + 1
      /\ exec' = Applies(exec, Consumed(x.seq))
  BY DEF ExecSucceeds, browserVars, Applies
<1>2. /\ Numbered(exec, stored) /\ exec.lastEnqueued <= sent /\ exec \in ExecRecord
      /\ exec.lastEnqueued \in Nat /\ exec.lastApplied \in Nat /\ sent \in Nat
      /\ x \in Command /\ x.seq \in Nat /\ exec.state # "none"
      /\ stored \in 0 .. sent /\ stored <= exec.lastApplied
      /\ InOrder(exec, up, stray, newest, sent, conn)
  BY <1>1, Executing
<1>3. Types /\ Apart /\ Lateness
  BY DEF InputInv, Order
<1>4. /\ newest \in [Conns -> Nat] /\ \A k \in Conns : newest[k] <= sent
      /\ up \in Seq(Command) /\ stray \in Seq(Command) /\ c \in Seq(Command)
  BY <1>2, <1>3 DEF Types, ExecRecord
<1>5. exec.lastApplied < x.seq /\ x.seq <= exec.lastEnqueued /\ Consumed(x.seq) = x.seq
  BY <1>1, <1>2 DEF Numbered, Consumed
<1>6. exec' = Exec(exec.state, exec.lastEnqueued, x.seq, c, "persist", x)
  BY <1>1, <1>2, <1>5, ExecUpdates
<1>7. /\ exec'.state = exec.state /\ exec'.lastEnqueued = exec.lastEnqueued
      /\ exec'.lastApplied = x.seq /\ exec'.chain = c
      /\ exec'.pc = "persist" /\ exec'.cmd = x /\ exec' \in ExecRecord
  BY <1>2, <1>6 DEF Exec, ExecRecord
<1>8. Numbers'
  <2>1. \A i \in DOMAIN c : x.seq < c[i].seq
    BY <1>1, <1>2 DEF Numbered
  <2>2. stored <= x.seq
    BY <1>2, <1>5
  <2>3. QED
    BY <1>1, <1>2, <1>5, <1>7, <2>1, <2>2 DEF Numbers, Numbered
<1>9. Fresh(x, newest, sent, conn) /\ First(x, c) /\ First(x, up) /\ First(x, stray)
  BY <1>1, <1>2 DEF InOrder
<1>10. x.conn \in Conns /\ x.id \in Nat /\ x.id <= sent
  BY <1>2, <1>9, CommandNumbers DEF Fresh
<1>11. Types'
  <2>1. newest' \in [Conns -> Nat] /\ \A k \in Conns : newest'[k] <= sent
    BY <1>1, <1>4, <1>10
  <2>2. Announced(down)'
    BY <1>1, <1>3 DEF Types, Announced
  <2>3. late' \in Nat
    BY <1>1, <1>3 DEF Types
  <2>4. QED
    BY <1>1, <1>3, <2>1, <2>2, <2>3 DEF Types
<1>12. \A y \in Command : Fresh(y, newest, sent, conn) /\ Before(x, y) => Fresh(y, newest', sent, conn)
  <2>1. SUFFICES ASSUME NEW y \in Command, Fresh(y, newest, sent, conn), Before(x, y)
                 PROVE  newest'[y.conn] < y.id
    BY DEF Fresh
  <2>2. y.conn \in Conns
    BY CommandNumbers
  <2>3. newest[y.conn] < y.id
    BY <2>1 DEF Fresh
  <2>4. CASE y.conn = x.conn
    BY <1>1, <1>4, <1>10, <2>1, <2>4 DEF Before
  <2>5. CASE y.conn # x.conn
    BY <1>1, <1>4, <1>10, <2>2, <2>3, <2>5
  <2>6. QED
    BY <2>4, <2>5
<1>13. \A q \in Seq(Command) : AllFresh(q, newest, sent, conn) /\ First(x, q) => AllFresh(q, newest', sent, conn)
  <2>1. SUFFICES ASSUME NEW q \in Seq(Command), AllFresh(q, newest, sent, conn), First(x, q), NEW i \in DOMAIN q
                 PROVE  Fresh(q[i], newest', sent, conn)
    BY DEF AllFresh
  <2>2. q[i] \in Command
    BY Appended
  <2>3. QED
    BY <1>12, <2>1, <2>2 DEF AllFresh, First
<1>14. InOrder(exec', up, stray, newest', sent, conn)
  <2>1. /\ AllFresh(up, newest', sent, conn) /\ AllFresh(stray, newest', sent, conn)
        /\ AllFresh(c, newest', sent, conn)
    BY <1>2, <1>4, <1>9, <1>13 DEF InOrder
  <2>2. QED
    BY <1>2, <1>7, <2>1 DEF InOrder
<1>15. Order'
  BY <1>1, <1>3, <1>14 DEF Order, Apart
<1>16. Lateness'
  BY <1>1, <1>3, <1>7 DEF Lateness
<1>17. QED
  BY <1>8, <1>11, <1>15, <1>16 DEF InputInv

-----------------------------------------------------------------------------
(* The session and the process. *)

\* A session that is suspended or ended.
LEMMA OwnerLeavesKeeps ==
    ASSUME InputInv, owner' \in {"away", "over"},
           UNCHANGED <<stored, browserVars, stray, down, hub, starting, exec, faults, history>>
    PROVE  InputInv'
<1>1. /\ UNCHANGED <<stored, browser, up, stray, exec, sent, conn, faults, newest, late, down, hub, starting>>
      /\ hub \in HubRecord /\ hub.seq <= sent + 1 /\ starting \in (0 .. sent) \cup {None}
      /\ down \in Seq(Message) /\ Announced(down)
  BY DEF browserVars, history, InputInv, Types
<1>2. Announced(down')
  BY <1>1 DEF Announced
<1>3. QED
  BY <1>1, <1>2, HubStepKeeps

LEMMA RuntimeStopsKeeps == ASSUME InputInv, RuntimeStops PROVE InputInv'
<1>1. /\ UNCHANGED <<owner, stored, browser, up, stray, sent, conn, hub, starting, faults, newest, late>>
      /\ exec' = Stops(exec) /\ down' = Delivered(Ended) /\ exec.state = "on"
  BY DEF RuntimeStops, browserVars, history, Stops
<1>2. Types /\ Numbers /\ Order /\ Lateness
  BY DEF InputInv
<1>3. Numbered(exec, stored) /\ exec \in ExecRecord
  BY <1>2 DEF Numbers, Numbered
<1>4. exec' = Exec("stopped", exec.lastEnqueued, exec.lastApplied, exec.chain, exec.pc, exec.cmd)
  BY <1>1, <1>3, ExecUpdates
<1>5. /\ exec'.state = "stopped" /\ exec'.lastEnqueued = exec.lastEnqueued
      /\ exec'.lastApplied = exec.lastApplied /\ exec'.chain = exec.chain
      /\ exec'.pc = exec.pc /\ exec'.cmd = exec.cmd /\ exec' \in ExecRecord
  BY <1>3, <1>4 DEF Exec, ExecRecord
<1>6. Numbers' /\ Lateness'
  BY <1>1, <1>2, <1>3, <1>5 DEF Numbers, Numbered, Lateness
<1>7. Types'
  <2>1. down' \in Seq(Message) /\ Announced(down')
    BY <1>1, <1>2, Messages, Delivery
  <2>2. Announced(down)'
    BY <1>1, <2>1 DEF Announced
  <2>3. QED
    BY <1>1, <1>2, <2>1, <2>2 DEF Types
<1>8. InOrder(exec', up, stray, newest, sent, conn)
  BY <1>2, <1>5 DEF Order, InOrder
<1>9. Order'
  BY <1>1, <1>2, <1>8 DEF Order, Apart
<1>10. QED
  BY <1>6, <1>7, <1>9 DEF InputInv

LEMMA RestartedKeeps == ASSUME InputInv, Restarted PROVE InputInv'
<1> USE InputBoundsAssumption
<1>1. /\ UNCHANGED <<stored, sent, conn, newest, late>>
      /\ owner' = (IF owner = "active" THEN "away" ELSE owner) /\ starting' = None
      /\ faults < MaxFaults /\ faults' = faults + 1
      /\ exec' = NoExecutor /\ up' = <<>> /\ stray' = <<>> /\ down' = <<>>
      /\ hub' = Hub(FALSE, FALSE, 0, "no")
  BY DEF Restarted, history, Hub
<1>2. Types /\ Numbers /\ Order /\ Lateness
  BY DEF InputInv
<1>3. browser' \in BrowserRecord /\ ~browser'.open /\ browser'.nextSeq = browser.nextSeq
  <2>1. browser' = Opens(browser, FALSE)
    BY DEF Restarted, Opens
  <2>2. browser \in BrowserRecord
    BY <1>2 DEF Types
  <2>3. browser' = Browser(FALSE, browser.active, browser.nextSeq)
    BY <2>1, <2>2, BrowserUpdates
  <2>4. browser.active \in BOOLEAN /\ browser.nextSeq \in Nat \ {0}
    BY <2>2 DEF BrowserRecord
  <2>5. QED
    BY <2>3, <2>4, BrowserFields
<1>4. hub' \in HubRecord /\ ~hub'.old /\ hub'.seq = 0
  BY <1>1 DEF Hub, HubRecord
<1>5. /\ exec'.state = "none" /\ exec'.lastEnqueued = 0 /\ exec'.lastApplied = 0
      /\ exec'.chain = <<>> /\ exec'.pc = "idle" /\ exec'.cmd = None /\ exec' \in ExecRecord
  BY <1>1 DEF NoExecutor, ExecRecord
<1>6. Types'
  <2>1. conn \in Nat \ {0} /\ conn <= faults + 1 /\ faults \in 0 .. MaxFaults /\ sent \in Nat
    BY <1>2 DEF Types
  <2>2. conn' <= faults' + 0 /\ faults' \in 0 .. MaxFaults
    BY <1>1, <2>1
  <2>3. Announced(down)' /\ down' \in Seq(Message) /\ up' \in Seq(Command) /\ stray' \in Seq(Command)
    BY <1>1 DEF Announced
  <2>4. hub'.seq <= sent' + 1
    <3>1. 0 <= sent + 1
      BY <2>1
    <3>2. hub'.seq <= sent + 1
      BY <1>4, <3>1
    <3>3. QED
      BY <1>1, <3>2
  <2>5. QED
    BY <1>1, <1>2, <1>3, <1>4, <2>2, <2>3, <2>4 DEF Types
<1>7. Numbers'
  <2>1. sent' \in Nat
    BY <1>1, <1>2 DEF Types
  <2>2. QED
    BY <1>5, <2>1 DEF Numbers, Numbered
<1>8. Lateness'
  BY <1>1, <1>2, <1>5 DEF Lateness
<1>9. Order'
  <2>1. InOrder(exec', <<>>, <<>>, newest, sent, conn)
    BY <1>5, EmptyKeeps DEF InOrder
  <2>2. QED
    BY <1>1, <1>3, <1>4, <2>1 DEF Order, Apart
<1>10. QED
  BY <1>6, <1>7, <1>8, <1>9 DEF InputInv

-----------------------------------------------------------------------------
(* The theorems. *)

LEMMA InputInvNext == InputInv /\ [InputNext]_inputVars => InputInv'
<1> SUFFICES ASSUME InputInv, [InputNext]_inputVars PROVE InputInv'
  OBVIOUS
<1>1. CASE Send \/ Receive \/ Drop \/ Connect
  BY <1>1, SendKeeps, ReceiveKeeps, DropKeeps, ConnectKeeps
<1>2. CASE SocketClosed \/ Disconnected \/ Reconnected \/ StreamStarted \/ StateRead \/ Hello
  BY <1>2, SocketClosedKeeps, DisconnectedKeeps, ReconnectedKeeps, StreamStartedKeeps,
     StateReadKeeps, HelloKeeps
<1>3. CASE Arrives \/ RuntimeStops \/ Restarted
  BY <1>3, ArrivesKeeps, RuntimeStopsKeeps, RestartedKeeps
<1>4. CASE ExecNext
  BY <1>4, ExecStartsKeeps, ExecGateKeeps, ExecFailsKeeps, ExecSucceedsKeeps, ExecPersistsKeeps
     DEF ExecNext
<1>5. CASE Suspended \/ Terminated
  BY <1>5, OwnerLeavesKeeps DEF Suspended, Terminated
<1>6. CASE UNCHANGED inputVars
  BY <1>6 DEF inputVars, history, InputInv, Types, Announced, Numbers, Order, Apart, Lateness
<1>7. QED
  BY <1>1, <1>2, <1>3, <1>4, <1>5, <1>6 DEF InputNext

THEOREM InputInvariant == InputSpec => []InputInv
BY InputInvInit, InputInvNext, PTL DEF InputSpec

\* Every variable has its type, and the numbers of Redis, of what was executed and of
\* what was admitted stay in order (executor.ts, lastAppliedSeq and lastEnqueuedSeq).
THEOREM InputTypeCorrect == InputSpec => []InputTypeOK
<1>1. InputInv => InputTypeOK
  <2> SUFFICES ASSUME InputInv PROVE InputTypeOK
    OBVIOUS
  <2> USE InputBoundsAssumption
  <2>1. Types /\ Numbers
    BY DEF InputInv
  <2>2. sent \in 0 .. MaxSends /\ stored \in Seqs /\ starting \in Seqs \cup {None}
    BY <2>1 DEF Types, Seqs
  <2>3. browser \in [open : BOOLEAN, active : BOOLEAN, nextSeq : 1 .. MaxSends + 1]
    BY <2>1, <2>2 DEF Types, BrowserRecord
  <2>4. hub \in [old : BOOLEAN, marking : BOOLEAN, seq : 0 .. MaxSends + 1,
                 greet : {"no", "reconnect", "starting", "connected", "read"}]
    BY <2>1, <2>2 DEF Types, HubRecord
  <2>5. \A queue \in {up, stray} : \A i \in DOMAIN queue : queue[i] \in Command
    BY <2>1, Appended DEF Types
  <2>6. QED
    BY <2>1, <2>2, <2>3, <2>4, <2>5 DEF Types, Numbers, Numbered, ExecRecord, InputTypeOK
<1>2. QED
  BY <1>1, InputInvariant, PTL

\* After a suspension or an end the device executes at most the one command that had
\* already passed the ownership check (executor.ts, execute).
THEOREM LateAtMostOnce == InputSpec => []AtMostOneLate
<1>1. InputInv => AtMostOneLate
  BY DEF InputInv, Lateness, AtMostOneLate
<1>2. QED
  BY <1>1, InputInvariant, PTL

\* What Redis has recorded as accepted is not executed again, by whatever executor
\* (executor.ts, submit and execute; core.ts, activateRuntime).
THEOREM RecordedNotReplayed == InputSpec => NoReplay
<1>1. InputInv /\ [InputNext]_inputVars => [newest' # newest => exec.cmd.seq > stored]_inputVars
  <2> SUFFICES ASSUME InputInv, InputNext, newest' # newest PROVE exec.cmd.seq > stored
    BY DEF inputVars
  <2>1. ExecSucceeds
    BY DEF InputNext, Send, Receive, Drop, Connect, SocketClosed, Disconnected, Reconnected,
           StreamStarted, StateRead, Hello, Arrives, ExecNext, ExecStarts, ExecGate, ExecFails,
           ExecPersists, Suspended, Terminated, RuntimeStops, Restarted, history
  <2>2. exec.pc = "call"
    BY <2>1 DEF ExecSucceeds
  <2>3. /\ Numbered(exec, stored) /\ exec.cmd.seq \in Nat /\ exec.lastApplied \in Nat
        /\ sent \in Nat /\ stored \in 0 .. sent /\ stored <= exec.lastApplied
    BY <2>2, Executing
  <2>4. exec.lastApplied < exec.cmd.seq
    BY <2>2, <2>3 DEF Numbered
  <2>5. QED
    BY <2>3, <2>4
<1>2. QED
  BY <1>1, InputInvariant, PTL DEF InputSpec, NoReplay

\* The device executes the commands of a socket in the order in which they were sent
\* (DESIGN.md, "ADB execution order equals send order").
THEOREM SendOrderKept == InputSpec => InSendOrder
<1>1. InputInv /\ [InputNext]_inputVars => [\A c \in Conns : newest'[c] >= newest[c]]_inputVars
  <2> SUFFICES ASSUME InputInv, InputNext, NEW c \in Conns PROVE newest'[c] >= newest[c]
    BY DEF inputVars
  <2>1. newest \in [Conns -> Nat]
    BY DEF InputInv, Types
  <2>2. newest' = newest \/ ExecSucceeds
    BY DEF InputNext, Send, Receive, Drop, Connect, SocketClosed, Disconnected, Reconnected,
           StreamStarted, StateRead, Hello, Arrives, ExecNext, ExecStarts, ExecGate, ExecFails,
           ExecPersists, Suspended, Terminated, RuntimeStops, Restarted, history
  <2>3. CASE newest' = newest
    BY <2>1, <2>3
  <2>4. CASE ExecSucceeds
    <3>1. exec.pc = "call" /\ newest' = [newest EXCEPT ![exec.cmd.conn] = exec.cmd.id]
      BY <2>4 DEF ExecSucceeds
    <3>2. exec.cmd \in Command /\ InOrder(exec, up, stray, newest, sent, conn)
      BY <3>1, Executing
    <3>3. newest[exec.cmd.conn] < exec.cmd.id
      BY <3>1, <3>2 DEF InOrder, Fresh
    <3>4. exec.cmd.id \in Nat /\ exec.cmd.conn \in Conns
      BY <3>2, CommandNumbers
    <3>5. QED
      BY <2>1, <3>1, <3>3, <3>4
  <2>5. QED
    BY <2>2, <2>3, <2>4
<1>2. QED
  BY <1>1, InputInvariant, PTL DEF InputSpec, InSendOrder
=============================================================================
