---------------------------- MODULE InputChannel ----------------------------
(***************************************************************************)
(* The input of one session on its way from the browser to the device:     *)
(* LabConnection numbers the commands (web/src/lib/connection.ts), the hub *)
(* passes them on in the order of a socket, and the session's              *)
(* InputExecutor (server/src/input/executor.ts) admits the next number,    *)
(* checks the ownership in Redis and calls the adapter, one command at a   *)
(* time.  Sockets break and are opened again, the server may still read    *)
(* from a socket the browser has given up, the process may be killed, and  *)
(* the session may be suspended or ended at any moment.                    *)
(*                                                                         *)
(* Every command of a session carries its own fence, so fences, which tell *)
(* sessions apart, do not occur here; nor do answers the browser does not  *)
(* act upon.                                                               *)
(***************************************************************************)
EXTENDS Integers, Sequences, SequencesExt

CONSTANTS
    None,
    MaxPending,    \* config.inputMaxPending
    MaxSends,      \* bounds: commands the tester sends
    MaxFaults      \* and times a socket breaks or the process is killed

ASSUME InputBoundsAssumption ==
    /\ MaxPending \in Nat \ {0}
    /\ MaxSends \in Nat /\ MaxFaults \in Nat

VARIABLES
    owner,     \* the session in Redis: "active", "away" (DISCONNECTED) or "over"
    stored,    \* its lastAcceptedInputSeq
    browser,   \* LabConnection: socket open, session active, nextSeq
    up,        \* commands on the browser's socket
    stray,     \* commands on a socket the browser has given up
    down,      \* messages to the browser that it acts upon
    hub,       \* what the hub has still to do about the sockets
    starting,  \* the lastAcceptedInputSeq to announce once the stream runs
    exec,      \* the runtime's InputExecutor
    sent,      \* number of commands sent; a command's id is its place in that order
    conn,      \* number of sockets opened so far
    faults,    \* number of faults so far
    newest,    \* history: of each socket, the newest command the device executed
    late       \* history: commands executed since the session was last active

browserVars == <<browser, up, sent, conn>>
history == <<newest, late>>
inputVars == <<owner, stored, browser, up, stray, down, hub, starting, exec,
               sent, conn, faults, newest, late>>

-----------------------------------------------------------------------------

Ids == 1 .. MaxSends
Seqs == 0 .. MaxSends
Conns == 1 .. MaxFaults + 1
Command == [id : Ids, seq : Seqs, conn : Conns]

ASSUME InputNoneAssumption == None \notin Nat \cup Command

NoExecutor == [state |-> "none", lastEnqueued |-> 0, lastApplied |-> 0,
               chain |-> <<>>, pc |-> "idle", cmd |-> None]

\* Mutated form of NewExecutor: lastApplied starts at zero.
NewExecutorUnapplied(seq) == [NoExecutor EXCEPT !.state = "on", !.lastEnqueued = seq]

NewExecutor(seq) == [NoExecutor EXCEPT !.state = "on", !.lastEnqueued = seq, !.lastApplied = seq]

\* A session that has just been claimed: its runtime exists, its stream starts.
InputInit ==
    /\ owner = "active"
    /\ stored = 0
    /\ browser = [open |-> TRUE, active |-> FALSE, nextSeq |-> 1]
    /\ up = <<>> /\ stray = <<>> /\ down = <<>>
    /\ hub = [old |-> FALSE, marking |-> FALSE, greet |-> "no", seq |-> 0]
    /\ starting = 0
    /\ exec = NewExecutor(0)
    /\ sent = 0 /\ conn = 1 /\ faults = 0
    /\ newest = [c \in Conns |-> 0] /\ late = 0

\* What handleMessage and applySnapshot make of session.active and of hello,
\* of a session that is gone, and of a rejection with an expectedSeq.
Resume(seq) == [type |-> "resume", seq |-> seq + 1]
Ended == [type |-> "ended", seq |-> 0]
Expect(seq) == [type |-> "expect", seq |-> seq]

\* transport.send: to the sockets that are still open.
Delivered(msg) == IF browser.open THEN Append(down, msg) ELSE down

-----------------------------------------------------------------------------
(* The browser. *)

\* sendInput.  On a closed socket the number is used up and the command is lost.
Send ==
    /\ browser.active
    /\ sent < MaxSends
    /\ sent' = sent + 1
    /\ browser' = [browser EXCEPT !.nextSeq = @ + 1]
    /\ IF browser.open
         THEN up' = Append(up, [id |-> sent + 1, seq |-> browser.nextSeq, conn |-> conn])
         ELSE UNCHANGED up
    /\ UNCHANGED <<owner, stored, stray, down, hub, starting, exec, conn, faults, history>>

\* handleMessage.
Receive ==
    /\ down # <<>>
    /\ LET msg == Head(down) IN
       browser' = [browser EXCEPT
                     !.active = IF msg.type = "expect" THEN @ ELSE msg.type = "resume",
                     !.nextSeq = IF msg.type = "ended" THEN @ ELSE msg.seq]
    /\ down' = Tail(down)
    /\ UNCHANGED <<owner, stored, up, stray, hub, starting, exec, sent, conn, faults, history>>

\* ws.onclose in the browser.  The server reads on until it notices.
Drop ==
    /\ browser.open
    /\ faults < MaxFaults
    /\ faults' = faults + 1
    /\ ~hub.old
    /\ browser' = [browser EXCEPT !.open = FALSE]
    /\ stray' = up
    /\ up' = <<>> /\ down' = <<>>
    /\ hub' = [hub EXCEPT !.old = TRUE, !.greet = IF @ = "reconnect" THEN @ ELSE "no"]
    /\ UNCHANGED <<owner, stored, starting, exec, sent, conn, history>>

\* connect() and the hub's register(), up to its first await.
Connect ==
    /\ ~browser.open
    /\ hub.greet = "no"
    /\ browser' = [browser EXCEPT !.open = TRUE]
    /\ conn' = conn + 1
    /\ hub' = [hub EXCEPT !.greet = "reconnect"]
    /\ UNCHANGED <<owner, stored, up, stray, down, starting, exec, sent, faults, history>>

-----------------------------------------------------------------------------
(* The hub. *)

\* onClose of the old socket: what was not read is gone; the last socket of a
\* client is a disconnect.
SocketClosed ==
    /\ hub.old
    /\ hub' = [hub EXCEPT !.old = FALSE, !.marking = ~browser.open]
    /\ stray' = <<>>
    /\ UNCHANGED <<owner, stored, browserVars, down, starting, exec, faults, history>>

\* clientDisconnected, one round trip after the close.  A socket that is opened
\* after the close asks Redis later than this, and gets its answers later.
Disconnected ==
    /\ hub.marking
    /\ hub' = [hub EXCEPT !.marking = FALSE]
    /\ owner' = IF owner = "active" THEN "away" ELSE owner
    /\ UNCHANGED <<stored, browserVars, stray, down, starting, exec, faults, history>>

\* Mutated form of FirstSeq: a new executor counts from the beginning.
FirstSeqZero == 0

\* The number a new executor starts from.
FirstSeq == stored

\* clientConnected: the reconnect script succeeds within the grace period, and
\* activateRuntime announces the running executor's number or starts a new one.
Reconnected ==
    /\ hub.greet = "reconnect" /\ ~hub.marking
    /\ IF owner = "away"
         THEN \/ /\ owner' = "active" /\ late' = 0
                 /\ IF exec.state = "on"
                      THEN /\ down' = Delivered(Resume(exec.lastApplied))
                           /\ hub' = [hub EXCEPT !.greet = "connected"]
                           /\ UNCHANGED <<exec, starting>>
                      ELSE /\ exec' = NewExecutor(FirstSeq)
                           /\ starting' = FirstSeq
                           /\ hub' = [hub EXCEPT !.greet = "starting"]
                           /\ UNCHANGED down
              \/ /\ hub' = [hub EXCEPT !.greet = "connected"]
                 /\ UNCHANGED <<owner, down, exec, starting, late>>
         ELSE /\ hub' = [hub EXCEPT !.greet = "connected"]
              /\ UNCHANGED <<owner, down, exec, starting, late>>
    /\ UNCHANGED <<stored, browserVars, stray, faults, newest>>

\* startStream returned: session.active, with the number read before it started.
StreamStarted ==
    /\ starting # None
    /\ down' = Delivered(Resume(starting))
    /\ starting' = None
    /\ hub' = [hub EXCEPT !.greet = IF @ = "starting" THEN "connected" ELSE @]
    /\ UNCHANGED <<owner, stored, browserVars, stray, exec, faults, history>>

\* getStateByClientId reads Redis; register() then awaits the pool status.
StateRead ==
    /\ hub.greet = "connected"
    /\ hub' = [hub EXCEPT !.greet = "read", !.seq = IF owner = "over" THEN 0 ELSE stored + 1]
    /\ UNCHANGED <<owner, stored, browserVars, stray, down, starting, exec, faults, history>>

Hello ==
    /\ hub.greet = "read"
    /\ hub' = [hub EXCEPT !.greet = "no", !.seq = 0]
    /\ down' = Delivered(IF hub.seq = 0 THEN Ended ELSE Resume(hub.seq - 1))
    /\ UNCHANGED <<owner, stored, browserVars, stray, starting, exec, faults, history>>

-----------------------------------------------------------------------------
(* The executor. *)

\* submit: without an effect on a stopped executor, for a number that was used,
\* and while too many commands wait; refused with the expected number on a gap.
Submit(cmd) ==
    LET admits == exec.state = "on" /\ cmd.seq = exec.lastEnqueued + 1 /\ Len(exec.chain) < MaxPending
        gap == exec.state = "on" /\ cmd.seq > exec.lastEnqueued + 1 IN
    /\ exec' = IF admits THEN [exec EXCEPT !.lastEnqueued = cmd.seq, !.chain = Append(@, cmd)] ELSE exec
    /\ down' = IF gap THEN Delivered(Expect(exec.lastEnqueued + 1)) ELSE down

\* A message arrives on the socket in use, or on the one given up.
Arrives ==
    /\ \/ up # <<>> /\ Submit(Head(up)) /\ up' = Tail(up) /\ UNCHANGED stray
       \/ stray # <<>> /\ Submit(Head(stray)) /\ stray' = Tail(stray) /\ UNCHANGED up
    /\ UNCHANGED <<owner, stored, browser, hub, starting, sent, conn, faults, history>>

\* Mutated form of MayStart: the commands are not chained.
MayStartAny(i) == i \in DOMAIN exec.chain

\* The promise chain runs one command at a time, the oldest first.
MayStart(i) == i = 1 /\ exec.chain # <<>>

Consumed(seq) == IF seq > exec.lastApplied THEN seq ELSE exec.lastApplied

\* The command under execution is answered.
Answer(lastApplied) == exec' = [exec EXCEPT !.pc = "idle", !.cmd = None, !.lastApplied = lastApplied]

\* execute() begins: it is refused after stop(), and consumed but refused when
\* its text is too long.
ExecStarts ==
    /\ exec.pc = "idle"
    /\ \E i \in DOMAIN exec.chain :
         /\ MayStart(i)
         /\ LET cmd == exec.chain[i]
                taken == [exec EXCEPT !.chain = RemoveAt(@, i)] IN
            IF exec.state = "stopped"
              THEN exec' = taken
              ELSE exec' \in {[taken EXCEPT !.lastApplied = Consumed(cmd.seq)],
                              [taken EXCEPT !.pc = "gate", !.cmd = cmd]}
    /\ UNCHANGED <<owner, stored, history>>

\* Mutated form of Authorized: trusts the runtime instead of reading Redis.
AuthorizedByRuntime == exec.state = "on"

Authorized == owner = "active"

\* The ownership check: its answer leads to the adapter or to a refusal, and so
\* does an error of Redis.
ExecGate ==
    /\ exec.pc = "gate"
    /\ \/ Authorized /\ exec' = [exec EXCEPT !.pc = "call"]
       \/ Answer(exec.lastApplied)
    /\ UNCHANGED <<owner, stored, history>>

\* Mutated form of ExecFails: the error leaves execute() and breaks the chain.
ExecFailsThrown ==
    /\ exec.pc = "call"
    /\ exec' = [exec EXCEPT !.pc = "broken"]
    /\ UNCHANGED <<owner, stored, history>>

\* The adapter answers.  A command that failed has used up its number, too, in
\* the executor but not in Redis.
ExecFails ==
    /\ exec.pc = "call"
    /\ Answer(Consumed(exec.cmd.seq))
    /\ UNCHANGED <<owner, stored, history>>

ExecSucceeds ==
    /\ exec.pc = "call"
    /\ exec' = [exec EXCEPT !.pc = "persist", !.lastApplied = Consumed(exec.cmd.seq)]
    /\ newest' = [newest EXCEPT ![exec.cmd.conn] = exec.cmd.id]
    /\ late' = IF owner = "active" THEN late ELSE late + 1
    /\ UNCHANGED <<owner, stored>>

\* updateSessionInputSeq, whose errors are swallowed, and which Redis ignores when
\* the session has become EXPIRED or ENDED.
ExecPersists ==
    /\ exec.pc = "persist"
    /\ stored' \in {stored, IF exec.cmd.seq > stored THEN exec.cmd.seq ELSE stored}
    /\ Answer(exec.lastApplied)
    /\ UNCHANGED <<owner, history>>

ExecNext ==
    /\ ExecStarts \/ ExecGate \/ ExecFails \/ ExecSucceeds \/ ExecPersists
    /\ UNCHANGED <<browserVars, stray, down, hub, starting, faults>>

-----------------------------------------------------------------------------
(* The session and the process. *)

\* The reaper takes a tester without heartbeats for gone.
Suspended ==
    /\ owner = "active"
    /\ owner' = "away"
    /\ UNCHANGED <<stored, browserVars, stray, down, hub, starting, exec, faults, history>>

\* beginTermination, whoever asks for it.
Terminated ==
    /\ owner # "over"
    /\ owner' = "over"
    /\ UNCHANGED <<stored, browserVars, stray, down, hub, starting, exec, faults, history>>

\* stopRuntime: a later command finds no runtime; the chain runs empty.
RuntimeStops ==
    /\ owner = "over" /\ exec.state = "on"
    /\ exec' = [exec EXCEPT !.state = "stopped"]
    /\ down' = Delivered(Ended)
    /\ UNCHANGED <<owner, stored, browserVars, stray, hub, starting, faults, history>>

\* kill -9 and a restart; bootstrap makes an ACTIVE session DISCONNECTED.
Restarted ==
    /\ faults < MaxFaults
    /\ faults' = faults + 1
    /\ owner' = IF owner = "active" THEN "away" ELSE owner
    /\ exec' = NoExecutor
    /\ starting' = None
    /\ browser' = [browser EXCEPT !.open = FALSE]
    /\ up' = <<>> /\ stray' = <<>> /\ down' = <<>>
    /\ hub' = [old |-> FALSE, marking |-> FALSE, greet |-> "no", seq |-> 0]
    /\ UNCHANGED <<stored, sent, conn, history>>

InputNext ==
    \/ Send \/ Receive \/ Drop \/ Connect
    \/ SocketClosed \/ Disconnected \/ Reconnected \/ StreamStarted \/ StateRead \/ Hello
    \/ Arrives \/ ExecNext
    \/ Suspended \/ Terminated \/ RuntimeStops \/ Restarted

InputSpec == InputInit /\ [][InputNext]_inputVars

\* The executor's promises settle: Redis answers, and an adapter call ends, by
\* its timeout if need be.
FairInputSpec == InputSpec /\ WF_inputVars(ExecNext)

-----------------------------------------------------------------------------
(* Properties. *)

\* Every variable has its type, and the executor's two numbers stay in order:
\* Redis never runs ahead of what was executed, nor that of what was admitted.
InputTypeOK ==
    /\ owner \in {"active", "away", "over"}
    /\ stored \in Seqs
    /\ browser \in [open : BOOLEAN, active : BOOLEAN, nextSeq : 1 .. MaxSends + 1]
    /\ \A queue \in {up, stray} : \A i \in DOMAIN queue : queue[i] \in Command
    /\ hub \in [old : BOOLEAN, marking : BOOLEAN, seq : 0 .. MaxSends + 1,
               greet : {"no", "reconnect", "starting", "connected", "read"}]
    /\ starting \in Seqs \cup {None}
    /\ exec.state # "none" => stored <= exec.lastApplied /\ exec.lastApplied <= exec.lastEnqueued
    /\ Len(exec.chain) <= MaxPending
    /\ exec.cmd \in Command \cup {None} /\ (exec.pc = "idle" <=> exec.cmd = None)

\* The device executes the commands of a socket in the order in which the tester
\* gave them, whatever is refused, fails or is lost in between (DESIGN.md, "ADB
\* execution order equals send order").
InSendOrder == [][\A c \in Conns : newest'[c] >= newest[c]]_inputVars

\* A number Redis has recorded as accepted is not executed again, also by the
\* executor of a process that was restarted.
NoReplay == [][newest' # newest => exec.cmd.seq > stored]_inputVars

\* After its session was suspended or ended, the device executes at most one more
\* command, the one already past the ownership check; no queue is worked off.
AtMostOneLate == late <= 1

\* Every admitted command is answered, or lost with the process: whatever fails,
\* the chain goes on until no command is left.
Busy == exec.chain # <<>> \/ exec.pc # "idle"
EveryCommandAnswered == Busy ~> ~Busy

\* The snapshot of a browser that reconnects, taken while no command is under way,
\* continues where the executor stands (DESIGN.md, "Failed or oversized commands
\* still consume their sequence slot so client and server never desync").
ResumesInStep ==
    hub.greet = "connected" /\ exec.state = "on" /\ ~Busy /\ up = <<>> /\ stray = <<>>
    => stored = exec.lastEnqueued
=============================================================================
