---------------------------- MODULE AuditBridge ----------------------------
(***************************************************************************)
(* The audit bridge of an audit build: the extension's service worker      *)
(* (apps/extension/src/audit/audit-bridge.ts) and the command line tool    *)
(* that drives it (scripts/audit-agent.mjs), over a local WebSocket.       *)
(*                                                                         *)
(* The tool listens and the extension connects, again two seconds after a  *)
(* connection closed; both prove that they know the secret, then the tool  *)
(* sends numbered commands, one at a time, and the extension numbers what  *)
(* it sends back.  A command runs across awaits and is not stopped when    *)
(* its connection closes: its answer goes to whatever socket is open when  *)
(* it ends.  A chat captures the state object of its conversation when it  *)
(* starts, so that objects are numbered here, by the request that made     *)
(* them.                                                                   *)
(*                                                                         *)
(* Secrets, nonces and the scrubbing of what is sent are left out: both    *)
(* sides know the secret.  An HMAC takes less than the two seconds of the  *)
(* reconnect timer, and a socket delivers nothing after close().           *)
(***************************************************************************)
EXTENDS Naturals, Sequences

CONSTANTS
    AuditConvs,     \* conversation ids the tool uses
    SourceRefs,     \* source references, one for each ScombZ tab
    MaxCommands,    \* bound on the commands sent (model checking only)
    MaxConnections, \* bound on the connections made (model checking only)
    MaxSent         \* bound on the progress and keepalive frames (model checking only)

ASSUME AuditAssumption == MaxCommands \in Nat

VARIABLES
    bridge, \* the closure of startAuditBridge
    link,   \* the two ends of the current connection and the frames between them
    cli,    \* the tool's process and its connection
    proofs, \* the HMACs the extension is waiting for
    job,    \* the local variables of each command's handler
    convs,  \* the map conversations: the number of the state object, 0 when there is none
    state,  \* the state objects: their source and the requests in their history
    refs,   \* the sources that list_sources returns now
    made    \* how many connections and commands there have been, and frames of the bounded kinds

auditVars == <<bridge, link, cli, proofs, job, convs, state, refs, made>>

Requests == 1..MaxCommands
NoLink == [ext |-> FALSE, cli |-> FALSE, toExt |-> <<>>, toCli |-> <<>>]
NoJob == [type |-> "none", pc |-> "rest", conv |-> "none", source |-> "none", object |-> 0]

AuditInit ==
    /\ bridge = [phase |-> "idle", connected |-> FALSE, in |-> 0, out |-> 0, keepalive |-> FALSE, leaked |-> FALSE]
    /\ link = NoLink
    /\ cli = [phase |-> "none", in |-> 0, out |-> 0, asked |-> 0]
    /\ proofs = {}
    /\ job = [r \in Requests |-> NoJob]
    /\ convs = [c \in AuditConvs |-> 0]
    /\ state = [r \in Requests |-> [source |-> "none", turns |-> <<>>]]
    /\ refs \in SUBSET SourceRefs
    /\ made = [connections |-> 0, commands |-> 0, frames |-> 0]

-----------------------------------------------------------------------------
(* The wire.  A frame to an end that has closed is lost.                    *)

Frame(type, number, request) == [type |-> type, number |-> number, request |-> request]

\* send in the extension: only while its socket is open; ToCli numbers the frame first.
Sent(f) == IF bridge.phase = "open" /\ link.cli THEN [link EXCEPT !.toCli = Append(@, f)] ELSE link
ToCli(type, request) ==
    /\ link' = Sent(Frame(type, bridge.out + 1, request))
    /\ bridge' = [bridge EXCEPT !.out = @ + 1]

\* send in the tool.
ToExt(l, f) == IF l.ext THEN [l EXCEPT !.toExt = Append(@, f)] ELSE l

\* closeSocket: the socket is dropped, its close event comes later.
Hangup ==
    /\ bridge' = [bridge EXCEPT !.connected = FALSE, !.keepalive = FALSE,
                                !.phase = IF @ = "open" THEN "closing" ELSE @]
    /\ link' = [link EXCEPT !.ext = FALSE, !.toExt = <<>>]

\* close in the tool: what is pending is rejected, and the process ends.
CliCloses ==
    /\ cli' = [cli EXCEPT !.phase = "none", !.asked = 0]
    /\ link' = [link EXCEPT !.cli = FALSE, !.toCli = <<>>]

-----------------------------------------------------------------------------
(* Connecting.                                                              *)

\* run: the process listens, and waits for a connection; made by the operator.
CliStart ==
    /\ cli.phase = "none"
    /\ ~link.cli
    /\ cli' = [phase |-> "waiting", in |-> 0, out |-> 0, asked |-> 0]
    /\ UNCHANGED <<bridge, link, proofs, job, convs, state, refs, made>>

\* The wait is over, the commands are done, or the operator stops the process.
CliStop ==
    /\ cli.phase # "none"
    /\ CliCloses
    /\ UNCHANGED <<bridge, proofs, job, convs, state, refs, made>>

\* connect and onopen, upgrade: numbers start anew, and hello is sent.
Connect ==
    /\ bridge.phase = "idle" /\ proofs = {}
    /\ cli.phase = "waiting"
    /\ made.connections < MaxConnections
    /\ made' = [made EXCEPT !.connections = @ + 1]
    /\ bridge' = [bridge EXCEPT !.phase = "open", !.in = 0, !.out = 0]
    /\ link' = [ext |-> TRUE, cli |-> TRUE, toExt |-> <<>>, toCli |-> <<Frame("hello", 0, 0)>>]
    /\ cli' = [cli EXCEPT !.phase = "hello"]
    /\ UNCHANGED <<proofs, job, convs, state, refs>>

\* onerror of a refused connection: nobody listens; a late "connected" is reset.
Refused ==
    /\ bridge.phase = "idle" /\ proofs = {}
    /\ cli.phase = "none"
    /\ Hangup
    /\ UNCHANGED <<cli, proofs, job, convs, state, refs, made>>

\* onclose: closeSocket, and the reconnect timer.
SocketClosed ==
    /\ bridge.phase # "idle"
    /\ ~link.cli
    /\ bridge.phase = "open" => link.toExt = <<>>
    /\ bridge' = [bridge EXCEPT !.phase = "idle", !.connected = FALSE, !.keepalive = FALSE]
    /\ link' = NoLink
    /\ UNCHANGED <<cli, proofs, job, convs, state, refs, made>>

\* The tool's socket sees that the other end closed.
CliSeesClose ==
    /\ link.cli /\ ~link.ext
    /\ link.toCli = <<>>
    /\ CliCloses
    /\ UNCHANGED <<bridge, proofs, job, convs, state, refs, made>>

-----------------------------------------------------------------------------
(* What the tool does with a frame.                                         *)

\* onFrame: hello and auth in turn, then numbered frames; anything else closes.
CliHandshake ==
    /\ link.toCli # <<>>
    /\ LET f == Head(link.toCli)
           rest == [link EXCEPT !.toCli = Tail(@)] IN
       \/ /\ cli.phase = "hello" /\ f.type = "hello"
          /\ cli' = [cli EXCEPT !.phase = "auth"]
          /\ link' = ToExt(rest, Frame("challenge", 0, 0))
       \/ /\ cli.phase = "auth" /\ f.type = "auth"
          /\ cli' = [cli EXCEPT !.phase = "ready"]
          /\ link' = ToExt(rest, Frame("ready", 0, 0))
       \/ /\ cli.phase \in {"hello", "auth"} /\ f.type # (IF cli.phase = "hello" THEN "hello" ELSE "auth")
          /\ CliCloses
    /\ UNCHANGED <<bridge, proofs, job, convs, state, refs, made>>

\* A response settles the command with its request id; one nobody waits for is dropped.
CliTakes ==
    /\ link.toCli # <<>> /\ cli.phase = "ready"
    /\ LET f == Head(link.toCli) IN
       IF f.type \in {"response", "progress", "keepalive"} /\ f.number > cli.in
       THEN /\ cli' = [cli EXCEPT !.in = f.number,
                                  !.asked = IF f.type = "response" /\ f.request = @ THEN 0 ELSE @]
            /\ link' = [link EXCEPT !.toCli = Tail(@)]
       ELSE CliCloses
    /\ UNCHANGED <<bridge, proofs, job, convs, state, refs, made>>

\* sendCommand, one after the other; the handler's record is filled in here, the frame names it.
Ask(type, c, s) ==
    LET r == made.commands + 1 IN
    /\ cli.phase = "ready" /\ cli.asked = 0
    /\ made.commands < MaxCommands
    /\ made' = [made EXCEPT !.commands = r]
    /\ cli' = [cli EXCEPT !.asked = r, !.out = @ + 1]
    /\ link' = ToExt(link, Frame("command", cli.out + 1, r))
    /\ job' = [job EXCEPT ![r] = [NoJob EXCEPT !.type = type, !.conv = c, !.source = s]]
    /\ UNCHANGED <<bridge, proofs, convs, state, refs>>

-----------------------------------------------------------------------------
(* What the extension does with a frame.                                    *)

\* onMessage, a challenge or ready: the HMAC is computed first.
Prove ==
    /\ link.toExt # <<>> /\ bridge.phase = "open"
    /\ Head(link.toExt).type \in {"challenge", "ready"}
    /\ proofs' = proofs \cup {Head(link.toExt).type}
    /\ link' = [link EXCEPT !.toExt = Tail(@)]
    /\ UNCHANGED <<bridge, cli, job, convs, state, refs, made>>

\* The HMAC is there.  For ready, whatever happened to the socket meanwhile: the connection counts
\* as proved and a keepalive timer starts, the handle of an earlier one is overwritten.
Proved(kind) ==
    /\ kind \in proofs
    /\ proofs' = proofs \ {kind}
    /\ \/ /\ kind = "challenge"
          /\ link' = Sent(Frame("auth", 0, 0))
          /\ UNCHANGED bridge
       \/ /\ kind = "ready"
          /\ bridge' = [bridge EXCEPT !.connected = TRUE, !.keepalive = TRUE, !.leaked = @ \/ bridge.keepalive]
          /\ UNCHANGED link
    /\ UNCHANGED <<cli, job, convs, state, refs, made>>

\* onMessage, a command: refused with the connection when it is early or out of order.
TakeCommand ==
    /\ link.toExt # <<>> /\ bridge.phase = "open"
    /\ LET f == Head(link.toExt)
           r == f.request IN
       /\ f.type = "command"
       /\ \/ /\ ~bridge.connected \/ f.number <= bridge.in
             /\ Hangup
             /\ UNCHANGED <<job, convs>>
          \/ /\ bridge.connected /\ f.number > bridge.in
             /\ bridge' = [bridge EXCEPT !.in = f.number]
             /\ link' = [link EXCEPT !.toExt = Tail(@)]
             /\ job' = [job EXCEPT ![r].pc = IF job[r].type = "chat" THEN "sources" ELSE "answer"]
             \* handleCommand, clear: the state is forgotten before the first await
             /\ convs' = IF job[r].type = "clear" THEN [convs EXCEPT ![job[r].conv] = 0] ELSE convs
    /\ UNCHANGED <<cli, proofs, state, refs, made>>

\* The keepalive timers.
Keepalive ==
    /\ bridge.keepalive \/ bridge.leaked
    /\ made.frames < MaxSent
    /\ made' = [made EXCEPT !.frames = @ + 1]
    /\ ToCli("keepalive", 0)
    /\ UNCHANGED <<cli, proofs, job, convs, state, refs>>

\* preflight, sources, ping, and the end of every command: the answer.
Answer(r) ==
    /\ job[r].pc = "answer"
    /\ job' = [job EXCEPT ![r].pc = "done"]
    /\ ToCli("response", r)
    /\ UNCHANGED <<cli, proofs, convs, state, refs, made>>

-----------------------------------------------------------------------------
(* runChat.                                                                 *)

\* The source a chat is about: the one named, that of the conversation, or the only one.
ChosenSources(r) ==
    LET previous == convs[job[r].conv] IN
    IF job[r].source # "none" THEN {job[r].source} \cap refs
    ELSE IF previous # 0 THEN {state[previous].source} \cap refs
    ELSE {s \in refs : refs = {s}}

\* sources() and the checks on what the conversation has, without an await but for the consent.
\* An idle conversation that has expired is forgotten.
ChatChecks(r) ==
    LET previous == convs[job[r].conv] IN
    /\ job[r].pc = "sources"
    /\ \/ /\ previous # 0
          /\ convs' = [convs EXCEPT ![job[r].conv] = 0]
          /\ job' = [job EXCEPT ![r].pc = "answer"]
       \/ /\ job' = [job EXCEPT ![r].pc = "answer"]
          /\ UNCHANGED convs
       \/ \E s \in ChosenSources(r) :
            /\ previous # 0 => state[previous].source = s
            /\ job' = [job EXCEPT ![r].pc = "bind", ![r].source = s, ![r].object = previous]
            /\ UNCHANGED convs
    /\ UNCHANGED <<bridge, link, cli, proofs, state, refs, made>>

\* bind_source, begin and the transforms: the tab may have gone; the state is the one read above or a new one.
Bind(r) ==
    /\ job[r].pc = "bind"
    /\ \/ /\ job[r].source \notin refs
          /\ job' = [job EXCEPT ![r].pc = "answer"]
          /\ UNCHANGED state
       \/ /\ job[r].source \in refs
          /\ job' = [job EXCEPT ![r].pc = "run", ![r].object = IF @ = 0 THEN r ELSE @]
          /\ state' = IF job[r].object = 0
                      THEN [state EXCEPT ![r] = [source |-> job[r].source, turns |-> <<>>]] ELSE state
    /\ UNCHANGED <<bridge, link, cli, proofs, convs, refs, made>>

\* onEvent of the runner.
Progress(r) ==
    /\ job[r].pc = "run"
    /\ made.frames < MaxSent
    /\ made' = [made EXCEPT !.frames = @ + 1]
    /\ ToCli("progress", r)
    /\ UNCHANGED <<cli, proofs, job, convs, state, refs>>

\* The run is over: the turn is added to the state the chat holds, which becomes the conversation's.
\* fault: the state is looked up again, and made only when there is none.
ChatEndsLookup(r) ==
    LET found == convs[job[r].conv]
        o == IF found = 0 THEN job[r].object ELSE found IN
    /\ job[r].pc = "run"
    /\ state' = [state EXCEPT ![o].turns = Append(@, r)]
    /\ convs' = [convs EXCEPT ![job[r].conv] = o]
    /\ job' = [job EXCEPT ![r].pc = "answer"]
    /\ UNCHANGED <<bridge, link, cli, proofs, refs, made>>
ChatEnds(r) ==
    LET o == job[r].object IN
    /\ job[r].pc = "run"
    /\ state' = [state EXCEPT ![o].turns = Append(@, r)]
    /\ convs' = [convs EXCEPT ![job[r].conv] = o]
    /\ job' = [job EXCEPT ![r].pc = "answer"]
    /\ UNCHANGED <<bridge, link, cli, proofs, refs, made>>

\* The catch: nothing is remembered.
ChatFails(r) ==
    /\ job[r].pc = "run"
    /\ job' = [job EXCEPT ![r].pc = "answer"]
    /\ UNCHANGED <<bridge, link, cli, proofs, convs, state, refs, made>>

\* A ScombZ tab is opened, closed or reloaded.
RefsChange(s) ==
    /\ refs' = IF s \in refs THEN refs \ {s} ELSE refs \cup {s}
    /\ UNCHANGED <<bridge, link, cli, proofs, job, convs, state, made>>

AuditNext ==
    \/ CliStart \/ CliStop \/ Connect \/ Refused \/ SocketClosed \/ CliSeesClose
    \/ CliHandshake \/ CliTakes \/ Prove \/ TakeCommand \/ Keepalive
    \/ \E kind \in {"challenge", "ready"} : Proved(kind)
    \/ \E c \in AuditConvs, s \in SourceRefs \cup {"none"} : Ask("chat", c, s)
    \/ \E c \in AuditConvs : Ask("clear", c, "none")
    \/ Ask("list", "none", "none")
    \/ \E r \in Requests : Answer(r) \/ ChatChecks(r) \/ Bind(r) \/ Progress(r) \/ ChatEnds(r) \/ ChatFails(r)
    \/ \E s \in SourceRefs : RefsChange(s)

AuditSpec == AuditInit /\ [][AuditNext]_auditVars

-----------------------------------------------------------------------------
\* A conversation's history, which goes to the provider with every turn, holds turns about one source
\* only, also when a chat of an earlier process still runs while the conversation is used again, is
\* cleared or expires (runChat: source_changed, bind_source, conversations.set).
OneSource ==
    \A c \in AuditConvs : convs[c] # 0 =>
        \A i \in DOMAIN state[convs[c]].turns : job[state[convs[c]].turns[i]].source = state[convs[c]].source

\* A command sent on a connection that the tool knows to be ready does not close it (docs/scombz-cli-audit.md).
ReadyIsServed == [][cli.asked # 0 /\ bridge.phase = "open" => bridge'.phase # "closing"]_auditVars
=============================================================================
