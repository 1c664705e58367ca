------------------------- MODULE Connectors_proofs -------------------------
(***************************************************************************)
(* What a run on MCConnectors checks of the audit bridge and of a turn of  *)
(* the chat panel, for every value of the constants: any number of         *)
(* commands, connections, conversations and tabs, of turns and tool calls, *)
(* and whatever the student is signed in to.  And what it checks of the    *)
(* answers about the catalogue, the lists of My Library and the student's  *)
(* own pages, for the pages and caps that MCConnectors gives.              *)
(*                                                                         *)
(* AuditBridge                                                             *)
(*                                                                         *)
(* That a history has turns about one source only is not inductive: a chat *)
(* adds its turn to a state object that it took long before, and the       *)
(* conversation may have another one meanwhile.  AuditInv says of every    *)
(* object, current or not, that its turns are about its source             *)
(* (TurnsOfSource), and of every chat that it holds an object of the source*)
(* it is about (HoldsSource).  A chat makes its object under its own       *)
(* number, so that nothing may refer to the number earlier (Referred); and *)
(* a command begins once, since those on their way have not begun and have *)
(* different numbers (Queued).                                             *)
(*                                                                         *)
(* PanelTurn                                                               *)
(*                                                                         *)
(* A turn has three copies of the conversation: the stored one, the one    *)
(* send began with, which an error goes back to, and the one the tools     *)
(* change.  Each of them remembers everything that was answered from in    *)
(* earlier turns (Sound), and the last one what this turn has given to the *)
(* service (Remembers).  A merge of scopes loses nothing (Merged).         *)
(*                                                                         *)
(* CatalogPages, LibraryRefs, StudentPages                                 *)
(*                                                                         *)
(* The readers pick rows and cells of a page (Chosen), drop those that say *)
(* the same (Once) and cut what is left (First).  For every list: what is  *)
(* picked is the elements at the picked places, in order (ChosenFacts),    *)
(* and what is left has the same elements and no more of them (OnceHas,    *)
(* FirstHas).  So a record has what its row says (ParsedHas), and a search *)
(* gives it the row it is from (RecordOfItsRow).  The catalogue's answer   *)
(* stays true while cells are filled in, since it was given when nothing   *)
(* was waited for (CatalogInv).  Of the lists and the student's pages no   *)
(* more than their content is needed: what is answered has the fields and  *)
(* the numbers that the panel asks for (LibraryInv, StudentInv).           *)
(***************************************************************************)
EXTENDS MCConnectors, Lists, FiniteSetTheorems, FunctionTheorems, WellFoundedInduction, NaturalsInduction,
        SequenceTheorems, TLAPS

(***************************************************************************)
(* The audit bridge (AuditBridge)                                          *)
(***************************************************************************)

AuditFrame ==
    [type : {"hello", "auth", "challenge", "ready", "command", "response", "progress", "keepalive"},
     number : Nat, request : Nat]
LinkState == [ext : BOOLEAN, cli : BOOLEAN, toExt : Seq(AuditFrame), toCli : Seq(AuditFrame)]
BridgeState ==
    [phase : {"idle", "open", "closing"}, connected : BOOLEAN, in : Nat, out : Nat, keepalive : BOOLEAN,
     leaked : BOOLEAN]
CliState == [phase : {"none", "waiting", "hello", "auth", "ready"}, in : Nat, out : Nat, asked : Nat]
JobState ==
    [type : {"none", "chat", "clear", "list"}, pc : {"rest", "sources", "bind", "run", "answer", "done"},
     conv : AuditConvs \cup {"none"}, source : SourceRefs \cup {"none"}, object : Requests \cup {0}]
SourceState == [source : SourceRefs \cup {"none"}, turns : Seq(Requests)]

\* The two ends of the wire, and the tabs.
WireTypeOK ==
    /\ bridge \in BridgeState
    /\ link \in LinkState
    /\ cli \in CliState
    /\ made \in [connections : Nat, commands : Nat, frames : Nat]
    /\ refs \in SUBSET SourceRefs
\* The commands and what they work on.
WorkTypeOK ==
    /\ job \in [Requests -> JobState]
    /\ convs \in [AuditConvs -> Requests \cup {0}]
    /\ state \in [Requests -> SourceState]
    /\ \A r \in Requests : job[r].pc \in {"sources", "bind", "run"} => job[r].conv \in AuditConvs
AuditTypeOK == WireTypeOK /\ WorkTypeOK

\* Commands on their way have not begun, and each is there once: their numbers go up.
Queued(frames) ==
    /\ \A i \in DOMAIN frames : frames[i].type = "command" =>
          /\ frames[i].request \in Requests /\ frames[i].request <= made.commands
          /\ job[frames[i].request].pc = "rest"
          /\ job[frames[i].request].type = "chat" => job[frames[i].request].conv \in AuditConvs
    /\ \A i, j \in DOMAIN frames :
          i < j /\ frames[i].type = "command" /\ frames[j].type = "command" => frames[i].request < frames[j].request

\* An object that something refers to was made: the command of its number is past making it.
Made(o) == job[o].pc \in {"run", "answer", "done"}
Referred ==
    /\ \A c \in AuditConvs : convs[c] # 0 => Made(convs[c])
    /\ \A r \in Requests : job[r].object # 0 => Made(job[r].object)
\* A chat that runs holds the state of the source it is about.
HoldsSource ==
    \A r \in Requests : job[r].pc \in {"bind", "run"} =>
        /\ job[r].object # 0 => state[job[r].object].source = job[r].source
        /\ job[r].pc = "run" => job[r].object # 0
\* Turns were added by chats that are over and were about the source of the state.
TurnsOfSource ==
    \A o \in Requests : \A i \in DOMAIN state[o].turns :
        LET r == state[o].turns[i] IN job[r].source = state[o].source /\ job[r].pc \in {"answer", "done"}
Unasked == \A r \in Requests : r > made.commands => job[r] = NoJob

AuditInv == AuditTypeOK /\ Queued(link.toExt) /\ Referred /\ HoldsSource /\ TurnsOfSource /\ Unasked

LEMMA AuditFields ==
    ASSUME WireTypeOK
    PROVE  /\ bridge.phase \in {"idle", "open", "closing"} /\ bridge.connected \in BOOLEAN /\ bridge.in \in Nat
           /\ bridge.out \in Nat /\ bridge.keepalive \in BOOLEAN /\ bridge.leaked \in BOOLEAN
           /\ link.ext \in BOOLEAN /\ link.cli \in BOOLEAN /\ link.toExt \in Seq(AuditFrame)
           /\ link.toCli \in Seq(AuditFrame)
           /\ cli.phase \in {"none", "waiting", "hello", "auth", "ready"} /\ cli.in \in Nat /\ cli.out \in Nat
           /\ cli.asked \in Nat
           /\ made.connections \in Nat /\ made.commands \in Nat /\ made.frames \in Nat
BY DEF WireTypeOK, BridgeState, LinkState, CliState

\* Queues of frames: what leaves one at its head, or is added at its end.
LEMMA HeadFrame ==
    ASSUME NEW q \in Seq(AuditFrame), q # <<>>
    PROVE  /\ Head(q) \in AuditFrame /\ Tail(q) \in Seq(AuditFrame) /\ 1 \in DOMAIN q /\ Head(q) = q[1]
           /\ \A i \in DOMAIN Tail(q) : i + 1 \in DOMAIN q /\ Tail(q)[i] = q[i + 1]
           /\ \A i, j \in DOMAIN Tail(q) : i < j => i + 1 < j + 1
           /\ \A i \in DOMAIN Tail(q) : 1 < i + 1
<1>1. PICK n \in Nat : n = Len(q) /\ n > 0
    OBVIOUS
<1>2. DOMAIN q = 1 .. n /\ Tail(q) \in Seq(AuditFrame) /\ Len(Tail(q)) = n - 1 /\ Head(q) = q[1]
    BY <1>1
<1>3. DOMAIN Tail(q) = 1 .. (n - 1)
    BY <1>2
<1>4. \A i \in 1 .. (n - 1) : Tail(q)[i] = q[i + 1]
    BY <1>1
<1>. QED BY <1>1, <1>2, <1>3, <1>4

LEMMA AddedFrame ==
    ASSUME NEW q \in Seq(AuditFrame), NEW f \in AuditFrame
    PROVE  /\ Append(q, f) \in Seq(AuditFrame)
           /\ \A i \in DOMAIN Append(q, f) :
                 (i \in DOMAIN q /\ Append(q, f)[i] = q[i]) \/ (i = Len(q) + 1 /\ Append(q, f)[i] = f)
           /\ \A i, j \in DOMAIN Append(q, f) : i < j => i \in DOMAIN q
OBVIOUS

LEMMA QueueTail ==
    ASSUME NEW q \in Seq(AuditFrame), q # <<>>, Queued(q)
    PROVE  Queued(Tail(q))
BY HeadFrame DEF Queued

LEMMA QueueAppend ==
    ASSUME NEW q \in Seq(AuditFrame), NEW f \in AuditFrame, f.type # "command", Queued(q)
    PROVE  Queued(Append(q, f))
BY AddedFrame DEF Queued

\* Nothing happens to the commands: frames that are no commands are sent, taken or lost.
LEMMA QuietStep ==
    ASSUME AuditInv, UNCHANGED <<job, convs, state>>, made'.commands = made.commands, WireTypeOK',
           \/ link'.toExt = link.toExt
           \/ link'.toExt = <<>>
           \/ link.toExt # <<>> /\ link'.toExt = Tail(link.toExt)
           \/ \E f \in AuditFrame : f.type # "command" /\ link'.toExt = Append(link.toExt, f)
    PROVE  AuditInv'
<1>1. WireTypeOK /\ WorkTypeOK /\ link.toExt \in Seq(AuditFrame)
    BY AuditFields DEF AuditInv, AuditTypeOK
<1>2. PICK q : q = link'.toExt
    OBVIOUS
<1>3. Queued(q)
    <2>1. CASE q = <<>>
        BY <2>1 DEF Queued
    <2>. QED BY <1>1, <1>2, <2>1, QueueTail, QueueAppend DEF AuditInv
<1>4. Queued(link.toExt)'
    BY <1>2, <1>3 DEF Queued
<1>5. WorkTypeOK' /\ Referred' /\ HoldsSource' /\ TurnsOfSource' /\ Unasked'
    BY <1>1 DEF AuditInv, WorkTypeOK, Referred, Made, HoldsSource, TurnsOfSource, Unasked
<1>. QED BY <1>4, <1>5 DEF AuditInv, AuditTypeOK

LEMMA FrameMade ==
    ASSUME NEW type \in {"hello", "auth", "challenge", "ready", "command", "response", "progress", "keepalive"},
           NEW number \in Nat, NEW r \in Nat
    PROVE  Frame(type, number, r) \in AuditFrame /\ Frame(type, number, r).type = type
           /\ Frame(type, number, r).request = r
BY DEF Frame, AuditFrame

\* What is sent to the tool does not touch what is on its way to the extension.
LEMMA SentTyped ==
    ASSUME WireTypeOK, NEW f \in AuditFrame
    PROVE  Sent(f) \in LinkState /\ Sent(f).toExt = link.toExt
<1>1. link \in LinkState /\ Append(link.toCli, f) \in Seq(AuditFrame)
    BY AuditFields, AddedFrame DEF WireTypeOK
<1>. QED BY <1>1 DEF Sent, LinkState

LEMMA ToCliTyped ==
    ASSUME WireTypeOK, NEW type \in {"response", "progress", "keepalive"}, NEW r \in Nat, ToCli(type, r)
    PROVE  link' \in LinkState /\ link'.toExt = link.toExt /\ bridge' \in BridgeState
<1>1. PICK next \in Nat : next = bridge.out + 1
    BY AuditFields
<1>2. Frame(type, next, r) \in AuditFrame
    BY FrameMade
<1>3. bridge' = [bridge EXCEPT !.out = next] /\ link' = Sent(Frame(type, next, r))
    BY <1>1 DEF ToCli
<1>. QED BY <1>2, <1>3, SentTyped DEF WireTypeOK, BridgeState

LEMMA ToExtTyped ==
    ASSUME NEW l \in LinkState, NEW f \in AuditFrame
    PROVE  ToExt(l, f) \in LinkState /\ ToExt(l, f).toExt \in {l.toExt, Append(l.toExt, f)}
<1>1. l.toExt \in Seq(AuditFrame)
    BY DEF LinkState
<1>2. Append(l.toExt, f) \in Seq(AuditFrame)
    BY <1>1, AddedFrame
<1>. QED BY <1>2 DEF ToExt, LinkState

LEMMA HangupTyped ==
    ASSUME WireTypeOK, Hangup
    PROVE  bridge' \in BridgeState /\ link' \in LinkState /\ link'.toExt = <<>>
<1>1. PICK phase \in {"idle", "open", "closing"} :
          bridge' = [bridge EXCEPT !.connected = FALSE, !.keepalive = FALSE, !.phase = phase]
    BY AuditFields DEF Hangup
<1>2. bridge' \in BridgeState
    BY <1>1 DEF WireTypeOK, BridgeState
<1>3. <<>> \in Seq(AuditFrame)
    OBVIOUS
<1>4. link' \in LinkState /\ link'.toExt = <<>>
    BY <1>3 DEF Hangup, WireTypeOK, LinkState
<1>. QED BY <1>2, <1>4

LEMMA CliClosesTyped ==
    ASSUME WireTypeOK, CliCloses
    PROVE  cli' \in CliState /\ link' \in LinkState /\ link'.toExt = link.toExt
<1>1. cli' \in CliState
    BY DEF WireTypeOK, CliCloses, CliState
<1>2. <<>> \in Seq(AuditFrame)
    OBVIOUS
<1>3. link' \in LinkState /\ link'.toExt = link.toExt
    BY <1>2 DEF WireTypeOK, CliCloses, LinkState
<1>. QED BY <1>1, <1>3

LEMMA ConnectionStep ==
    ASSUME AuditInv, CliStart \/ CliStop \/ Connect \/ Refused \/ SocketClosed \/ CliSeesClose
    PROVE  AuditInv'
<1>0. WireTypeOK
    BY DEF AuditInv, AuditTypeOK
<1>1. CASE CliStart
    <2>1. WireTypeOK'
        BY <1>0, <1>1 DEF CliStart, WireTypeOK, CliState
    <2>. QED BY <1>1, <2>1, QuietStep DEF CliStart
<1>2. CASE CliStop \/ CliSeesClose
    <2>1. WireTypeOK' /\ link'.toExt = link.toExt
        BY <1>0, <1>2, CliClosesTyped DEF CliStop, CliSeesClose, WireTypeOK
    <2>. QED BY <1>2, <2>1, QuietStep DEF CliStop, CliSeesClose
<1>3. CASE Connect
    <2>1. bridge' \in BridgeState /\ cli' \in CliState
        BY <1>0, <1>3 DEF Connect, WireTypeOK, BridgeState, CliState
    <2>2. link' \in LinkState /\ link'.toExt = <<>>
        <3>1. <<Frame("hello", 0, 0)>> \in Seq(AuditFrame)
            BY FrameMade
        <3>. QED BY <1>3, <3>1 DEF Connect, LinkState
    <2>3. made' \in [connections : Nat, commands : Nat, frames : Nat] /\ made'.commands = made.commands
        BY <1>0, <1>3 DEF Connect, WireTypeOK
    <2>4. WireTypeOK'
        BY <1>0, <1>3, <2>1, <2>2, <2>3 DEF Connect, WireTypeOK
    <2>. QED BY <1>3, <2>2, <2>3, <2>4, QuietStep DEF Connect
<1>4. CASE Refused
    <2>1. WireTypeOK' /\ link'.toExt = <<>>
        BY <1>0, <1>4, HangupTyped DEF Refused, WireTypeOK
    <2>. QED BY <1>4, <2>1, QuietStep DEF Refused
<1>5. CASE SocketClosed
    <2>1. <<>> \in Seq(AuditFrame)
        OBVIOUS
    <2>2. link' \in LinkState /\ link'.toExt = <<>>
        BY <1>5, <2>1 DEF SocketClosed, NoLink, LinkState
    <2>3. bridge' \in BridgeState
        BY <1>0, <1>5 DEF SocketClosed, WireTypeOK, BridgeState
    <2>4. WireTypeOK'
        BY <1>0, <1>5, <2>2, <2>3 DEF SocketClosed, WireTypeOK
    <2>. QED BY <1>5, <2>2, <2>4, QuietStep DEF SocketClosed
<1>. QED BY <1>1, <1>2, <1>3, <1>4, <1>5

\* The tool takes a frame, and may answer with a challenge or with ready.
LEMMA CliFrameStep ==
    ASSUME AuditInv, CliHandshake \/ CliTakes
    PROVE  AuditInv'
<1>0. WireTypeOK /\ link \in LinkState /\ link.toCli \in Seq(AuditFrame) /\ link.toExt \in Seq(AuditFrame)
    BY AuditFields DEF AuditInv, AuditTypeOK, WireTypeOK
<1>1. CASE CliCloses /\ UNCHANGED <<bridge, proofs, job, convs, state, refs, made>>
    <2>1. WireTypeOK' /\ link'.toExt = link.toExt
        BY <1>0, <1>1, CliClosesTyped DEF WireTypeOK
    <2>. QED BY <1>1, <2>1, QuietStep
<1>2. CASE link.toCli # <<>> /\ ~CliCloses
    <2>. DEFINE rest == [link EXCEPT !.toCli = Tail(@)]
    <2>1. rest \in LinkState /\ rest.toExt = link.toExt /\ Head(link.toCli) \in AuditFrame
        BY <1>0, <1>2, HeadFrame DEF LinkState
    <2>. HIDE DEF rest
    <2>2. CASE CliHandshake
        <3>1. PICK type \in {"challenge", "ready"} :
                  /\ link' = ToExt(rest, Frame(type, 0, 0))
                  /\ \E phase \in {"auth", "ready"} : cli' = [cli EXCEPT !.phase = phase]
            BY <1>2, <2>2 DEF CliHandshake, rest
        <3>2. Frame(type, 0, 0) \in AuditFrame /\ Frame(type, 0, 0).type # "command"
            BY FrameMade
        <3>3. /\ link' \in LinkState
              /\ link'.toExt \in {link.toExt, Append(link.toExt, Frame(type, 0, 0))}
            BY <2>1, <3>1, <3>2, ToExtTyped
        <3>4. cli' \in CliState
            BY <1>0, <3>1 DEF WireTypeOK, CliState
        <3>5. WireTypeOK'
            BY <1>0, <2>2, <3>3, <3>4 DEF CliHandshake, WireTypeOK
        <3>. QED BY <2>2, <3>2, <3>3, <3>5, QuietStep DEF CliHandshake
    <2>3. CASE CliTakes
        <3>1. PICK n \in Nat : n = Head(link.toCli).number
            BY <2>1 DEF AuditFrame
        <3>2. link' = rest
            BY <1>2, <2>3 DEF CliTakes, rest
        <3>3. cli' \in CliState
            <4>1. PICK asked \in Nat : cli' = [cli EXCEPT !.in = n, !.asked = asked]
                BY <1>0, <1>2, <2>3, <3>1, AuditFields DEF CliTakes
            <4>. QED BY <1>0, <4>1 DEF WireTypeOK, CliState
        <3>4. WireTypeOK'
            BY <1>0, <2>1, <2>3, <3>2, <3>3 DEF CliTakes, WireTypeOK
        <3>. QED BY <2>1, <2>3, <3>2, <3>4, QuietStep DEF CliTakes
    <2>. QED BY <2>2, <2>3
<1>. QED BY <1>1, <1>2 DEF CliHandshake, CliTakes

\* The extension proves itself, and sends frames that no command waits for.
LEMMA ExtFrameStep ==
    ASSUME AuditInv,
           \/ Prove \/ Keepalive \/ (\E kind \in {"challenge", "ready"} : Proved(kind))
           \/ (\E r \in Requests : Progress(r)) \/ (\E s \in SourceRefs : RefsChange(s))
    PROVE  AuditInv'
<1>0. WireTypeOK /\ link \in LinkState /\ link.toExt \in Seq(AuditFrame) /\ Requests \subseteq Nat
    BY AuditFields, AuditAssumption DEF AuditInv, AuditTypeOK, WireTypeOK, Requests
<1>1. CASE Prove
    <2>1. WireTypeOK' /\ link'.toExt = Tail(link.toExt)
        <3>1. Tail(link.toExt) \in Seq(AuditFrame)
            BY <1>0, <1>1, HeadFrame DEF Prove
        <3>. QED BY <1>0, <1>1, <3>1 DEF Prove, WireTypeOK, LinkState
    <2>. QED BY <1>1, <2>1, QuietStep DEF Prove
<1>2. ASSUME NEW r \in Requests \cup {0}, NEW type \in {"progress", "keepalive"}, ToCli(type, r),
             made' = [made EXCEPT !.frames = @ + 1], UNCHANGED <<cli, job, convs, state, refs>>
      PROVE  AuditInv'
    <2>1. made' \in [connections : Nat, commands : Nat, frames : Nat] /\ made'.commands = made.commands
        BY <1>0, <1>2 DEF WireTypeOK
    <2>2. WireTypeOK' /\ link'.toExt = link.toExt
        BY <1>0, <1>2, <2>1, ToCliTyped DEF WireTypeOK
    <2>. QED BY <1>2, <2>1, <2>2, QuietStep
<1>3. ASSUME NEW kind \in {"challenge", "ready"}, Proved(kind)
      PROVE  AuditInv'
    <2>1. link' \in LinkState /\ link'.toExt = link.toExt
        <3>1. Frame("auth", 0, 0) \in AuditFrame
            BY FrameMade
        <3>2. link' = link \/ link' = Sent(Frame("auth", 0, 0))
            BY <1>3 DEF Proved
        <3>. QED BY <1>0, <3>1, <3>2, SentTyped
    <2>2. bridge' \in BridgeState
        <3>1. CASE kind = "challenge"
            BY <1>0, <1>3, <3>1 DEF Proved, WireTypeOK
        <3>2. CASE kind = "ready"
            <4>1. PICK leaked \in BOOLEAN :
                      bridge' = [bridge EXCEPT !.connected = TRUE, !.keepalive = TRUE, !.leaked = leaked]
                BY <1>3, <3>2, Zenon DEF Proved
            <4>. QED BY <1>0, <4>1 DEF WireTypeOK, BridgeState
        <3>. QED BY <3>1, <3>2
    <2>. QED BY <1>0, <1>3, <2>1, <2>2, QuietStep DEF Proved, WireTypeOK
<1>4. ASSUME NEW s \in SourceRefs, RefsChange(s)
      PROVE  AuditInv'
    BY <1>0, <1>4, QuietStep DEF RefsChange, WireTypeOK
<1>. QED BY <1>1, <1>2, <1>3, <1>4 DEF Keepalive, Progress

-----------------------------------------------------------------------------
(* Commands and chats.                                                      *)

LEMMA WorkFields ==
    ASSUME AuditInv, NEW r \in Requests
    PROVE  /\ job[r] \in JobState /\ state[r] \in SourceState /\ r \in Nat /\ r # 0
           /\ job[r].pc \in {"sources", "bind", "run"}
                => job[r].conv \in AuditConvs /\ convs[job[r].conv] \in Requests \cup {0}
BY AuditAssumption DEF AuditInv, AuditTypeOK, WorkTypeOK, Requests

\* A command goes on: its job changes, and neither what it is about nor what is on its way.
LEMMA JobStep ==
    ASSUME AuditInv, NEW r \in Requests, job[r].pc # "rest",
           NEW k \in JobState, job' = [job EXCEPT ![r] = k], k.conv = job[r].conv,
           k.pc \in {"bind", "run", "answer", "done"},
           k.source = job[r].source \/ job[r].pc = "sources",
           job[r].pc \in {"run", "answer", "done"} => k.pc \in {"run", "answer", "done"},
           job[r].pc \in {"answer", "done"} => k.pc \in {"answer", "done"},
           k.object # 0 => Made(k.object) \/ (k.object = r /\ k.pc = "run"),
           k.pc \in {"bind", "run"} => k.conv \in AuditConvs,
           WireTypeOK', made' = made, link'.toExt = link.toExt
    PROVE  /\ WireTypeOK' /\ job' \in [Requests -> JobState] /\ Queued(link.toExt)' /\ Unasked'
           /\ job'[r] = k /\ \A q \in Requests \ {r} : job'[q] = job[q]
           /\ \A o \in Requests : Made(o) => Made(o)'
           /\ (\A q \in Requests : job[q].object # 0 => Made(job[q].object))'
           /\ \A q \in Requests : job'[q].pc \in {"sources", "bind", "run"} => job'[q].conv \in AuditConvs
           /\ \A q \in Requests : job[q].pc \in {"answer", "done"} =>
                 job'[q].pc \in {"answer", "done"} /\ job'[q].source = job[q].source
<1>1. job \in [Requests -> JobState]
    BY DEF AuditInv, AuditTypeOK, WorkTypeOK
<1>2. job' \in [Requests -> JobState] /\ job'[r] = k /\ \A q \in Requests \ {r} : job'[q] = job[q]
    BY <1>1
<1>3. \A o \in Requests : Made(o) => Made(o)'
    BY <1>2 DEF Made
<1>4. Made(r)' \/ k.pc = "bind"
    BY <1>2 DEF Made
<1>5. ASSUME NEW q \in Requests, NEW o, o = job'[q].object, o # 0
      PROVE  Made(o)'
    <2>1. o \in Requests
        BY <1>2, <1>5 DEF JobState
    <2>. QED BY <1>2, <1>3, <1>4, <1>5, <2>1 DEF AuditInv, Referred
<1>9. (\A q \in Requests : job[q].object # 0 => Made(job[q].object))'
    BY <1>5 DEF Made
<1>6. Queued(link.toExt)'
    BY <1>2 DEF AuditInv, Queued
<1>7. Unasked'
    <2>1. job[r] # NoJob
        BY DEF NoJob
    <2>. QED BY <1>2, <2>1 DEF AuditInv, Unasked
<1>8. \A q \in Requests : job'[q].pc \in {"sources", "bind", "run"} => job'[q].conv \in AuditConvs
    BY <1>2 DEF AuditInv, AuditTypeOK, WorkTypeOK
<1>. QED BY <1>2, <1>3, <1>6, <1>7, <1>8, <1>9

\* The states stay as they are; a conversation may be forgotten.
LEMMA JobOnly ==
    ASSUME AuditInv, NEW r \in Requests, job[r].pc # "rest",
           NEW k \in JobState, job' = [job EXCEPT ![r] = k], k.conv = job[r].conv,
           k.pc \in {"bind", "run", "answer", "done"},
           k.source = job[r].source \/ job[r].pc = "sources",
           job[r].pc \in {"run", "answer", "done"} => k.pc \in {"run", "answer", "done"},
           job[r].pc \in {"answer", "done"} => k.pc \in {"answer", "done"},
           k.object # 0 => Made(k.object) \/ (k.object = r /\ k.pc = "run"),
           k.pc \in {"bind", "run"} => k.conv \in AuditConvs,
           k.pc \in {"bind", "run"} /\ k.object # 0 => state[k.object].source = k.source,
           k.pc = "run" => k.object # 0,
           WireTypeOK', made' = made, link'.toExt = link.toExt, state' = state,
           convs' \in [AuditConvs -> Requests \cup {0}], \A c \in AuditConvs : convs'[c] \in {convs[c], 0}
    PROVE  AuditInv'
<1>. USE JobStep
<1>1. WorkTypeOK'
    BY DEF AuditInv, AuditTypeOK, WorkTypeOK
<1>2. Referred'
    <2>1. ASSUME NEW c \in AuditConvs, NEW o, o = convs'[c], o # 0 PROVE Made(o)'
        BY <2>1 DEF AuditInv, AuditTypeOK, WorkTypeOK, Referred
    <2>. QED BY <2>1 DEF Referred, Made
<1>3. HoldsSource'
    BY DEF AuditInv, HoldsSource
<1>4. TurnsOfSource'
    <2>1. ASSUME NEW o \in Requests, NEW i \in DOMAIN state[o].turns, NEW q, q = state[o].turns[i]
          PROVE  q \in Requests /\ job'[q].source = state[o].source /\ job'[q].pc \in {"answer", "done"}
        <3>1. q \in Requests
            BY <2>1, WorkFields DEF SourceState
        <3>. QED BY <2>1, <3>1 DEF AuditInv, TurnsOfSource
    <2>. QED BY <2>1 DEF TurnsOfSource
<1>. QED BY <1>1, <1>2, <1>3, <1>4 DEF AuditInv, AuditTypeOK

LEMMA AnswerStep ==
    ASSUME AuditInv, NEW r \in Requests, Answer(r) \/ ChatFails(r)
    PROVE  AuditInv'
<1>0. WireTypeOK /\ convs \in [AuditConvs -> Requests \cup {0}] /\ job \in [Requests -> JobState]
    BY DEF AuditInv, AuditTypeOK, WorkTypeOK
<1>1. PICK pc \in {"answer", "done"} :
          /\ job' = [job EXCEPT ![r].pc = pc]
          /\ job[r].pc \in {"answer", "run"} /\ UNCHANGED <<convs, state, made>>
    BY DEF Answer, ChatFails
<1>2. PICK k : k = [job[r] EXCEPT !.pc = pc]
    OBVIOUS
<1>3. k \in JobState /\ k.conv = job[r].conv /\ k.source = job[r].source /\ k.pc = pc /\ k.object = job[r].object
    BY <1>2, WorkFields DEF JobState
<1>4. WireTypeOK' /\ link'.toExt = link.toExt
    <2>1. CASE Answer(r)
        <3>1. link' \in LinkState /\ link'.toExt = link.toExt /\ bridge' \in BridgeState
            BY <1>0, <2>1, WorkFields, ToCliTyped DEF Answer
        <3>. QED BY <1>0, <2>1, <3>1 DEF Answer, WireTypeOK
    <2>2. CASE ChatFails(r)
        BY <1>0, <2>2 DEF ChatFails, WireTypeOK
    <2>. QED BY <2>1, <2>2
<1>5. job' = [job EXCEPT ![r] = k]
    BY <1>0, <1>1, <1>2
<1>6. k.object # 0 => Made(k.object)
    BY <1>3 DEF AuditInv, Referred
<1>7. /\ convs' \in [AuditConvs -> Requests \cup {0}] /\ \A c \in AuditConvs : convs'[c] \in {convs[c], 0}
      /\ job[r].pc \in {"answer", "run"} /\ state' = state /\ made' = made
    BY <1>0, <1>1
<1>. QED BY <1>3, <1>4, <1>5, <1>6, <1>7, JobOnly

\* What a chat is about is decided with the state its conversation has now.
LEMMA ChatChecksStep ==
    ASSUME AuditInv, NEW r \in Requests, ChatChecks(r)
    PROVE  AuditInv'
<1>0. /\ WireTypeOK' /\ convs \in [AuditConvs -> Requests \cup {0}] /\ job \in [Requests -> JobState]
      /\ UNCHANGED <<state, made, link>> /\ job[r].pc = "sources"
    BY DEF ChatChecks, AuditInv, AuditTypeOK, WireTypeOK, WorkTypeOK
<1>1. PICK c \in AuditConvs : c = job[r].conv /\ convs[c] \in Requests \cup {0}
    BY <1>0, WorkFields
<1>2. convs[c] # 0 => Made(convs[c])
    BY DEF AuditInv, Referred
<1>3. CASE job' = [job EXCEPT ![r].pc = "answer"] /\ (convs' = convs \/ convs' = [convs EXCEPT ![c] = 0])
    <2>1. PICK k : k = [job[r] EXCEPT !.pc = "answer"]
        OBVIOUS
    <2>2. k \in JobState /\ k.pc = "answer" /\ k.conv = job[r].conv /\ k.source = job[r].source /\ k.object = job[r].object
        BY <2>1, WorkFields DEF JobState
    <2>3. job' = [job EXCEPT ![r] = k] /\ convs' \in [AuditConvs -> Requests \cup {0}]
        BY <1>0, <1>3, <2>1
    <2>4. \A d \in AuditConvs : convs'[d] \in {convs[d], 0}
        BY <1>0, <1>3
    <2>5. k.object # 0 => Made(k.object)
        BY <2>2 DEF AuditInv, Referred
    <2>. QED BY <1>0, <2>2, <2>3, <2>4, <2>5, JobOnly
<1>4. ASSUME NEW s \in ChosenSources(r), convs[c] # 0 => state[convs[c]].source = s, convs' = convs,
             job' = [job EXCEPT ![r].pc = "bind", ![r].source = s, ![r].object = convs[c]]
      PROVE  AuditInv'
    <2>1. s \in SourceRefs
        <3>1. refs \subseteq SourceRefs
            BY DEF AuditInv, AuditTypeOK, WireTypeOK
        <3>. QED BY <3>1 DEF ChosenSources
    <2>2. PICK k : k = [job[r] EXCEPT !.pc = "bind", !.source = s, !.object = convs[c]]
        OBVIOUS
    <2>3. k \in JobState /\ k.pc = "bind" /\ k.conv = c /\ k.source = s /\ k.object = convs[c]
        BY <1>1, <2>1, <2>2, WorkFields DEF JobState
    <2>4. job' = [job EXCEPT ![r] = k]
        BY <1>0, <1>4, <2>2
    <2>5. /\ convs' \in [AuditConvs -> Requests \cup {0}] /\ \A d \in AuditConvs : convs'[d] \in {convs[d], 0}
          /\ k.object # 0 => Made(k.object) /\ state[k.object].source = k.source
        BY <1>0, <1>2, <1>4, <2>3
    <2>. QED BY <1>0, <1>1, <2>3, <2>4, <2>5, JobOnly
<1>. QED BY <1>1, <1>3, <1>4 DEF ChatChecks

\* The state a chat holds is the one its conversation had, or a new one under its own number: nothing refers
\* to that one yet, and it has no turns.
LEMMA BindStep ==
    ASSUME AuditInv, NEW r \in Requests, Bind(r)
    PROVE  AuditInv'
<1>0. /\ WireTypeOK' /\ convs \in [AuditConvs -> Requests \cup {0}] /\ job \in [Requests -> JobState]
      /\ state \in [Requests -> SourceState]
      /\ UNCHANGED <<convs, made, link>> /\ job[r].pc = "bind" /\ job[r].conv \in AuditConvs
    BY DEF Bind, AuditInv, AuditTypeOK, WireTypeOK, WorkTypeOK
<1>1. job[r].object # 0 => Made(job[r].object) /\ state[job[r].object].source = job[r].source
    BY <1>0 DEF AuditInv, Referred, HoldsSource
<1>2. CASE job' = [job EXCEPT ![r].pc = "answer"] /\ state' = state
    <2>1. PICK k : k = [job[r] EXCEPT !.pc = "answer"]
        OBVIOUS
    <2>2. k \in JobState /\ k.pc = "answer" /\ k.conv = job[r].conv /\ k.source = job[r].source /\ k.object = job[r].object
        BY <2>1, WorkFields DEF JobState
    <2>3. job' = [job EXCEPT ![r] = k]
        BY <1>0, <1>2, <2>1
    <2>. QED BY <1>0, <1>1, <1>2, <2>2, <2>3, JobOnly
<1>3. CASE /\ job[r].object # 0 /\ state' = state
           /\ job' = [job EXCEPT ![r].pc = "run", ![r].object = IF @ = 0 THEN r ELSE @]
    <2>1. PICK k : k = [job[r] EXCEPT !.pc = "run"]
        OBVIOUS
    <2>2. k \in JobState /\ k.pc = "run" /\ k.conv = job[r].conv /\ k.source = job[r].source /\ k.object = job[r].object
        BY <2>1, WorkFields DEF JobState
    <2>3. job' = [job EXCEPT ![r] = k]
        BY <1>0, <1>3, <2>1
    <2>4. k.object # 0 /\ Made(k.object) /\ state[k.object].source = k.source /\ state' = state
        BY <1>1, <1>3, <2>2
    <2>. QED BY <1>0, <2>2, <2>3, <2>4, JobOnly
<1>4. CASE /\ job[r].object = 0
           /\ job' = [job EXCEPT ![r].pc = "run", ![r].object = IF @ = 0 THEN r ELSE @]
           /\ state' = [state EXCEPT ![r] = [source |-> job[r].source, turns |-> <<>>]]
    <2>1. PICK k : k = [job[r] EXCEPT !.pc = "run", !.object = r]
        OBVIOUS
    <2>2. k \in JobState /\ k.pc = "run" /\ k.conv = job[r].conv /\ k.source = job[r].source /\ k.object = r
        BY <2>1, WorkFields DEF JobState
    <2>3. job' = [job EXCEPT ![r] = k]
        BY <1>0, <1>4, <2>1
    <2>4. /\ job' \in [Requests -> JobState] /\ Queued(link.toExt)' /\ Unasked'
          /\ job'[r] = k /\ \A q \in Requests \ {r} : job'[q] = job[q]
          /\ \A o \in Requests : Made(o) => Made(o)'
          /\ (\A q \in Requests : job[q].object # 0 => Made(job[q].object))'
          /\ \A q \in Requests : job'[q].pc \in {"sources", "bind", "run"} => job'[q].conv \in AuditConvs
          /\ \A q \in Requests : job[q].pc \in {"answer", "done"} =>
                job'[q].pc \in {"answer", "done"} /\ job'[q].source = job[q].source
        BY <1>0, <2>2, <2>3, JobStep
    <2>5. ~Made(r) /\ \A o \in Requests : Made(o) => o # r /\ state'[o] = state[o]
        BY <1>0, <1>4 DEF Made
    <2>6. state'[r] = [source |-> job[r].source, turns |-> <<>>] /\ \A o \in Requests \ {r} : state'[o] = state[o]
        BY <1>0, <1>4
    <2>7. WorkTypeOK'
        <3>1. <<>> \in Seq(Requests) /\ job[r].source \in SourceRefs \cup {"none"}
            BY <1>0 DEF JobState
        <3>2. state' \in [Requests -> SourceState]
            BY <1>0, <1>4, <3>1 DEF SourceState
        <3>. QED BY <1>0, <2>4, <3>2 DEF WorkTypeOK
    <2>8. Referred'
        <3>1. ASSUME NEW c \in AuditConvs, NEW o, o = convs[c], o # 0 PROVE Made(o)'
            BY <1>0, <2>4, <3>1 DEF AuditInv, Referred
        <3>. QED BY <1>0, <2>4, <3>1 DEF Referred, Made
    <2>9. HoldsSource'
        <3>1. ASSUME NEW q \in Requests, q # r, job[q].pc \in {"bind", "run"}
              PROVE  /\ job'[q].object # 0 => state'[job'[q].object].source = job'[q].source
                     /\ job'[q].pc = "run" => job'[q].object # 0
            <4>1. job'[q] = job[q]
                BY <2>4, <3>1
            <4>2. job[q].object # 0 => Made(job[q].object) /\ job[q].object \in Requests
                BY <1>0 DEF AuditInv, Referred, JobState
            <4>. QED BY <3>1, <4>1, <4>2, <2>5 DEF AuditInv, HoldsSource
        <3>2. job'[r].object = r /\ state'[r].source = job'[r].source /\ r # 0
            BY <2>2, <2>4, <2>6, WorkFields
        <3>. QED BY <2>4, <3>1, <3>2 DEF HoldsSource
    <2>10. TurnsOfSource'
        <3>1. ASSUME NEW o \in Requests, NEW i \in DOMAIN state'[o].turns, NEW q, q = state'[o].turns[i]
              PROVE  job'[q].source = state'[o].source /\ job'[q].pc \in {"answer", "done"}
            <4>1. o # r
                BY <2>6
            <4>2. state'[o] = state[o]
                BY <2>6, <4>1
            <4>3. q \in Requests
                BY <3>1, <4>2, WorkFields DEF SourceState
            <4>. QED BY <2>4, <3>1, <4>2, <4>3 DEF AuditInv, TurnsOfSource
        <3>. QED BY <3>1 DEF TurnsOfSource
    <2>. QED BY <1>0, <2>4, <2>7, <2>8, <2>9, <2>10 DEF AuditInv, AuditTypeOK
<1>. QED BY <1>2, <1>3, <1>4 DEF Bind

\* A turn is added to the state the chat holds, which has the source of the chat.
LEMMA ChatEndsStep ==
    ASSUME AuditInv, NEW r \in Requests, ChatEnds(r)
    PROVE  AuditInv'
<1>0. /\ WireTypeOK' /\ convs \in [AuditConvs -> Requests \cup {0}] /\ job \in [Requests -> JobState]
      /\ state \in [Requests -> SourceState]
      /\ UNCHANGED <<made, link>> /\ job[r].pc = "run" /\ job[r].conv \in AuditConvs
      /\ job' = [job EXCEPT ![r].pc = "answer"]
    BY DEF ChatEnds, AuditInv, AuditTypeOK, WireTypeOK, WorkTypeOK
<1>1. PICK o \in Requests : o = job[r].object /\ Made(o) /\ state[o].source = job[r].source
    BY <1>0 DEF AuditInv, HoldsSource, Referred, JobState
<1>2. /\ state' = [state EXCEPT ![o].turns = Append(@, r)]
      /\ convs' = [convs EXCEPT ![job[r].conv] = o]
    BY <1>1 DEF ChatEnds
<1>3. PICK k : k = [job[r] EXCEPT !.pc = "answer"]
    OBVIOUS
<1>4. k \in JobState /\ k.pc = "answer" /\ k.conv = job[r].conv /\ k.source = job[r].source /\ k.object = o
    BY <1>1, <1>3, WorkFields DEF JobState
<1>5. job' = [job EXCEPT ![r] = k]
    BY <1>0, <1>3
<1>6. /\ job' \in [Requests -> JobState] /\ Queued(link.toExt)' /\ Unasked'
      /\ job'[r] = k /\ \A q \in Requests \ {r} : job'[q] = job[q]
      /\ \A p \in Requests : Made(p) => Made(p)'
      /\ (\A q \in Requests : job[q].object # 0 => Made(job[q].object))'
      /\ \A q \in Requests : job'[q].pc \in {"sources", "bind", "run"} => job'[q].conv \in AuditConvs
      /\ \A q \in Requests : job[q].pc \in {"answer", "done"} =>
            job'[q].pc \in {"answer", "done"} /\ job'[q].source = job[q].source
    BY <1>0, <1>1, <1>4, <1>5, JobStep
<1>7. state[o].turns \in Seq(Requests)
    BY <1>0 DEF SourceState
<1>8. /\ \A p \in Requests : state'[p].source = state[p].source
      /\ \A p \in Requests \ {o} : state'[p] = state[p]
      /\ state'[o].turns = Append(state[o].turns, r)
    BY <1>0, <1>2 DEF SourceState
<1>9. WorkTypeOK'
    <2>1. Append(state[o].turns, r) \in Seq(Requests)
        BY <1>7
    <2>2. state' \in [Requests -> SourceState]
        BY <1>0, <1>2, <2>1 DEF SourceState
    <2>. QED BY <1>0, <1>2, <1>6, <2>2 DEF WorkTypeOK
<1>10. Referred'
    <2>1. ASSUME NEW c \in AuditConvs, NEW p, p = convs'[c], p # 0 PROVE Made(p)'
        <3>1. p = o \/ p = convs[c]
            BY <1>0, <1>2, <2>1
        <3>2. p \in Requests
            BY <1>0, <2>1, <3>1
        <3>3. Made(p)
            BY <1>1, <2>1, <3>1 DEF AuditInv, Referred
        <3>. QED BY <1>6, <3>2, <3>3
    <2>. QED BY <1>6, <2>1 DEF Referred, Made
<1>11. HoldsSource'
    <2>1. ASSUME NEW q \in Requests, q # r, job[q].pc \in {"bind", "run"}
          PROVE  /\ job'[q].object # 0 => state'[job'[q].object].source = job'[q].source
                 /\ job'[q].pc = "run" => job'[q].object # 0
        <3>1. job'[q] = job[q] /\ job[q].object \in Requests \cup {0}
            BY <1>0, <1>6, <2>1 DEF JobState
        <3>. QED BY <2>1, <3>1, <1>8 DEF AuditInv, HoldsSource
    <2>. QED BY <1>4, <1>6, <2>1 DEF HoldsSource
<1>12. TurnsOfSource'
    <2>1. ASSUME NEW p \in Requests, NEW i \in DOMAIN state'[p].turns, NEW q, q = state'[p].turns[i]
          PROVE  job'[q].source = state'[p].source /\ job'[q].pc \in {"answer", "done"}
        <3>1. CASE p = o /\ i \notin DOMAIN state[o].turns
            <4>1. q = r
                BY <1>7, <1>8, <2>1, <3>1
            <4>. QED BY <1>1, <1>4, <1>6, <1>8, <3>1, <4>1
        <3>2. CASE i \in DOMAIN state[p].turns /\ q = state[p].turns[i]
            <4>1. q \in Requests
                BY <3>2, WorkFields DEF SourceState
            <4>. QED BY <1>6, <1>8, <3>2, <4>1 DEF AuditInv, TurnsOfSource
        <3>3. p = o => i \notin DOMAIN state[o].turns \/ q = state[p].turns[i]
            BY <1>7, <1>8, <2>1
        <3>4. p # o => i \in DOMAIN state[p].turns /\ q = state[p].turns[i]
            BY <1>8, <2>1
        <3>. QED BY <3>1, <3>2, <3>3, <3>4
    <2>. QED BY <2>1 DEF TurnsOfSource
<1>. QED BY <1>0, <1>6, <1>9, <1>10, <1>11, <1>12 DEF AuditInv, AuditTypeOK

\* A command reaches the extension: it begins, and a clear forgets the conversation. Commands that are still
\* on their way have later numbers.
LEMMA TakeStep ==
    ASSUME AuditInv, TakeCommand
    PROVE  AuditInv'
<1>0. /\ WireTypeOK /\ link \in LinkState /\ link.toExt \in Seq(AuditFrame) /\ link.toExt # <<>>
      /\ convs \in [AuditConvs -> Requests \cup {0}] /\ job \in [Requests -> JobState]
      /\ state \in [Requests -> SourceState] /\ UNCHANGED <<cli, proofs, state, refs, made>>
    BY AuditFields DEF TakeCommand, AuditInv, AuditTypeOK, WireTypeOK, WorkTypeOK
<1>1. CASE Hangup /\ UNCHANGED <<job, convs>>
    <2>1. WireTypeOK' /\ link'.toExt = <<>>
        BY <1>0, <1>1, HangupTyped DEF WireTypeOK
    <2>. QED BY <1>0, <1>1, <2>1, QuietStep
<1>2. CASE ~(Hangup /\ UNCHANGED <<job, convs>>)
    <2>1. PICK f \in AuditFrame : f = Head(link.toExt) /\ f = link.toExt[1] /\ 1 \in DOMAIN link.toExt
        BY <1>0, HeadFrame
    <2>2. PICK r \in Nat : r = f.request
        BY <2>1 DEF AuditFrame
    <2>3. /\ f.type = "command"
          /\ bridge' = [bridge EXCEPT !.in = f.number]
          /\ link' = [link EXCEPT !.toExt = Tail(@)]
          /\ job' = [job EXCEPT ![r].pc = IF job[r].type = "chat" THEN "sources" ELSE "answer"]
          /\ convs' = IF job[r].type = "clear" THEN [convs EXCEPT ![job[r].conv] = 0] ELSE convs
        BY <1>2, <2>1, <2>2 DEF TakeCommand
    <2>4. /\ r \in Requests /\ r <= made.commands /\ job[r].pc = "rest"
          /\ job[r].type = "chat" => job[r].conv \in AuditConvs
        BY <2>1, <2>2, <2>3 DEF AuditInv, Queued
    <2>5. PICK pc \in {"sources", "answer"} : pc = (IF job[r].type = "chat" THEN "sources" ELSE "answer")
        OBVIOUS
    <2>6. PICK k : k = [job[r] EXCEPT !.pc = pc]
        OBVIOUS
    <2>7. /\ k \in JobState /\ k.pc = pc /\ k.conv = job[r].conv /\ k.source = job[r].source
          /\ k.object = job[r].object
        BY <1>0, <2>4, <2>6 DEF JobState
    <2>8. job' \in [Requests -> JobState] /\ job'[r] = k /\ \A q \in Requests \ {r} : job'[q] = job[q]
        BY <1>0, <2>3, <2>4, <2>5, <2>6, <2>7
    <2>9. convs' \in [AuditConvs -> Requests \cup {0}] /\ \A c \in AuditConvs : convs'[c] \in {convs[c], 0}
        BY <1>0, <2>3, <2>4
    <2>10. WireTypeOK'
        <3>1. Tail(link.toExt) \in Seq(AuditFrame) /\ f.number \in Nat
            BY <1>0, HeadFrame DEF AuditFrame
        <3>. QED BY <1>0, <2>3, <3>1 DEF WireTypeOK, LinkState, BridgeState
    <2>11. WorkTypeOK'
        BY <1>0, <2>4, <2>5, <2>7, <2>8, <2>9 DEF WorkTypeOK, AuditInv, AuditTypeOK
    <2>12. Queued(link.toExt)'
        <3>1. PICK q \in Seq(AuditFrame) : q = link'.toExt /\ q = Tail(link.toExt)
            <4>1. Tail(link.toExt) \in Seq(AuditFrame) /\ link'.toExt = Tail(link.toExt)
                BY <1>0, <2>3, HeadFrame DEF LinkState
            <4>. QED BY <4>1
        <3>2. Queued(q)
            BY <1>0, <3>1, QueueTail DEF AuditInv
        <3>3. \A i \in DOMAIN q : q[i].type = "command" => q[i].request # r
            <4>1. ASSUME NEW i \in DOMAIN q, q[i].type = "command" PROVE r < q[i].request
                <5>1. i + 1 \in DOMAIN link.toExt /\ q[i] = link.toExt[i + 1] /\ 1 < i + 1
                    BY <1>0, <3>1, HeadFrame
                <5>. QED BY <2>1, <2>2, <2>3, <4>1, <5>1 DEF AuditInv, Queued
            <4>. QED BY <2>2, <4>1
        <3>4. \A i \in DOMAIN q : q[i].type = "command" => job'[q[i].request] = job[q[i].request]
            BY <2>8, <3>2, <3>3 DEF Queued
        <3>5. /\ \A i \in DOMAIN q : q[i].type = "command" =>
                    /\ q[i].request \in Requests /\ q[i].request <= made'.commands
                    /\ job'[q[i].request].pc = "rest"
                    /\ job'[q[i].request].type = "chat" => job'[q[i].request].conv \in AuditConvs
              /\ \A i, j \in DOMAIN q :
                    i < j /\ q[i].type = "command" /\ q[j].type = "command" => q[i].request < q[j].request
            BY <1>0, <3>2, <3>4 DEF Queued
        <3>. QED BY <3>1, <3>5 DEF Queued
    <2>13. ~Made(r) /\ \A o \in Requests : Made(o) => Made(o)'
        BY <2>4, <2>8 DEF Made
    <2>14. Referred'
        <3>1. ASSUME NEW c \in AuditConvs, NEW o, o = convs'[c], o # 0 PROVE Made(o)'
            BY <1>0, <2>9, <2>13, <3>1 DEF AuditInv, Referred
        <3>2. ASSUME NEW q \in Requests, NEW o, o = job'[q].object, o # 0 PROVE Made(o)'
            <4>1. o = job[q].object /\ o \in Requests
                BY <1>0, <2>7, <2>8, <3>2 DEF JobState
            <4>. QED BY <2>13, <3>2, <4>1 DEF AuditInv, Referred
        <3>. QED BY <3>1, <3>2 DEF Referred, Made
    <2>15. HoldsSource'
        BY <1>0, <2>7, <2>8 DEF AuditInv, HoldsSource
    <2>16. TurnsOfSource'
        <3>1. ASSUME NEW o \in Requests, NEW i \in DOMAIN state[o].turns, NEW q, q = state[o].turns[i]
              PROVE  job'[q].source = state[o].source /\ job'[q].pc \in {"answer", "done"}
            <4>1. q \in Requests
                BY <3>1, WorkFields DEF SourceState
            <4>2. job[q].source = state[o].source /\ job[q].pc \in {"answer", "done"}
                BY <3>1 DEF AuditInv, TurnsOfSource
            <4>. QED BY <2>4, <2>8, <4>1, <4>2
        <3>. QED BY <1>0, <3>1 DEF TurnsOfSource
    <2>17. Unasked'
        <3>1. ~(r > made.commands)
            BY <1>0, <2>2, <2>4, AuditFields
        <3>. QED BY <1>0, <2>8, <3>1 DEF AuditInv, Unasked
    <2>. QED BY <2>10, <2>11, <2>12, <2>14, <2>15, <2>16, <2>17 DEF AuditInv, AuditTypeOK
<1>. QED BY <1>1, <1>2 DEF TakeCommand

\* The tool's next command has the next number, and its handler has not begun.
LEMMA AskStep ==
    ASSUME AuditInv, NEW type \in {"chat", "clear", "list"}, NEW c \in AuditConvs \cup {"none"},
           NEW s \in SourceRefs \cup {"none"}, type = "chat" => c \in AuditConvs, Ask(type, c, s)
    PROVE  AuditInv'
<1>0. /\ WireTypeOK /\ link \in LinkState /\ link.toExt \in Seq(AuditFrame) /\ job \in [Requests -> JobState]
      /\ UNCHANGED <<bridge, proofs, convs, state, refs>>
      /\ convs \in [AuditConvs -> Requests \cup {0}] /\ state \in [Requests -> SourceState]
      /\ made.commands \in Nat /\ cli.out \in Nat /\ made.commands < MaxCommands
    BY AuditFields DEF Ask, AuditInv, AuditTypeOK, WireTypeOK, WorkTypeOK
<1>1. PICK r \in Requests : r = made.commands + 1 /\ r \in Nat
    BY <1>0, AuditAssumption DEF Requests
<1>2. PICK n \in Nat : n = cli.out + 1
    BY <1>0
<1>3. PICK k : k = [NoJob EXCEPT !.type = type, !.conv = c, !.source = s]
    OBVIOUS
<1>4. k \in JobState /\ k.pc = "rest" /\ k.type = type /\ k.conv = c /\ k.source = s /\ k.object = 0
    BY <1>3 DEF NoJob, JobState
<1>5. PICK f \in AuditFrame : f = Frame("command", n, r) /\ f.type = "command" /\ f.request = r
    BY <1>1, FrameMade
<1>6. /\ made' = [made EXCEPT !.commands = r] /\ cli' = [cli EXCEPT !.asked = r, !.out = n]
      /\ link' = ToExt(link, f) /\ job' = [job EXCEPT ![r] = k]
    BY <1>1, <1>2, <1>3, <1>5 DEF Ask
<1>7. job[r] = NoJob
    BY <1>0, <1>1 DEF AuditInv, Unasked
<1>8. job' \in [Requests -> JobState] /\ job'[r] = k /\ \A q \in Requests \ {r} : job'[q] = job[q]
    BY <1>0, <1>4, <1>6
<1>9. WireTypeOK' /\ made'.commands = r
    <2>1. link' \in LinkState
        BY <1>0, <1>6, ToExtTyped
    <2>. QED BY <1>0, <1>1, <1>6, <2>1 DEF WireTypeOK, CliState
<1>10. WorkTypeOK'
    BY <1>0, <1>4, <1>8 DEF WorkTypeOK, AuditInv, AuditTypeOK
<1>11. ~Made(r) /\ \A o \in Requests : Made(o) => o # r /\ Made(o)'
    BY <1>7, <1>8 DEF Made, NoJob
<1>12. Queued(link.toExt)'
    <2>1. PICK q : q = link'.toExt /\ q \in {link.toExt, Append(link.toExt, f)}
        BY <1>0, <1>6, ToExtTyped
    <2>2. \A i \in DOMAIN link.toExt : link.toExt[i].type = "command" =>
              /\ link.toExt[i].request \in Requests /\ link.toExt[i].request < r
              /\ job[link.toExt[i].request].pc = "rest"
              /\ job[link.toExt[i].request].type = "chat" => job[link.toExt[i].request].conv \in AuditConvs
        BY <1>0, <1>1 DEF AuditInv, Queued, Requests
    <2>3. \A i \in DOMAIN link.toExt : link.toExt[i].type = "command" =>
              job'[link.toExt[i].request] = job[link.toExt[i].request]
        <3>1. ASSUME NEW p \in Requests, p < r PROVE job'[p] = job[p]
            BY <1>1, <1>8, <3>1 DEF Requests
        <3>. QED BY <2>2, <3>1
    <2>4. ASSUME NEW i \in DOMAIN q, q[i].type = "command"
          PROVE  /\ q[i].request \in Requests /\ q[i].request <= r
                 /\ job'[q[i].request].pc = "rest"
                 /\ job'[q[i].request].type = "chat" => job'[q[i].request].conv \in AuditConvs
        <3>1. (i \in DOMAIN link.toExt /\ q[i] = link.toExt[i]) \/ q[i] = f
            <4>1. CASE q = link.toExt
                BY <4>1
            <4>2. CASE q = Append(link.toExt, f)
                BY <1>0, <2>4, <4>2, AddedFrame
            <4>. QED BY <2>1, <4>1, <4>2
        <3>2. CASE i \in DOMAIN link.toExt /\ q[i] = link.toExt[i]
            BY <1>1, <2>2, <2>3, <2>4, <3>2 DEF Requests
        <3>3. CASE q[i] = f
            BY <1>1, <1>4, <1>5, <1>8, <3>3
        <3>. QED BY <3>1, <3>2, <3>3
    <2>5. ASSUME NEW i \in DOMAIN q, NEW j \in DOMAIN q, i < j, q[i].type = "command", q[j].type = "command"
          PROVE  q[i].request < q[j].request
        <3>1. /\ i \in DOMAIN link.toExt /\ q[i] = link.toExt[i]
              /\ (j \in DOMAIN link.toExt /\ q[j] = link.toExt[j]) \/ q[j] = f
            <4>1. CASE q = link.toExt
                BY <4>1
            <4>2. CASE q = Append(link.toExt, f)
                BY <1>0, <2>5, <4>2, AddedFrame
            <4>. QED BY <2>1, <4>1, <4>2
        <3>2. CASE j \in DOMAIN link.toExt /\ q[j] = link.toExt[j]
            BY <2>5, <3>1, <3>2 DEF AuditInv, Queued
        <3>3. CASE q[j] = f
            BY <1>5, <2>2, <2>5, <3>1, <3>3
        <3>. QED BY <3>1, <3>2, <3>3
    <2>6. /\ \A i \in DOMAIN q : q[i].type = "command" =>
                /\ q[i].request \in Requests /\ q[i].request <= made'.commands
                /\ job'[q[i].request].pc = "rest"
                /\ job'[q[i].request].type = "chat" => job'[q[i].request].conv \in AuditConvs
          /\ \A i, j \in DOMAIN q :
                i < j /\ q[i].type = "command" /\ q[j].type = "command" => q[i].request < q[j].request
        BY <1>9, <2>4, <2>5
    <2>. QED BY <2>1, <2>6 DEF Queued
<1>13. Referred'
    <2>1. ASSUME NEW d \in AuditConvs, NEW o, o = convs'[d], o # 0 PROVE Made(o)'
        BY <1>0, <1>11, <2>1 DEF AuditInv, Referred
    <2>2. ASSUME NEW q \in Requests, NEW o, o = job'[q].object, o # 0 PROVE Made(o)'
        <3>1. o = job[q].object /\ o \in Requests
            BY <1>0, <1>4, <1>8, <2>2 DEF JobState
        <3>. QED BY <1>11, <2>2, <3>1 DEF AuditInv, Referred
    <2>. QED BY <2>1, <2>2 DEF Referred, Made
<1>14. HoldsSource'
    BY <1>0, <1>4, <1>8 DEF AuditInv, HoldsSource
<1>15. TurnsOfSource'
    <2>1. ASSUME NEW o \in Requests, NEW i \in DOMAIN state[o].turns, NEW q, q = state[o].turns[i]
          PROVE  job'[q].source = state[o].source /\ job'[q].pc \in {"answer", "done"}
        <3>1. q \in Requests
            BY <2>1, WorkFields DEF SourceState
        <3>2. job[q].source = state[o].source /\ job[q].pc \in {"answer", "done"}
            BY <2>1 DEF AuditInv, TurnsOfSource
        <3>3. q # r
            BY <1>7, <3>2 DEF NoJob
        <3>. QED BY <1>8, <3>1, <3>2, <3>3
    <2>. QED BY <1>0, <2>1 DEF TurnsOfSource
<1>16. Unasked'
    <2>1. ASSUME NEW q \in Requests, q > r PROVE job'[q] = NoJob
        <3>1. q > made.commands /\ q # r
            BY <1>0, <1>1, <2>1 DEF Requests
        <3>. QED BY <1>8, <3>1 DEF AuditInv, Unasked
    <2>. QED BY <1>9, <2>1 DEF Unasked
<1>. QED BY <1>9, <1>10, <1>12, <1>13, <1>14, <1>15, <1>16 DEF AuditInv, AuditTypeOK

LEMMA AuditBegins ==
    ASSUME AuditInit
    PROVE  AuditInv
<1>1. <<>> \in Seq(AuditFrame) /\ <<>> \in Seq(Requests) /\ NoJob \in JobState
    BY DEF NoJob, JobState
<1>2. WireTypeOK
    BY <1>1 DEF AuditInit, NoLink, WireTypeOK, BridgeState, LinkState, CliState
<1>3. WorkTypeOK
    BY <1>1 DEF AuditInit, WorkTypeOK, SourceState, NoJob
<1>4. Queued(link.toExt)
    BY DEF AuditInit, NoLink, Queued
<1>5. Referred /\ HoldsSource /\ TurnsOfSource /\ Unasked
    BY DEF AuditInit, NoJob, Referred, HoldsSource, TurnsOfSource, Unasked
<1>. QED BY <1>2, <1>3, <1>4, <1>5 DEF AuditInv, AuditTypeOK

LEMMA AuditStep ==
    ASSUME AuditInv, [AuditNext]_auditVars
    PROVE  AuditInv'
<1>1. CASE UNCHANGED auditVars
    <2>1. WireTypeOK'
        BY <1>1 DEF auditVars, AuditInv, AuditTypeOK, WireTypeOK
    <2>. QED BY <1>1, <2>1, QuietStep DEF auditVars
<1>2. ASSUME NEW c \in AuditConvs, NEW s \in SourceRefs \cup {"none"}, Ask("chat", c, s) \/ Ask("clear", c, "none")
      PROVE  AuditInv'
    BY <1>2, AskStep
<1>3. CASE Ask("list", "none", "none")
    BY <1>3, AskStep
<1>4. ASSUME NEW r \in Requests, ChatChecks(r) \/ Bind(r) \/ ChatEnds(r) \/ Answer(r) \/ ChatFails(r)
      PROVE  AuditInv'
    BY <1>4, ChatChecksStep, BindStep, ChatEndsStep, AnswerStep
<1>. QED BY <1>1, <1>2, <1>3, <1>4, ConnectionStep, CliFrameStep, ExtFrameStep, TakeStep DEF AuditNext

LEMMA AuditHolds == AuditSpec => []AuditInv
BY AuditBegins, AuditStep, PTL DEF AuditSpec

\* Every variable of the bridge, of the tool and of the commands has its type (audit-bridge.ts,
\* audit-agent.mjs).
THEOREM AuditTypeCorrect == AuditSpec => []AuditTypeOK
<1>1. AuditInv => AuditTypeOK
    BY DEF AuditInv
<1>. QED BY <1>1, AuditHolds, PTL

\* A conversation's history holds turns about its own source only, for any number of commands, connections,
\* conversations and tabs, whatever is running when it is used again, cleared or forgotten (runChat).
THEOREM HistoryOfOneSource == AuditSpec => []OneSource
<1>1. ASSUME AuditInv PROVE OneSource
    <2>1. ASSUME NEW c \in AuditConvs, convs[c] # 0 PROVE convs[c] \in Requests
        BY <1>1, <2>1 DEF AuditInv, AuditTypeOK, WorkTypeOK
    <2>. QED BY <1>1, <2>1 DEF AuditInv, TurnsOfSource, OneSource
<1>. QED BY <1>1, AuditHolds, PTL

(***************************************************************************)
(* A turn of the chat panel (PanelTurn)                                    *)
(***************************************************************************)

Classes == {"none", "scombz", "sitrus", "syllabus", "cast"}
Messages == {"raw", "transformed", "answer", "grades", "error"}
PanelConversation == [scope : Classes \cup {"mixed"}, eligible : BOOLEAN, said : SUBSET Messages]
PanelTurnState ==
    [pc : {"idle", "capabilities", "preflight", "pin", "transform", "start", "service", "tool", "submit"},
     n : Nat, calls : Nat, dest : {"unknown", "azure", "local"}, server : SUBSET Tools, ready : SUBSET Tools,
     user : {"raw", "transformed"}, current : PanelConversation, copy : PanelConversation,
     tool : Tools \cup {"none"}]
PanelTypeOK ==
    /\ backend \in [kind : {"azure", "local"}, personal : BOOLEAN]
    /\ shownPage \in BOOLEAN /\ panelRefs \in BOOLEAN
    /\ conv \in PanelConversation
    /\ turn \in PanelTurnState
    /\ given \in SUBSET Classes
    /\ answered \in SUBSET Classes
    /\ sent \in [user : {"none", "raw", "transformed"}, history : SUBSET Messages, before : SUBSET Classes]

\* A conversation remembers what was taken from these sources.
Remembers(c, classes) ==
    /\ \A class \in classes : Covers(c.scope, class)
    /\ "sitrus" \in classes => ~c.eligible
\* A conversation the panel may go on with remembers all that was answered from, and one that heard of the
\* grades is never sent again.
Sound(c, classes) ==
    /\ Remembers(c, classes)
    /\ c.scope = "sitrus" => ~c.eligible
    /\ "grades" \in c.said => ~c.eligible

PanelInv ==
    /\ PanelTypeOK
    /\ Sound(conv, answered)
    /\ turn.pc # "idle" => Sound(turn.current, answered) /\ Sound(turn.copy, answered)
    /\ turn.pc \in {"capabilities", "preflight", "pin", "transform", "start"} =>
          /\ given = {}
          /\ turn.current.scope = turn.copy.scope /\ turn.current.eligible = turn.copy.eligible
    /\ turn.pc \in {"service", "tool", "submit"} => Remembers(turn.copy, given)
    /\ ScopeStoredFirst
    /\ PrivateHistoryHeld

LEMMA PanelFields ==
    ASSUME PanelTypeOK
    PROVE  /\ turn.n \in Nat /\ turn.calls \in Nat /\ turn.current \in PanelConversation
           /\ turn.copy \in PanelConversation /\ turn.user \in {"raw", "transformed"}
           /\ turn.tool \in Tools \cup {"none"}
BY DEF PanelTypeOK, PanelTurnState

\* Another message changes neither the scope nor what may be sent.
LEMMA Said ==
    ASSUME NEW c \in PanelConversation, NEW said \in SUBSET Messages
    PROVE  /\ [c EXCEPT !.said = said] \in PanelConversation
           /\ [c EXCEPT !.said = said].scope = c.scope /\ [c EXCEPT !.said = said].eligible = c.eligible
           /\ [c EXCEPT !.said = said].said = said
BY DEF PanelConversation

LEMMA SameMemory ==
    ASSUME NEW c \in PanelConversation, NEW d \in PanelConversation, NEW classes,
           d.scope = c.scope, d.eligible = c.eligible, Sound(c, classes), "grades" \in d.said => "grades" \in c.said
    PROVE  Sound(d, classes)
BY Zenon DEF Sound, Remembers

LEMMA NextScopeIsAClass ==
    ASSUME NEW tool, NEW restricted \in BOOLEAN
    PROVE  NextScope(tool, restricted) \in Classes
BY DEF NextScope, Classes

\* A merge covers what the conversation covered, and the class of the tool.
LEMMA Merged ==
    ASSUME NEW c \in PanelConversation, NEW tool \in Tools \cup {"none"}, NEW restricted \in BOOLEAN,
           c.scope = "sitrus" => ~c.eligible
    PROVE  \E d \in PanelConversation :
              /\ d = MergeProcessingScope(c, tool, restricted) /\ d.said = c.said
              /\ d.scope = "sitrus" => ~d.eligible
              /\ ~c.eligible => ~d.eligible
              /\ \A class \in Classes : Covers(c.scope, class) => Covers(d.scope, class)
              /\ Covers(d.scope, NextScope(tool, restricted))
              /\ NextScope(tool, restricted) = "sitrus" => ~d.eligible
<1>0. PICK d : d = MergeProcessingScope(c, tool, restricted)
    OBVIOUS
<1>1. PICK next \in Classes : next = NextScope(tool, restricted)
    BY NextScopeIsAClass
<1>2. next = "sitrus" <=> tool = "sitrus_read"
    BY <1>1 DEF NextScope, PersonalScombz, LiveScombz
<1>3. CASE next \in {"none", c.scope}
    <2>1. d = c
        BY <1>0, <1>1, <1>3 DEF MergeProcessingScope
    <2>. QED BY <1>0, <1>1, <1>3, <2>1 DEF Covers
<1>4. CASE next \notin {"none", c.scope}
    <2>1. PICK scope \in Classes \cup {"mixed"} : scope = (IF c.scope = "none" THEN next ELSE "mixed")
        OBVIOUS
    <2>2. PICK eligible \in BOOLEAN : eligible = (c.eligible /\ tool # "sitrus_read")
        BY Zenon DEF PanelConversation
    <2>3. d = [c EXCEPT !.scope = scope, !.eligible = eligible]
        BY <1>0, <1>1, <1>4, <2>1, <2>2 DEF MergeProcessingScope
    <2>4. d \in PanelConversation /\ d.said = c.said /\ d.scope = scope /\ d.eligible = eligible
        BY <2>3 DEF PanelConversation
    <2>5. d.scope = "sitrus" => next = "sitrus"
        BY <1>4, <2>1, <2>4 DEF Classes
    <2>6. tool = "sitrus_read" => ~d.eligible
        BY <2>2, <2>4, Zenon
    <2>7. ~c.eligible => ~d.eligible
        BY <2>2, <2>4, Zenon
    <2>8. /\ \A class \in Classes : Covers(c.scope, class) => Covers(d.scope, class)
          /\ Covers(d.scope, next)
        BY <2>1, <2>4 DEF Covers
    <2>. QED BY <1>0, <1>1, <1>2, <2>4, <2>5, <2>6, <2>7, <2>8
<1>. QED BY <1>3, <1>4

\* The turn ends with nothing given: what goes on is the stored conversation.
LEMMA TurnOver ==
    ASSUME PanelInv, turn' = [NoTurn EXCEPT !.n = turn.n], given' = {},
           conv' \in PanelConversation, Sound(conv', answered),
           UNCHANGED <<backend, shownPage, panelRefs, sent, answered>>
    PROVE  PanelInv'
<1>1. NewConversation \in PanelConversation
    BY DEF NewConversation, PanelConversation, Classes
<1>2. turn' \in PanelTurnState /\ turn'.pc = "idle"
    BY <1>1, PanelFields DEF PanelInv, NoTurn, PanelTurnState
<1>3. PanelTypeOK'
    BY <1>2 DEF PanelInv, PanelTypeOK
<1>4. ScopeStoredFirst' /\ PrivateHistoryHeld'
    BY DEF PanelInv, ScopeStoredFirst, PrivateHistoryHeld
<1>. QED BY <1>2, <1>3, <1>4 DEF PanelInv

LEMMA FailsStep ==
    ASSUME PanelInv, TurnFails, turn.pc # "idle"
    PROVE  PanelInv'
<1>1. PICK said \in SUBSET Messages : said = turn.current.said \cup {"error"}
    BY PanelFields DEF PanelInv, PanelConversation, Messages
<1>2. conv' = [turn.current EXCEPT !.said = said]
    BY <1>1 DEF TurnFails
<1>3. /\ conv' \in PanelConversation /\ conv'.scope = turn.current.scope /\ conv'.eligible = turn.current.eligible
      /\ conv'.said = said
    BY <1>2, Said, PanelFields DEF PanelInv
<1>4. Sound(conv', answered)
    BY <1>1, <1>3, SameMemory, PanelFields DEF PanelInv
<1>. QED BY <1>3, <1>4, TurnOver DEF TurnFails

LEMMA SendStep ==
    ASSUME PanelInv, Send
    PROVE  PanelInv'
<1>1. PICK said \in SUBSET Messages : said = conv.said \cup {"raw"}
    BY DEF PanelInv, PanelTypeOK, PanelConversation, Messages
<1>2. PICK c : c = [conv EXCEPT !.said = said]
    OBVIOUS
<1>3. conv \in PanelConversation /\ turn.n \in Nat
    BY PanelFields DEF PanelInv, PanelTypeOK
<1>4. c \in PanelConversation /\ c.scope = conv.scope /\ c.eligible = conv.eligible /\ c.said = said
    BY <1>2, <1>3, Said
<1>5. PICK n \in Nat : n = turn.n + 1
    BY <1>3
<1>6. turn' = [NoTurn EXCEPT !.pc = "capabilities", !.n = n, !.current = c, !.copy = conv]
    BY <1>1, <1>2, <1>5 DEF Send
<1>7. /\ turn' \in PanelTurnState /\ turn'.pc = "capabilities" /\ turn'.current = c /\ turn'.copy = conv
    BY <1>3, <1>4, <1>6 DEF NoTurn, PanelTurnState
<1>8. conv' = c /\ given' = {} /\ UNCHANGED <<backend, shownPage, panelRefs, sent, answered>>
    BY <1>7 DEF Send
<1>9. PanelTypeOK'
    BY <1>4, <1>7, <1>8 DEF PanelInv, PanelTypeOK
<1>10. Sound(c, answered) /\ Sound(conv, answered)
    BY <1>1, <1>3, <1>4, SameMemory DEF PanelInv
<1>11. ScopeStoredFirst' /\ PrivateHistoryHeld'
    BY <1>8 DEF PanelInv, ScopeStoredFirst, PrivateHistoryHeld
<1>. QED BY <1>4, <1>7, <1>8, <1>9, <1>10, <1>11 DEF PanelInv

\* The turn goes on, and what it holds of the conversation stays.
LEMMA GoesOn ==
    ASSUME PanelInv, UNCHANGED <<conv, given, answered>>, PanelTypeOK', PrivateHistoryHeld',
           turn.pc # "idle" \/ turn'.pc = "idle",
           turn'.current = turn.current, turn'.copy = turn.copy,
           turn'.pc \in {"capabilities", "preflight", "pin", "transform", "start"}
             => turn.pc \in {"capabilities", "preflight", "pin", "transform", "start"},
           turn'.pc \in {"service", "tool", "submit"} => turn.pc \in {"service", "tool", "submit"}
    PROVE  PanelInv'
BY DEF PanelInv, ScopeStoredFirst

LEMMA ToolsReady ==
    ASSUME NEW open
    PROVE  AuthPreflight(open) \in SUBSET Tools
BY DEF AuthPreflight, OwnTool, Tools, PersonalScombz, LiveScombz, CastTools

LEMMA BeforeStep ==
    ASSUME PanelInv, ReadCapabilities \/ ReadAuthPreflight \/ PinScombz
    PROVE  PanelInv'
<1>0. turn \in PanelTurnState /\ backend.kind \in {"azure", "local"}
    BY DEF PanelInv, PanelTypeOK
<1>1. CASE PinScombz /\ TurnFails
    BY <1>1, FailsStep DEF PinScombz
<1>2. CASE ~(PinScombz /\ TurnFails)
    <2>1. /\ turn' \in PanelTurnState /\ turn'.current = turn.current /\ turn'.copy = turn.copy
          /\ turn'.pc \in {"preflight", "pin", "transform"}
        <3>1. CASE ReadCapabilities
            <4>1. \A allowed \in BOOLEAN : LiveTools(allowed) \in SUBSET Tools
                BY DEF LiveTools
            <4>. QED BY <1>0, <3>1, <4>1 DEF ReadCapabilities, Goto, PanelTurnState
        <3>2. CASE ReadAuthPreflight
            <4>1. PICK ready \in SUBSET Tools : turn' = [turn EXCEPT !.pc = "pin", !.ready = ready]
                BY <3>2, ToolsReady DEF ReadAuthPreflight
            <4>. QED BY <1>0, <4>1 DEF PanelTurnState
        <3>3. CASE PinScombz
            BY <1>0, <1>2, <3>3 DEF PinScombz, Goto, PanelTurnState
        <3>. QED BY <3>1, <3>2, <3>3
    <2>2. turn.pc \in {"capabilities", "preflight", "pin"} /\ Kept /\ UNCHANGED conv
        <3>1. CASE ReadCapabilities \/ ReadAuthPreflight
            BY <3>1 DEF ReadCapabilities, ReadAuthPreflight
        <3>2. CASE PinScombz
            BY <1>2, <3>2 DEF PinScombz
        <3>. QED BY <3>1, <3>2
    <2>3. PanelTypeOK' /\ PrivateHistoryHeld'
        BY <2>1, <2>2 DEF Kept, PanelInv, PanelTypeOK, PrivateHistoryHeld
    <2>. QED BY <2>1, <2>2, <2>3, GoesOn DEF Kept
<1>. QED BY <1>1, <1>2

LEMMA TransformStep ==
    ASSUME PanelInv, Transform
    PROVE  PanelInv'
<1>0. /\ turn \in PanelTurnState /\ turn.pc = "transform" /\ given = {}
      /\ turn.current \in PanelConversation /\ turn.copy \in PanelConversation
      /\ turn.current.scope = turn.copy.scope /\ turn.current.eligible = turn.copy.eligible
      /\ Sound(turn.copy, answered)
    BY PanelFields DEF Transform, PanelInv, PanelTypeOK
<1>1. CASE TurnFails
    BY <1>0, <1>1, FailsStep
<1>2. CASE ~TurnFails
    <2>1. PICK kind \in {"transformed", "raw"} : kind = (IF turn.dest = "azure" THEN "transformed" ELSE "raw")
        OBVIOUS
    <2>2. PICK said \in SUBSET Messages : said = turn.copy.said \cup {kind}
        BY <1>0 DEF PanelConversation, Messages
    <2>3. PICK c : c = [turn.current EXCEPT !.said = said]
        OBVIOUS
    <2>4. /\ c \in PanelConversation /\ c.scope = turn.current.scope /\ c.eligible = turn.current.eligible
          /\ c.said = said
        BY <1>0, <2>3, Said
    <2>5. /\ conv' = c /\ turn' = [turn EXCEPT !.pc = "start", !.current = c, !.user = kind]
          /\ Kept
        BY <1>2, <2>1, <2>2, <2>3 DEF Transform
    <2>6. turn' \in PanelTurnState /\ turn'.pc = "start" /\ turn'.current = c /\ turn'.copy = turn.copy
        BY <1>0, <2>4, <2>5 DEF PanelTurnState
    <2>7. Sound(c, answered)
        <3>1. "grades" \in c.said => "grades" \in turn.copy.said
            BY <2>1, <2>2, <2>4
        <3>. QED BY <1>0, <2>4, <3>1, SameMemory
    <2>8. PanelTypeOK'
        BY <2>4, <2>5, <2>6 DEF Kept, PanelInv, PanelTypeOK
    <2>9. ScopeStoredFirst' /\ PrivateHistoryHeld'
        BY <1>0, <2>5 DEF Kept, PanelInv, ScopeStoredFirst, PrivateHistoryHeld
    <2>. QED BY <1>0, <2>4, <2>5, <2>6, <2>7, <2>8, <2>9 DEF Kept, PanelInv
<1>. QED BY <1>1, <1>2

\* What is sent is the history of a sound conversation.
LEMMA HistorySent ==
    ASSUME NEW c \in PanelConversation, NEW classes \in SUBSET Classes, Sound(c, classes)
    PROVE  /\ ToChatHistory(c) \in SUBSET Messages
           /\ (\E class \in classes : Private(class)) => ToChatHistory(c) \subseteq {"transformed", "answer"}
           /\ "sitrus" \in classes => ToChatHistory(c) = {}
<1>1. c.said \in SUBSET Messages /\ c.eligible \in BOOLEAN
    BY DEF PanelConversation
<1>2. ToChatHistory(c) \in SUBSET Messages /\ (~c.eligible => ToChatHistory(c) = {})
    BY <1>1 DEF ToChatHistory
<1>3. ASSUME NEW class \in classes, Private(class) PROVE ToChatHistory(c) \subseteq {"transformed", "answer"}
    <2>1. Private(c.scope)
        BY <1>3 DEF Sound, Remembers, Covers, Private
    <2>2. c.eligible => "grades" \notin c.said
        BY Zenon DEF Sound
    <2>. QED BY <1>1, <2>1, <2>2 DEF ToChatHistory
<1>. QED BY <1>2, <1>3 DEF Sound, Remembers

LEMMA StartStep ==
    ASSUME PanelInv, StartChat
    PROVE  PanelInv'
<1>0. /\ turn \in PanelTurnState /\ turn.pc = "start" /\ given = {} /\ turn.user \in {"raw", "transformed"}
      /\ turn.current \in PanelConversation /\ turn.copy \in PanelConversation
      /\ turn.current.scope = turn.copy.scope /\ turn.current.eligible = turn.copy.eligible
      /\ Sound(turn.copy, answered) /\ Sound(turn.current, answered) /\ answered \in SUBSET Classes
    BY PanelFields DEF StartChat, PanelInv, PanelTypeOK
<1>1. PICK c : c = [turn.current EXCEPT !.said = turn.copy.said]
    OBVIOUS
<1>2. c \in PanelConversation /\ Sound(c, answered)
    <2>1. turn.copy.said \in SUBSET Messages
        BY <1>0 DEF PanelConversation
    <2>2. /\ c \in PanelConversation /\ c.scope = turn.copy.scope /\ c.eligible = turn.copy.eligible
          /\ c.said = turn.copy.said
        BY <1>0, <1>1, <2>1, Said
    <2>. QED BY <1>0, <2>2, SameMemory
<1>3. /\ sent' = [user |-> turn.user, before |-> answered, history |-> ToChatHistory(c)]
      /\ turn' = [turn EXCEPT !.pc = "service", !.copy = turn.current]
      /\ UNCHANGED <<backend, shownPage, panelRefs, conv, given, answered>>
    BY <1>1 DEF StartChat
<1>4. turn' \in PanelTurnState /\ turn'.pc = "service" /\ turn'.copy = turn.current /\ turn'.current = turn.current
    BY <1>0, <1>3 DEF PanelTurnState
<1>5. PanelTypeOK' /\ PrivateHistoryHeld'
    BY <1>0, <1>2, <1>3, <1>4, HistorySent DEF PanelInv, PanelTypeOK, PrivateHistoryHeld
<1>6. Remembers(turn'.copy, given')
    BY <1>0, <1>3 DEF Remembers
<1>. QED BY <1>0, <1>3, <1>4, <1>5, <1>6 DEF PanelInv, ScopeStoredFirst

LEMMA ServiceStep ==
    ASSUME PanelInv, ServiceAsks \/ SubmitToolResult
    PROVE  PanelInv'
<1>0. turn \in PanelTurnState /\ turn.calls \in Nat
    BY PanelFields DEF PanelInv, PanelTypeOK
<1>1. /\ turn' \in PanelTurnState /\ turn'.current = turn.current /\ turn'.copy = turn.copy
      /\ turn'.pc \in {"tool", "service"}
    <2>1. CASE ServiceAsks
        <3>1. PICK calls \in Nat : calls = turn.calls + 1
            BY <1>0
        <3>2. PICK tool \in Tools : turn' = [turn EXCEPT !.pc = "tool", !.calls = calls, !.tool = tool]
            BY <2>1, <3>1 DEF ServiceAsks, ClientTools, Advertise
        <3>. QED BY <1>0, <3>2 DEF PanelTurnState
    <2>2. CASE SubmitToolResult
        BY <1>0, <2>2 DEF SubmitToolResult, PanelTurnState
    <2>. QED BY <2>1, <2>2
<1>2. turn.pc \in {"service", "submit"} /\ Kept /\ UNCHANGED conv
    BY DEF ServiceAsks, SubmitToolResult
<1>3. PanelTypeOK' /\ PrivateHistoryHeld'
    BY <1>1, <1>2 DEF Kept, PanelInv, PanelTypeOK, PrivateHistoryHeld
<1>. QED BY <1>1, <1>2, <1>3, GoesOn DEF Kept

\* The scope is merged twice: with what the tool is, and with what it read.
LEMMA ToolStep ==
    ASSUME PanelInv, RunTool
    PROVE  PanelInv'
<1>0. /\ turn \in PanelTurnState /\ turn.pc = "tool" /\ turn.copy \in PanelConversation
      /\ Sound(turn.copy, answered) /\ Remembers(turn.copy, given) /\ turn.tool \in Tools \cup {"none"}
      /\ given \in SUBSET Classes /\ answered \in SUBSET Classes /\ panelRefs \in BOOLEAN
    BY PanelFields DEF RunTool, PanelInv, PanelTypeOK
<1>1. CASE TurnFails
    BY <1>0, <1>1, FailsStep
<1>2. CASE ~TurnFails
    <2>1. PICK owned \in BOOLEAN :
              LET c == MergeProcessingScope(MergeProcessingScope(turn.copy, turn.tool, FALSE), turn.tool, owned)
              IN /\ conv' = c
                 /\ turn' = [turn EXCEPT !.pc = "submit", !.copy = c]
                 /\ given' = given \cup {NextScope(turn.tool, owned)}
                 /\ \E known \in BOOLEAN : panelRefs' = (panelRefs \/ (turn.tool = "syllabus_search" /\ known))
                 /\ UNCHANGED <<backend, shownPage, sent, answered>>
        <3>1. \A status : (status = "known") \in BOOLEAN
            OBVIOUS
        <3>. QED BY <1>2, <3>1 DEF RunTool
    <2>4. PICK next \in Classes : next = NextScope(turn.tool, owned)
        BY NextScopeIsAClass
    <2>5. turn.copy.scope = "sitrus" => ~turn.copy.eligible
        BY <1>0 DEF Sound
    <2>6. PICK b \in PanelConversation :
              /\ b = MergeProcessingScope(turn.copy, turn.tool, FALSE) /\ b.said = turn.copy.said
              /\ b.scope = "sitrus" => ~b.eligible
              /\ ~turn.copy.eligible => ~b.eligible
              /\ \A class \in Classes : Covers(turn.copy.scope, class) => Covers(b.scope, class)
        BY <1>0, <2>5, Merged
    <2>7. PICK c \in PanelConversation :
              /\ c = MergeProcessingScope(b, turn.tool, owned) /\ c.said = b.said
              /\ c.scope = "sitrus" => ~c.eligible
              /\ ~b.eligible => ~c.eligible
              /\ \A class \in Classes : Covers(b.scope, class) => Covers(c.scope, class)
              /\ Covers(c.scope, NextScope(turn.tool, owned))
              /\ NextScope(turn.tool, owned) = "sitrus" => ~c.eligible
        <3>1. turn.tool \in Tools \cup {"none"} /\ (b.scope = "sitrus" => ~b.eligible)
            BY <1>0, <2>6
        <3>. QED BY <3>1, Merged
    <2>8. Sound(c, answered) /\ Remembers(c, given \cup {next})
        BY <1>0, <2>4, <2>6, <2>7 DEF Sound, Remembers
    <2>9. /\ conv' = c /\ turn' = [turn EXCEPT !.pc = "submit", !.copy = c] /\ given' = given \cup {next}
          /\ UNCHANGED <<backend, shownPage, sent, answered>>
        BY <2>1, <2>4, <2>6, <2>7
    <2>10. panelRefs' \in BOOLEAN
        BY <2>1, Zenon
    <2>11. turn' \in PanelTurnState /\ turn'.pc = "submit" /\ turn'.copy = c /\ turn'.current = turn.current
        BY <1>0, <2>7, <2>9 DEF PanelTurnState
    <2>12. PanelTypeOK'
        BY <1>0, <2>4, <2>7, <2>9, <2>10, <2>11 DEF PanelInv, PanelTypeOK
    <2>13. ScopeStoredFirst' /\ PrivateHistoryHeld'
        BY <2>8, <2>9 DEF PanelInv, ScopeStoredFirst, PrivateHistoryHeld, Remembers
    <2>14. Sound(turn.current, answered)
        BY <1>0 DEF PanelInv
    <2>. QED BY <2>8, <2>9, <2>11, <2>12, <2>13, <2>14 DEF PanelInv
<1>. QED BY <1>1, <1>2

\* An answer with the grades is stored in a conversation that is not sent again.
LEMMA FinishStep ==
    ASSUME PanelInv, FinishResponse
    PROVE  PanelInv'
<1>0. /\ turn.copy \in PanelConversation /\ turn.n \in Nat /\ turn.pc = "service"
      /\ Sound(turn.copy, answered) /\ Remembers(turn.copy, given)
      /\ given \in SUBSET Classes /\ answered \in SUBSET Classes
    BY PanelFields DEF FinishResponse, PanelInv, PanelTypeOK
<1>1. PICK kind \in {"grades", "answer"} : kind = (IF "sitrus" \in given THEN "grades" ELSE "answer")
    OBVIOUS
<1>2. PICK said \in SUBSET Messages : said = turn.copy.said \cup {kind}
    BY <1>0 DEF PanelConversation, Messages
<1>3. conv' = [turn.copy EXCEPT !.said = said]
    BY <1>1, <1>2 DEF FinishResponse
<1>4. /\ conv' \in PanelConversation /\ conv'.scope = turn.copy.scope /\ conv'.eligible = turn.copy.eligible
      /\ conv'.said = said
    BY <1>0, <1>3, Said
<1>5. Sound(conv', answered \cup given)
    <2>1. "grades" \in said => ~turn.copy.eligible
        BY <1>0, <1>1, <1>2, Zenon DEF Sound, Remembers
    <2>2. Remembers(conv', answered \cup given)
        BY <1>0, <1>4 DEF Sound, Remembers
    <2>. QED BY <1>0, <1>4, <2>1, <2>2 DEF Sound
<1>6. NewConversation \in PanelConversation
    BY DEF NewConversation, PanelConversation, Classes
<1>7. turn' \in PanelTurnState /\ turn'.pc = "idle"
    BY <1>0, <1>6 DEF FinishResponse, NoTurn, PanelTurnState
<1>8. PanelTypeOK'
    BY <1>0, <1>4, <1>7 DEF FinishResponse, PanelInv, PanelTypeOK
<1>9. ScopeStoredFirst' /\ PrivateHistoryHeld'
    BY <1>5 DEF FinishResponse, Sound, Remembers, PanelInv, ScopeStoredFirst, PrivateHistoryHeld
<1>. QED BY <1>5, <1>7, <1>8, <1>9 DEF FinishResponse, PanelInv

LEMMA PanelBegins ==
    ASSUME PanelInit
    PROVE  PanelInv
<1>1. NewConversation \in PanelConversation
    BY DEF NewConversation, PanelConversation, Classes
<1>2. PanelTypeOK
    BY <1>1 DEF PanelInit, PanelTypeOK, NoTurn, NothingSent, PanelTurnState
<1>3. Sound(conv, answered) /\ turn.pc = "idle"
    BY DEF PanelInit, NewConversation, NoTurn, Sound, Remembers
<1>. QED BY <1>2, <1>3 DEF PanelInit, PanelInv, ScopeStoredFirst, PrivateHistoryHeld, NothingSent

LEMMA PanelStep ==
    ASSUME PanelInv, [PanelNext]_panelVars
    PROVE  PanelInv'
<1>1. CASE UNCHANGED panelVars
    BY <1>1 DEF panelVars, PanelInv, PanelTypeOK, ScopeStoredFirst, PrivateHistoryHeld
<1>2. CASE Stop
    BY <1>2, TurnOver DEF Stop, PanelInv, PanelTypeOK
<1>3. CASE OtherPage \/ Reloads
    BY <1>3 DEF OtherPage, Reloads, PanelInv, PanelTypeOK, ScopeStoredFirst, PrivateHistoryHeld
<1>4. CASE ServiceFails
    BY <1>4, FailsStep DEF ServiceFails
<1>. QED BY <1>1, <1>2, <1>3, <1>4, SendStep, BeforeStep, TransformStep, StartStep, ServiceStep, ToolStep, FinishStep
         DEF PanelNext

LEMMA PanelHolds == PanelSpec => []PanelInv
BY PanelBegins, PanelStep, PTL DEF PanelSpec

\* Every variable of the panel has its type (ChatPanel.tsx).
THEOREM PanelTypeCorrect == PanelSpec => []PanelTypeOK
<1>1. PanelInv => PanelTypeOK
    BY DEF PanelInv
<1>. QED BY <1>1, PanelHolds, PTL

\* However many turns and tool calls there are, whatever the student is signed in to, and wherever a turn
\* fails or is stopped, the service is given a result only once its scope is stored, and a later turn
\* sends no message of a private conversation that has no provider's form (runTool, toChatHistory).
THEOREM ScopeKept == ConnectorsSpec => []ScopeHeld
<1>1. ConnectorsInit => PanelInit
    BY DEF ConnectorsInit, ConnectorsStart
<1>2. [ConnectorsNext]_allVars => [PanelNext]_panelVars
    BY DEF ConnectorsNext, allVars
<1>3. ConnectorsSpec => PanelSpec
    BY <1>1, <1>2, PTL DEF ConnectorsSpec, PanelSpec
<1>4. PanelInv => ScopeHeld
    BY DEF PanelInv, ScopeHeld
<1>. QED BY <1>3, <1>4, PanelHolds, PTL

(***************************************************************************)
(* Lists                                                                   *)
(***************************************************************************)

\* Counting up to n.
LEMMA UpTo ==
    ASSUME NEW n \in Nat, NEW T, 0 \in T, \A i \in 0 .. n : i # 0 /\ i - 1 \in T => i \in T
    PROVE  \A i \in 0 .. n : i \in T
<1> DEFINE Out == {i \in 0 .. n : i \notin T}
<1> SUFFICES ASSUME Out # {} PROVE FALSE
    OBVIOUS
<1>1. IsWellFoundedOn(OpToRel(<, Nat), Nat)
    BY NatLessThanWellFounded
<1>2. PICK m \in Out : \A y \in Out : ~(<<y, m>> \in OpToRel(<, Nat))
    <2>1. Out \subseteq Nat
        OBVIOUS
    <2> HIDE DEF Out
    <2>. QED BY <1>1, <2>1, WFMin
<1>3. m # 0 /\ m - 1 \in 0 .. n
    OBVIOUS
<1>4. m - 1 \notin Out
    <2>1. <<m - 1, m>> \in OpToRel(<, Nat)
        BY <1>3 DEF OpToRel
    <2>. QED BY <1>2, <2>1
<1>5. m - 1 \in T
    BY <1>3, <1>4
<1>. QED BY <1>3, <1>5

\* A sequence, whatever is in it.
IsList(s) == s \in Seq({s[i] : i \in DOMAIN s})
Among(s) == {s[i] : i \in DOMAIN s}

LEMMA ListFacts ==
    ASSUME NEW s, IsList(s)
    PROVE  Len(s) \in Nat /\ DOMAIN s = 1..Len(s) /\ s \in Seq(Among(s))
BY DEF IsList, Among

LEMMA MadeList ==
    ASSUME NEW s, NEW n \in Nat, DOMAIN s = 1..n, s = [i \in DOMAIN s |-> s[i]]
    PROVE  IsList(s) /\ Len(s) = n
<1>1. s \in [1..n -> {s[i] : i \in DOMAIN s}]
    OBVIOUS
<1>2. s \in Seq({s[i] : i \in DOMAIN s})
    BY <1>1
<1>. QED BY <1>2 DEF IsList

\* The recursive function of Chosen, up to n.
IsChosen(f, s, places, n) ==
    f = [i \in 0 .. n |->
            IF i = 0 THEN <<>> ELSE IF i \in places THEN Append(f[i - 1], s[i]) ELSE f[i - 1]]

\* There is one.
LEMMA ChosenRecursion ==
    ASSUME NEW s, NEW places, NEW n \in Nat
    PROVE  \E f : IsChosen(f, s, places, n)
<1> DEFINE T == {k \in 0 .. n : \E f : IsChosen(f, s, places, k)}
<1>1. 0 \in T
    <2> DEFINE f == [i \in 0 .. 0 |-> <<>>]
    <2>1. IsChosen(f, s, places, 0)
        BY DEF IsChosen
    <2>. QED BY <2>1
<1>2. ASSUME NEW k \in 0 .. n, k # 0, k - 1 \in T
      PROVE  k \in T
    <2>1. PICK f : IsChosen(f, s, places, k - 1)
        BY <1>2
    <2> DEFINE g == [i \in 0 .. k |-> IF i \in 0 .. k - 1 THEN f[i]
                                      ELSE IF k \in places THEN Append(f[k - 1], s[k]) ELSE f[k - 1]]
    <2>2. IsChosen(g, s, places, k)
        <3>1. ASSUME NEW i \in 0 .. k, i # 0
              PROVE  g[i - 1] = f[i - 1]
            BY <3>1
        <3>2. ASSUME NEW i \in 0 .. k
              PROVE  g[i] = IF i = 0 THEN <<>>
                            ELSE IF i \in places THEN Append(g[i - 1], s[i]) ELSE g[i - 1]
            <4>1. CASE i \in 0 .. k - 1
                <5>1. f[i] = IF i = 0 THEN <<>>
                             ELSE IF i \in places THEN Append(f[i - 1], s[i]) ELSE f[i - 1]
                    BY <2>1, <4>1 DEF IsChosen
                <5>. QED BY <3>1, <4>1, <5>1
            <4>2. CASE i = k
                BY <1>2, <3>1, <4>2
            <4>. QED BY <4>1, <4>2
        <3> HIDE DEF g
        <3>3. g = [i \in 0 .. k |-> g[i]]
            BY DEF g
        <3>. QED BY <3>2, <3>3 DEF IsChosen
    <2>. QED BY <2>2
<1>3. \A k \in 0 .. n : k \in T
    <2> HIDE DEF T
    <2>. QED BY <1>1, <1>2, UpTo
<1>4. n \in T
    <2> HIDE DEF T
    <2>. QED BY <1>3
<1>. QED BY <1>4

\* h says where in s the elements of a choice are: in order, and all of the places.
Places(h, s, places, c, n) ==
    /\ h \in [DOMAIN c -> (1..n) \cap places]
    /\ \A k \in DOMAIN c : c[k] = s[h[k]]
    /\ \A k, l \in DOMAIN c : k < l => h[k] < h[l]
    /\ \A i \in (1..n) \cap places : \E k \in DOMAIN c : h[k] = i

LEMMA ChosenFacts ==
    ASSUME NEW s, IsList(s), NEW places
    PROVE  /\ Chosen(s, places) \in Seq(Among(s))
           /\ IsList(Chosen(s, places))
           /\ \E h : Places(h, s, places, Chosen(s, places), Len(s))
<1>0. Len(s) \in Nat /\ DOMAIN s = 1..Len(s)
    BY ListFacts
<1>1. PICK f : IsChosen(f, s, places, Len(s)) /\ Chosen(s, places) = f[Len(s)]
    <2>1. \E f : IsChosen(f, s, places, Len(s))
        BY <1>0, ChosenRecursion
    <2>2. Chosen(s, places) = (CHOOSE f : IsChosen(f, s, places, Len(s)))[Len(s)]
        BY Zenon DEF Chosen, IsChosen
    <2>. QED BY <2>1, <2>2
<1>2. f[0] = <<>>
    BY <1>0, <1>1 DEF IsChosen
<1>3. ASSUME NEW i \in 0 .. Len(s), i # 0
      PROVE  f[i] = IF i \in places THEN Append(f[i - 1], s[i]) ELSE f[i - 1]
    BY <1>1, <1>3 DEF IsChosen
<1> DEFINE Good(i) == f[i] \in Seq(Among(s)) /\ \E h : Places(h, s, places, f[i], i)
           T == {i \in 0 .. Len(s) : Good(i)}
<1>4. 0 \in T
    <2> DEFINE h == [k \in {} |-> 0]
    <2>1. f[0] \in Seq(Among(s)) /\ DOMAIN f[0] = {} /\ 0 \in 0..Len(s) /\ 1..0 = {}
        BY <1>0, <1>2
    <2>2. Places(h, s, places, f[0], 0)
        BY <2>1 DEF Places
    <2>. QED BY <2>1, <2>2
<1>5. ASSUME NEW i \in 0 .. Len(s), i # 0, i - 1 \in T
      PROVE  i \in T
    <2>1. Good(i - 1) /\ i \in 1..Len(s) /\ i - 1 \in Nat
        BY <1>0, <1>5
    <2>2. PICK h : Places(h, s, places, f[i - 1], i - 1)
        BY <2>1
    <2>3. CASE i \notin places
        <3>1. f[i] = f[i - 1]
            BY <1>3, <1>5, <2>3
        <3>2. (1..i) \cap places = (1..(i - 1)) \cap places
            BY <2>1, <2>3
        <3>3. Places(h, s, places, f[i], i)
            BY <2>2, <3>1, <3>2 DEF Places
        <3>. QED BY <2>1, <3>1, <3>3
    <2>4. CASE i \in places
        <3> DEFINE n == Len(f[i - 1])
                   g == [k \in 1 .. n + 1 |-> IF k = n + 1 THEN i ELSE h[k]]
        <3>0. n \in Nat /\ DOMAIN f[i - 1] = 1 .. n /\ s[i] \in Among(s)
            BY <1>0, <2>1 DEF Among
        <3>1. f[i] = Append(f[i - 1], s[i])
            BY <1>3, <1>5, <2>4
        <3>2. /\ f[i] \in Seq(Among(s)) /\ DOMAIN f[i] = 1 .. n + 1
              /\ \A k \in 1 .. n : f[i][k] = f[i - 1][k]
              /\ f[i][n + 1] = s[i]
            BY <2>1, <3>0, <3>1
        <3> HIDE DEF n
        <3>3. /\ \A k \in 1 .. n : h[k] \in (1 .. i - 1) \cap places /\ f[i - 1][k] = s[h[k]]
              /\ \A k, l \in 1 .. n : k < l => h[k] < h[l]
              /\ \A j \in (1 .. i - 1) \cap places : \E k \in 1 .. n : h[k] = j
            BY <2>2, <3>0 DEF Places
        <3>4. g \in [1 .. n + 1 -> (1 .. i) \cap places]
            BY <2>1, <2>4, <3>0, <3>3
        <3>5. \A k \in 1 .. n + 1 : f[i][k] = s[g[k]]
            BY <3>0, <3>2, <3>3
        <3>6. \A k, l \in 1 .. n + 1 : k < l => g[k] < g[l]
            BY <2>1, <3>0, <3>3
        <3>7. \A j \in (1 .. i) \cap places : \E k \in 1 .. n + 1 : g[k] = j
            <4>. TAKE j \in (1 .. i) \cap places
            <4>1. CASE j = i
                BY <3>0, <4>1
            <4>2. CASE j # i
                <5>1. PICK k \in 1 .. n : h[k] = j
                    BY <2>1, <3>3, <4>2
                <5>2. k \in 1 .. n + 1 /\ k # n + 1
                    BY <3>0
                <5>. QED BY <5>1, <5>2
            <4>. QED BY <4>1, <4>2
        <3>8. Places(g, s, places, f[i], i)
            <4> HIDE DEF g
            <4>. QED BY <3>2, <3>4, <3>5, <3>6, <3>7 DEF Places
        <3>. QED BY <3>2, <3>8
    <2>. QED BY <2>3, <2>4
<1>6. Good(Len(s))
    <2>1. \A i \in 0..Len(s) : i \in T
        <3> HIDE DEF T
        <3>. QED BY <1>0, <1>4, <1>5, UpTo
    <2>. QED BY <1>0, <2>1
<1>7. Chosen(s, places) \in Seq(Among(s)) /\ \E h : Places(h, s, places, Chosen(s, places), Len(s))
    BY <1>1, <1>6
<1>. QED BY <1>7 DEF IsList

\* What a choice has: it is no longer than s, and what is chosen of s is in it and nothing else.
LEMMA ChosenHas ==
    ASSUME NEW s, IsList(s), NEW places
    PROVE  LET c == Chosen(s, places)
           IN /\ IsList(c) /\ Len(c) \in Nat /\ DOMAIN c = 1..Len(c) /\ Len(c) <= Len(s)
              /\ \A k \in 1..Len(c) : \E i \in (1..Len(s)) \cap places : c[k] = s[i]
              /\ \A i \in (1..Len(s)) \cap places : \E k \in 1..Len(c) : c[k] = s[i]
              /\ Among(c) = {s[i] : i \in places \cap DOMAIN s}
<1> DEFINE c == Chosen(s, places)
<1>1. IsList(c) /\ \E h : Places(h, s, places, c, Len(s))
    BY ChosenFacts
<1> HIDE DEF c
<1>2. PICK h : Places(h, s, places, c, Len(s))
    BY <1>1
<1>3. Len(c) \in Nat /\ DOMAIN c = 1..Len(c) /\ Len(s) \in Nat
    BY <1>1, ListFacts
<1>4. /\ h \in [1..Len(c) -> (1..Len(s)) \cap places]
      /\ \A k \in 1..Len(c) : c[k] = s[h[k]]
      /\ \A k, l \in 1..Len(c) : k < l => h[k] < h[l]
      /\ \A i \in (1..Len(s)) \cap places : \E k \in 1..Len(c) : h[k] = i
    BY <1>2, <1>3 DEF Places
<1> DEFINE T == {k \in 0..Len(c) : k # 0 => h[k] >= k}
<1>5. ASSUME NEW k \in 0..Len(c), k # 0, k - 1 \in T
      PROVE  k \in T
    <2>1. k \in 1..Len(c) /\ h[k] \in 1..Len(s)
        BY <1>3, <1>4, <1>5
    <2>2. CASE k = 1
        BY <1>3, <2>1, <2>2
    <2>3. CASE k # 1
        <3>1. k - 1 \in 1..Len(c) /\ k - 1 < k
            BY <1>3, <2>1, <2>3
        <3>2. h[k - 1] < h[k] /\ h[k - 1] \in 1..Len(s) /\ h[k - 1] >= k - 1
            BY <1>4, <1>5, <2>1, <3>1
        <3>. QED BY <1>3, <2>1, <3>2
    <2>. QED BY <2>2, <2>3
<1>6. \A k \in 0..Len(c) : k \in T
    <2>1. 0 \in T
        BY <1>3
    <2> HIDE DEF T
    <2>. QED BY <1>3, <1>5, <2>1, UpTo
<1>7. Len(c) <= Len(s)
    <2>1. CASE Len(c) = 0
        BY <1>3, <2>1
    <2>2. CASE Len(c) # 0
        <3>1. Len(c) \in 1..Len(c) /\ Len(c) \in T
            BY <1>3, <1>6, <2>2
        <3>2. h[Len(c)] >= Len(c) /\ h[Len(c)] \in 1..Len(s)
            BY <1>4, <2>2, <3>1
        <3>. QED BY <1>3, <3>2
    <2>. QED BY <2>1, <2>2
<1>8. \A k \in 1..Len(c) : \E i \in (1..Len(s)) \cap places : c[k] = s[i]
    BY <1>4
<1>9. \A i \in (1..Len(s)) \cap places : \E k \in 1..Len(c) : c[k] = s[i]
    BY <1>4
<1>10. Among(c) = {s[i] : i \in places \cap DOMAIN s}
    <2>1. DOMAIN s = 1..Len(s)
        BY ListFacts
    <2>2. \A v \in Among(c) : v \in {s[i] : i \in places \cap DOMAIN s}
        BY <1>3, <1>8, <2>1 DEF Among
    <2>3. ASSUME NEW i \in places \cap DOMAIN s
          PROVE  s[i] \in Among(c)
        BY <1>3, <1>9, <2>1 DEF Among
    <2>. QED BY <2>2, <2>3
<1>. QED BY <1>1, <1>3, <1>7, <1>8, <1>9, <1>10 DEF c

\* Of every element one stays.
LEMMA OnceHas ==
    ASSUME NEW s, IsList(s)
    PROVE  LET o == Once(s)
           IN IsList(o) /\ Len(o) \in Nat /\ DOMAIN o = 1..Len(o) /\ Len(o) <= Len(s) /\ Among(o) = Among(s)
<1> DEFINE places == {i \in DOMAIN s : \A j \in 1 .. (i - 1) : s[j] # s[i]}
           o == Chosen(s, places)
<1>1. Once(s) = o
    BY DEF Once
<1>2. Len(s) \in Nat /\ DOMAIN s = 1..Len(s)
    BY ListFacts
<1>3. \A i \in 1..Len(s) : \E j \in (1..Len(s)) \cap places : s[j] = s[i]
    <2>. TAKE i \in 1..Len(s)
    <2> DEFINE Alike == {j \in 1..Len(s) : s[j] = s[i]}
    <2>1. Alike \subseteq Nat /\ Alike # {}
        BY <1>2
    <2>2. PICK m \in Alike : \A y \in Alike : ~(<<y, m>> \in OpToRel(<, Nat))
        <3> HIDE DEF Alike
        <3>. QED BY <2>1, NatLessThanWellFounded, WFMin
    <2>3. \A j \in 1..(m - 1) : s[j] # s[m]
        <3>. TAKE j \in 1..(m - 1)
        <3>1. j \in 1..Len(s) /\ <<j, m>> \in OpToRel(<, Nat)
            BY <1>2, <2>1 DEF OpToRel
        <3>2. j \notin Alike
            BY <2>2, <3>1
        <3>. QED BY <3>1, <3>2
    <2>. QED BY <1>2, <2>3
<1>4. /\ IsList(o) /\ Len(o) \in Nat /\ DOMAIN o = 1..Len(o) /\ Len(o) <= Len(s)
      /\ \A k \in 1..Len(o) : \E i \in (1..Len(s)) \cap places : o[k] = s[i]
      /\ \A i \in (1..Len(s)) \cap places : \E k \in 1..Len(o) : o[k] = s[i]
    <2> HIDE DEF places
    <2>. QED BY ChosenHas
<1>5. Among(o) = Among(s)
    <2> HIDE DEF places, o
    <2>1. ASSUME NEW v \in Among(o)
          PROVE  v \in Among(s)
        <3>1. PICK k \in 1..Len(o) : o[k] = v
            BY <1>4, <2>1 DEF Among
        <3>2. PICK i \in (1..Len(s)) \cap places : o[k] = s[i]
            BY <1>4
        <3>. QED BY <1>2, <3>1, <3>2 DEF Among
    <2>2. ASSUME NEW v \in Among(s)
          PROVE  v \in Among(o)
        <3>1. PICK i \in 1..Len(s) : s[i] = v
            BY <1>2 DEF Among
        <3>2. PICK j \in (1..Len(s)) \cap places : s[j] = v
            BY <1>3, <3>1
        <3>3. PICK k \in 1..Len(o) : o[k] = v
            BY <1>4, <3>2
        <3>. QED BY <1>4, <3>3 DEF Among
    <2>. QED BY <2>1, <2>2
<1> HIDE DEF o, places
<1>. QED BY <1>1, <1>4, <1>5

\* The smaller of two numbers.
LEMMA Smaller ==
    ASSUME NEW l \in Nat, NEW n \in Nat, NEW m, m = IF l < n THEN l ELSE n
    PROVE  m \in Nat /\ m <= l /\ m <= n /\ (l <= n => m = l) /\ (n <= l => m = n)
<1>1. CASE l < n
    BY <1>1
<1>2. CASE ~(l < n)
    BY <1>2
<1>. QED BY <1>1, <1>2

LEMMA FirstHas ==
    ASSUME NEW s, IsList(s), NEW n \in Nat
    PROVE  LET f == First(s, n)
           IN /\ IsList(f) /\ Len(f) \in Nat /\ DOMAIN f = 1..Len(f)
              /\ Len(f) <= n /\ Len(f) <= Len(s) /\ (Len(s) <= n => Len(f) = Len(s)) /\ (n <= Len(s) => Len(f) = n)
              /\ \A i \in 1..Len(f) : f[i] = s[i]
              /\ Among(f) \subseteq Among(s) /\ (Len(s) <= n => Among(f) = Among(s)) /\ (n # 0 /\ Among(s) # {} => Among(f) # {})
<1> DEFINE l == Len(s)
           m == IF l < n THEN l ELSE n
           f == SubSeq(s, 1, m)
<1>1. l \in Nat /\ DOMAIN s = 1..l /\ s \in Seq(Among(s)) /\ s \in [1..l -> Among(s)]
    BY ListFacts
<1>2. First(s, n) = f
    BY DEF First
<1> HIDE DEF l
<1>3. m \in Nat /\ m <= l /\ m <= n /\ (l <= n => m = l) /\ (n <= l => m = n)
    BY <1>1, Smaller
<1> HIDE DEF m
<1>4. \A i \in 1..m : i \in 1..l
    BY <1>1, <1>3
<1>5. \A i \in 1..m : s[i] \in Among(s)
    BY <1>1, <1>4
<1>6. /\ f \in Seq(Among(s)) /\ Len(f) = (IF 1 <= m THEN m - 1 + 1 ELSE 0)
      /\ \A i \in 1..m - 1 + 1 : f[i] = s[1 + i - 1]
    BY <1>3, <1>5, SubSeqProperties
<1> HIDE DEF f
<1>7. Len(f) = m /\ DOMAIN f = 1..m
    BY <1>3, <1>6
<1>8. \A i \in 1..m : f[i] = s[i]
    <2>. TAKE i \in 1..m
    <2>1. i \in 1..m - 1 + 1 /\ 1 + i - 1 = i
        BY <1>3
    <2>. QED BY <1>6, <2>1
<1>9. IsList(f)
    <2>1. f = [i \in DOMAIN f |-> f[i]]
        BY <1>6
    <2>. QED BY <1>3, <1>7, <2>1, MadeList
<1>10. Among(f) \subseteq Among(s)
    BY <1>1, <1>4, <1>7, <1>8 DEF Among
<1>11. ASSUME l <= n
       PROVE  Among(f) = Among(s)
    <2>1. m = l
        BY <1>3, <1>11
    <2>. QED BY <1>1, <1>7, <1>8, <2>1 DEF Among
<1>12. ASSUME n # 0, Among(s) # {}
       PROVE  Among(f) # {}
    <2>1. PICK k \in 1..l : TRUE
        BY <1>1, <1>12 DEF Among
    <2>2. 1 \in 1..m
        BY <1>1, <1>3, <1>12, <2>1
    <2>. QED BY <1>7, <2>2 DEF Among
<1>. QED BY <1>2, <1>3, <1>7, <1>8, <1>9, <1>10, <1>11, <1>12 DEF l

LEMMA ListOfAny ==
    ASSUME NEW U, NEW s \in Seq(U)
    PROVE  IsList(s) /\ Len(s) \in Nat /\ DOMAIN s = 1..Len(s) /\ Among(s) \subseteq U
<1>1. Len(s) \in Nat /\ DOMAIN s = 1..Len(s) /\ s = [i \in DOMAIN s |-> s[i]]
    OBVIOUS
<1>. QED BY <1>1, MadeList DEF Among

LEMMA EmptyList ==
    ASSUME NEW s, IsList(s)
    PROVE  s = <<>> <=> Len(s) = 0
BY ListFacts

LEMMA NoneList ==
    IsList(<<>>) /\ Among(<<>>) = {}
<1>1. <<>> \in Seq({}) /\ DOMAIN <<>> = {}
    OBVIOUS
<1>2. IsList(<<>>)
    BY <1>1, ListOfAny
<1>. QED BY <1>1, <1>2 DEF Among

LEMMA OneList ==
    ASSUME NEW a
    PROVE  IsList(<<a>>) /\ Among(<<a>>) = {a}
<1>1. <<a>> \in Seq({a}) /\ DOMAIN <<a>> = {1}
    OBVIOUS
<1>2. IsList(<<a>>)
    BY <1>1, ListOfAny
<1>. QED BY <1>1, <1>2 DEF Among

LEMMA TwoList ==
    ASSUME NEW a, NEW b
    PROVE  IsList(<<a, b>>) /\ Among(<<a, b>>) = {a, b}
<1>1. <<a, b>> \in Seq({a, b}) /\ DOMAIN <<a, b>> = {1, 2}
    OBVIOUS
<1>2. IsList(<<a, b>>)
    BY <1>1, ListOfAny
<1>. QED BY <1>1, <1>2 DEF Among

LEMMA ThreeList ==
    ASSUME NEW a, NEW b, NEW c
    PROVE  IsList(<<a, b, c>>) /\ Among(<<a, b, c>>) = {a, b, c}
<1>1. <<a, b, c>> \in Seq({a, b, c}) /\ DOMAIN <<a, b, c>> = {1, 2, 3}
    OBVIOUS
<1>2. IsList(<<a, b, c>>)
    BY <1>1, ListOfAny
<1>. QED BY <1>1, <1>2 DEF Among

LEMMA FourList ==
    ASSUME NEW a, NEW b, NEW c, NEW d
    PROVE  IsList(<<a, b, c, d>>)
<1>1. <<a, b, c, d>> \in Seq({a, b, c, d})
    OBVIOUS
<1>. QED BY <1>1, ListOfAny

LEMMA FiveList ==
    ASSUME NEW a, NEW b, NEW c, NEW d, NEW e
    PROVE  IsList(<<a, b, c, d, e>>) /\ Among(<<a, b, c, d, e>>) = {a, b, c, d, e}
<1>1. <<a, b, c, d, e>> \in Seq({a, b, c, d, e}) /\ DOMAIN <<a, b, c, d, e>> = {1, 2, 3, 4, 5}
    OBVIOUS
<1>2. IsList(<<a, b, c, d, e>>)
    BY <1>1, ListOfAny
<1>. QED BY <1>1, <1>2 DEF Among

\* A list is empty when nothing is in it.
LEMMA NothingIn ==
    ASSUME NEW s, IsList(s)
    PROVE  Among(s) = {} <=> Len(s) = 0
<1> DEFINE l == Len(s)
<1>1. l \in Nat /\ DOMAIN s = 1..l
    BY ListFacts
<1> HIDE DEF l
<1>2. l = 0 <=> 1..l = {}
    BY <1>1
<1>3. Among(s) = {} <=> l = 0
    BY <1>1, <1>2 DEF Among
<1>. QED BY <1>3 DEF l

\* What is answers of each entry of a list.
LEMMA MappedList ==
    ASSUME NEW s, IsList(s), NEW t, DOMAIN t = DOMAIN s, t = [i \in DOMAIN t |-> t[i]]
    PROVE  IsList(t) /\ Len(t) = Len(s) /\ Len(t) \in Nat /\ DOMAIN t = 1..Len(t)
<1>1. Len(s) \in Nat /\ DOMAIN s = 1..Len(s)
    BY ListFacts
<1>2. IsList(t) /\ Len(t) = Len(s)
    BY <1>1, MadeList
<1>. QED BY <1>1, <1>2

LEMMA JoinedList ==
    ASSUME NEW s, NEW t, IsList(s), IsList(t)
    PROVE  IsList(s \o t)
<1> DEFINE U == Among(s) \union Among(t)
<1>1. s \in Seq(Among(s)) /\ t \in Seq(Among(t)) /\ Among(s) \subseteq U /\ Among(t) \subseteq U
    BY ListFacts
<1> HIDE DEF U
<1>2. s \in Seq(U) /\ t \in Seq(U)
    BY <1>1
<1>3. s \o t \in Seq(U)
    BY <1>2, ConcatProperties
<1>. QED BY <1>3, ListOfAny

\* The recursive function of FlattenSeq, up to n.
IsFlat(f, seqs, n) == f = [i \in 1..n |-> IF i = 1 THEN seqs[i] ELSE f[i - 1] \o seqs[i]]

LEMMA FlatRecursion ==
    ASSUME NEW seqs, NEW n \in Nat
    PROVE  \E f : IsFlat(f, seqs, n)
<1> DEFINE T == {k \in 0 .. n : \E f : IsFlat(f, seqs, k)}
<1>1. 0 \in T
    <2> DEFINE f == [i \in 1 .. 0 |-> <<>>]
    <2>1. IsFlat(f, seqs, 0)
        BY DEF IsFlat
    <2>. QED BY <2>1
<1>2. ASSUME NEW k \in 0 .. n, k # 0, k - 1 \in T
      PROVE  k \in T
    <2>1. PICK f : IsFlat(f, seqs, k - 1)
        BY <1>2
    <2> DEFINE g == [i \in 1 .. k |-> IF i \in 1 .. k - 1 THEN f[i]
                                      ELSE IF k = 1 THEN seqs[k] ELSE f[k - 1] \o seqs[k]]
    <2>2. IsFlat(g, seqs, k)
        <3>1. ASSUME NEW i \in 1 .. k, i # 1
              PROVE  g[i - 1] = f[i - 1]
            BY <3>1
        <3>2. ASSUME NEW i \in 1 .. k
              PROVE  g[i] = IF i = 1 THEN seqs[i] ELSE g[i - 1] \o seqs[i]
            <4>1. CASE i \in 1 .. k - 1
                <5>1. f[i] = IF i = 1 THEN seqs[i] ELSE f[i - 1] \o seqs[i]
                    BY <2>1, <4>1 DEF IsFlat
                <5>. QED BY <3>1, <4>1, <5>1
            <4>2. CASE i = k
                BY <1>2, <3>1, <4>2
            <4>. QED BY <4>1, <4>2
        <3> HIDE DEF g
        <3>3. g = [i \in 1 .. k |-> g[i]]
            BY DEF g
        <3>. QED BY <3>2, <3>3 DEF IsFlat
    <2>. QED BY <2>2
<1>3. \A k \in 0 .. n : k \in T
    <2> HIDE DEF T
    <2>. QED BY <1>1, <1>2, UpTo
<1>4. n \in T
    <2> HIDE DEF T
    <2>. QED BY <1>3
<1>. QED BY <1>4

\* Lists one after the other are a list.
LEMMA FlatIsList ==
    ASSUME NEW seqs, IsList(seqs), \A i \in DOMAIN seqs : IsList(seqs[i])
    PROVE  IsList(Catalogue!FlattenSeq(seqs))
<1> DEFINE n == Len(seqs)
           U == UNION {Among(seqs[i]) : i \in 1..n}
<1>1. n \in Nat /\ DOMAIN seqs = 1..n
    BY ListFacts
<1>2. CASE n = 0
    BY <1>2 DEF Catalogue!FlattenSeq
<1>3. CASE n # 0
    <2>1. PICK f : IsFlat(f, seqs, n) /\ Catalogue!FlattenSeq(seqs) = f[n]
        <3>1. \E f : IsFlat(f, seqs, n)
            BY <1>1, FlatRecursion
        <3>2. Catalogue!FlattenSeq(seqs) = (CHOOSE f : IsFlat(f, seqs, n))[n]
            BY <1>3, Zenon DEF Catalogue!FlattenSeq, IsFlat
        <3>. QED BY <3>1, <3>2
    <2>2. ASSUME NEW i \in 1..n
          PROVE  f[i] = IF i = 1 THEN seqs[i] ELSE f[i - 1] \o seqs[i]
        BY <2>1 DEF IsFlat
    <2>3. ASSUME NEW i \in 1..n
          PROVE  seqs[i] \in Seq(U)
        <3>1. seqs[i] \in Seq(Among(seqs[i])) /\ Among(seqs[i]) \subseteq U
            BY <1>1, ListFacts
        <3> HIDE DEF U
        <3>. QED BY <3>1
    <2> DEFINE T == {k \in 0..n : k # 0 => f[k] \in Seq(U)}
    <2>4. ASSUME NEW k \in 0..n, k # 0, k - 1 \in T
          PROVE  k \in T
        <3>1. k \in 1..n
            BY <1>1, <2>4
        <3>2. CASE k = 1
            BY <2>2, <2>3, <3>1, <3>2
        <3>3. CASE k # 1
            <4>1. k - 1 # 0 /\ f[k - 1] \in Seq(U)
                BY <2>4, <3>1, <3>3
            <4>2. f[k] = f[k - 1] \o seqs[k]
                BY <2>2, <3>1, <3>3
            <4> HIDE DEF U
            <4>3. f[k] \in Seq(U)
                BY <2>3, <3>1, <4>1, <4>2, ConcatProperties
            <4>. QED BY <4>3
        <3>. QED BY <3>2, <3>3
    <2>5. \A k \in 0..n : k \in T
        <3>1. 0 \in T
            BY <1>1
        <3> HIDE DEF T, n
        <3>. QED BY <1>1, <2>4, <3>1, UpTo
    <2>6. f[n] \in Seq(U)
        <3>1. n \in 0..n
            BY <1>1
        <3>2. n \in T
            BY <2>5, <3>1
        <3>. QED BY <1>3, <3>2
    <2> HIDE DEF U
    <2>. QED BY <2>1, <2>6, ListOfAny
<1>. QED BY <1>2, <1>3

(***************************************************************************)
(* The pages of the catalogue (CatalogPages)                               *)
(***************************************************************************)

LEMMA NoMoreThan ==
    ASSUME NEW l \in Nat, NEW m \in Nat, NEW n \in Nat, l <= m, m <= n
    PROVE  l <= n /\ l \in 0..n
OBVIOUS

LEMMA UpToTwo ==
    /\ \A l \in Nat : l <= 2 => l \in 0..2
    /\ \A l \in 0..2 : l <= 4 /\ (l # 0 => l \in 1..2)
OBVIOUS

LEMMA ShortEnough ==
    ASSUME NEW l \in Nat, NEW n \in 1..2, l <= n
    PROVE  l <= 2
OBVIOUS

LEMMA OnlyOne ==
    ASSUME NEW l \in Nat, l # 0, l <= 1
    PROVE  l = 1
OBVIOUS

\* What the visible, filled cells say.
SaidBy(cells) == {Catalogue!Holding(cells[i]) : i \in {j \in DOMAIN cells : Catalogue!Speaks(cells[j])}}

LEMMA ParsedHas ==
    ASSUME NEW cells, IsList(cells)
    PROVE  /\ IsList(Catalogue!Parsed(cells))
           /\ Len(Catalogue!Parsed(cells)) \in 0..2
           /\ Among(Catalogue!Parsed(cells)) \subseteq SaidBy(cells)
           /\ SaidBy(cells) # {} => Len(Catalogue!Parsed(cells)) # 0
           /\ Len(cells) <= 2 => Among(Catalogue!Parsed(cells)) = SaidBy(cells)
<1> DEFINE places == {i \in DOMAIN cells : Catalogue!Speaks(cells[i])}
           speaking == Chosen(cells, places)
           held == [i \in DOMAIN speaking |-> Catalogue!Holding(speaking[i])]
           kept == First(held, 2)
<1>1. Catalogue!Parsed(cells) = Once(kept)
    BY DEF Catalogue!Parsed, Catalogue!Once, Catalogue!First, Catalogue!Chosen, Once, First, Chosen
<1>2. /\ IsList(speaking) /\ Len(speaking) \in Nat /\ Len(speaking) <= Len(cells)
      /\ Among(speaking) = {cells[i] : i \in places \cap DOMAIN cells}
    <2> HIDE DEF places
    <2>. QED BY ChosenHas
<1>3. IsList(held) /\ Len(held) = Len(speaking)
    <2> HIDE DEF speaking
    <2>1. DOMAIN held = DOMAIN speaking /\ held = [i \in DOMAIN held |-> held[i]]
        OBVIOUS
    <2> HIDE DEF held
    <2>. QED BY <1>2, <2>1, MappedList
<1>4. Among(held) = SaidBy(cells)
    <2>1. SaidBy(cells) = {Catalogue!Holding(c) : c \in {cells[i] : i \in places \cap DOMAIN cells}}
        BY DEF SaidBy
    <2>2. Among(held) = {Catalogue!Holding(c) : c \in Among(speaking)}
        <3> HIDE DEF speaking
        <3>. QED BY DEF Among
    <2> HIDE DEF held, speaking, places
    <2>. QED BY <1>2, <2>1, <2>2
<1>5. /\ IsList(kept) /\ Len(kept) \in Nat /\ Len(kept) <= 2
      /\ Among(kept) \subseteq Among(held) /\ (Len(held) <= 2 => Among(kept) = Among(held)) /\ (Among(held) # {} => Among(kept) # {})
    <2> HIDE DEF held
    <2>. QED BY <1>3, FirstHas
<1> HIDE DEF kept, held, speaking, places
<1>6. /\ IsList(Once(kept)) /\ Len(Once(kept)) \in Nat /\ Len(Once(kept)) <= Len(kept) /\ Among(Once(kept)) = Among(kept)
    BY <1>5, OnceHas
<1>7. Len(Once(kept)) \in 0..2
    BY <1>5, <1>6, NoMoreThan
<1>8. SaidBy(cells) # {} => Len(Once(kept)) # 0
    BY <1>4, <1>5, <1>6, NothingIn
<1>9. Len(cells) <= 2 => Among(Once(kept)) = SaidBy(cells)
    <2>1. Len(cells) <= 2 => Len(speaking) <= 2
        BY <1>2, ListFacts, NoMoreThan
    <2>. QED BY <1>3, <1>4, <1>5, <1>6, <2>1
<1>. QED BY <1>1, <1>4, <1>5, <1>6, <1>7, <1>8, <1>9

\* A page has lists of rows, and each row a list of cells and a publisher.
IsRow(row) == IsList(row.cells) /\ row.publisher \in Nat
IsPage(p) ==
    /\ IsList(p.rows) /\ IsList(p.links) /\ IsList(p.detail) /\ p.publisher \in Nat
    /\ \A row \in Among(p.rows) \union Among(p.links) : IsRow(row)

LEMMA ListIsPage ==
    ASSUME NEW rows, IsList(rows), \A row \in Among(rows) : IsRow(row)
    PROVE  IsPage(ListOf(rows)) /\ IsPage([ListOf(<<>>) EXCEPT !.links = rows])
<1>1. IsList(<<>>) /\ Among(<<>>) = {}
    BY NoneList
<1>. QED BY <1>1 DEF IsPage, ListOf

LEMMA RecordIsPage ==
    ASSUME NEW r, NEW publisher \in Nat, NEW rows, IsList(rows), \A row \in Among(rows) : IsRow(row),
           NEW detail, IsList(detail)
    PROVE  /\ IsPage(RecordOf(r, publisher, rows, detail))
           /\ IsPage([RecordOf(r, publisher, rows, detail) EXCEPT !.shown = FALSE])
<1>1. IsList(<<>>) /\ Among(<<>>) = {}
    BY NoneList
<1>. QED BY <1>1 DEF IsPage, ListOf, RecordOf

LEMMA TwoRows ==
    ASSUME NEW a, NEW b, IsRow(a), IsRow(b)
    PROVE  IsPage(ListOf(<<a, b>>)) /\ IsPage([ListOf(<<>>) EXCEPT !.links = <<a, b>>])
<1>1. IsList(<<a, b>>) /\ \A row \in Among(<<a, b>>) : IsRow(row)
    BY TwoList
<1>. QED BY <1>1, ListIsPage

LEMMA PagesAreLists ==
    \A p \in CataloguePages \union {Catalogue!NoPage} : IsPage(p)
<1>1. IsList(<<>>) /\ Among(<<>>) = {}
    BY NoneList
<1>2. ASSUME NEW r, NEW cells, IsList(cells)
      PROVE  IsRow(Book(r, cells))
    BY <1>2 DEF Book, IsRow
<1>3. IsRow(Bare) /\ IsRow([Bare EXCEPT !.titled = FALSE])
    BY <1>1 DEF Bare, Book, IsRow
<1>4. /\ IsList(<<Lent, Here, Misprinted>>) /\ IsList(<<Awaited, Here>>)
      /\ IsList(<<Silent>>) /\ IsList(<<HiddenCell>>) /\ IsList(<<Away>>) /\ IsList(<<Lent>>) /\ IsList(<<Here>>)
    BY OneList, TwoList, ThreeList
<1>5. /\ IsRow(Book("r1", <<Lent, Here, Misprinted>>)) /\ IsRow(Book("r2", <<Silent>>))
      /\ IsRow(Book("r1", <<HiddenCell>>)) /\ IsRow(Book("r1", <<Away>>)) /\ IsRow(Book("r2", <<Awaited, Here>>))
      /\ IsRow(Book("r1", <<Lent>>)) /\ IsRow(Book("r2", <<Here>>))
    BY <1>2, <1>4
<1>6. IsPage(ListOf(<<Book("r1", <<Lent, Here, Misprinted>>), Book("r2", <<Silent>>), Bare>>))
    <2> DEFINE one == Book("r1", <<Lent, Here, Misprinted>>)
               two == Book("r2", <<Silent>>)
    <2>1. IsRow(one) /\ IsRow(two)
        BY <1>5
    <2> HIDE DEF one, two
    <2>2. IsList(<<one, two, Bare>>) /\ \A row \in Among(<<one, two, Bare>>) : IsRow(row)
        BY <1>3, <2>1, ThreeList
    <2>3. IsPage(ListOf(<<one, two, Bare>>))
        BY <2>2, ListIsPage
    <2>. QED BY <2>3 DEF one, two
<1>7. IsPage(ListOf(<<Bare, Book("r1", <<HiddenCell>>)>>))
    BY <1>3, <1>5, TwoRows
<1>8. IsPage(ListOf(<<Book("r1", <<Away>>), Bare>>))
    BY <1>3, <1>5, TwoRows
<1>9. IsPage(ListOf(<<[Book("r1", <<Lent>>) EXCEPT !.hidden = TRUE], [Bare EXCEPT !.titled = FALSE]>>))
    <2>1. IsRow([Book("r1", <<Lent>>) EXCEPT !.hidden = TRUE])
        BY <1>4 DEF Book, IsRow
    <2>. QED BY <1>3, <2>1, TwoRows
<1>10. IsPage([ListOf(<<>>) EXCEPT !.nothing = TRUE]) /\ IsPage([ListOf(<<>>) EXCEPT !.path = "other"])
    BY <1>1 DEF IsPage, ListOf
<1>11. IsPage([ListOf(<<>>) EXCEPT !.links = <<Book("r1", <<Lent>>), [Bare EXCEPT !.titled = FALSE]>>])
    BY <1>3, <1>5, TwoRows
<1>12. IsPage(ListOf(<<Book("r2", <<Awaited, Here>>)>>))
    <2> DEFINE b == Book("r2", <<Awaited, Here>>)
    <2>1. IsRow(b)
        BY <1>5
    <2> HIDE DEF b
    <2>2. IsList(<<b>>) /\ \A row \in Among(<<b>>) : IsRow(row)
        BY <2>1, OneList
    <2>3. IsPage(ListOf(<<b>>))
        BY <2>2, ListIsPage
    <2>. QED BY <2>3 DEF b
<1>13. /\ IsPage(RecordOf("r1", 3, <<Book("r2", <<Here>>)>>, <<Lent, Here, Misprinted>>))
       /\ IsPage(RecordOf("r1", 9, <<Book("r2", <<Here>>)>>, <<>>))
    <2> DEFINE b == Book("r2", <<Here>>)
    <2>1. IsRow(b)
        BY <1>5
    <2> HIDE DEF b
    <2>2. IsList(<<b>>) /\ \A row \in Among(<<b>>) : IsRow(row)
        BY <2>1, OneList
    <2>3. IsPage(RecordOf("r1", 3, <<b>>, <<Lent, Here, Misprinted>>)) /\ IsPage(RecordOf("r1", 9, <<b>>, <<>>))
        BY <1>1, <1>4, <2>2, RecordIsPage
    <2>. QED BY <2>3 DEF b
<1>14. IsPage([RecordOf("r1", 3, <<>>, <<>>) EXCEPT !.shown = FALSE])
    BY <1>1, RecordIsPage
<1>15. IsPage(Catalogue!NoPage)
    BY <1>1 DEF IsPage, Catalogue!NoPage
<1>. QED BY <1>6, <1>7, <1>8, <1>9, <1>10, <1>11, <1>12, <1>13, <1>14, <1>15 DEF CataloguePages

\* A record as it is read off a page.
SoundHolding(h) == h.status = "unknown" => h.due = "none" /\ h.queue = -1
IsRead(r) ==
    /\ r = [record |-> r.record, campus |-> r.campus, publisher |-> r.publisher, holdings |-> r.holdings, related |-> r.related]
    /\ IsList(r.holdings) /\ Len(r.holdings) \in 0..2 /\ \A h \in Among(r.holdings) : SoundHolding(h)
    /\ Len(r.related) \in 0..2

LEMMA HoldingsSound ==
    ASSUME NEW cells, IsList(cells)
    PROVE  \A h \in Among(Catalogue!Parsed(cells)) : SoundHolding(h)
<1>1. \A cell : SoundHolding(Catalogue!Holding(cell))
    BY DEF SoundHolding, Catalogue!Holding, Catalogue!HoldingDate, Catalogue!HoldingReservationCount, Catalogue!None
<1>. QED BY <1>1, ParsedHas DEF SaidBy

\* The rows a search looks at are rows of the page.
LEMMA RowsOfPage ==
    ASSUME IsPage(page)
    PROVE  /\ IsList(Catalogue!ResultRows)
           /\ Among(Catalogue!ResultRows) \subseteq Among(page.rows) \union Among(page.links)
           /\ \A row \in Among(Catalogue!ResultRows) : IsRow(row)
<1> DEFINE places == {i \in DOMAIN page.rows : ~page.rows[i].hidden}
<1>1. Catalogue!VisibleRows = Chosen(page.rows, places)
    BY DEF Catalogue!VisibleRows, Catalogue!Chosen, Chosen
<1>2. IsList(page.rows) /\ IsList(page.links) /\ \A row \in Among(page.rows) \union Among(page.links) : IsRow(row)
    BY DEF IsPage
<1> HIDE DEF places
<1>3. IsList(Catalogue!VisibleRows) /\ Among(Catalogue!VisibleRows) \subseteq Among(page.rows)
    <2>1. /\ IsList(Chosen(page.rows, places))
          /\ Among(Chosen(page.rows, places)) = {page.rows[i] : i \in places \cap DOMAIN page.rows}
        BY <1>2, ChosenHas
    <2>. QED BY <1>1, <2>1 DEF Among
<1>4. Catalogue!ResultRows = Catalogue!VisibleRows \/ Catalogue!ResultRows = page.links
    BY DEF Catalogue!ResultRows
<1>. QED BY <1>2, <1>3, <1>4

\* The records of a list: at most two, each what its row says.
LEMMA LinkedFromRows ==
    ASSUME IsPage(page)
    PROVE  /\ IsList(Catalogue!LinkedRecords) /\ Len(Catalogue!LinkedRecords) \in 0..2
           /\ \A r \in Among(Catalogue!LinkedRecords) :
                /\ IsRead(r) /\ r.publisher <= 3
                /\ \E row \in Among(Catalogue!ResultRows) : Catalogue!HasRecord(row) /\ r = Catalogue!ParseRecord(row)
<1> DEFINE rows == Catalogue!ResultRows
           places == {i \in DOMAIN rows : Catalogue!HasRecord(rows[i])}
           parsed == Chosen(rows, places)
           first == {i \in DOMAIN parsed : \A j \in 1..(i - 1) : parsed[j].record # parsed[i].record}
           once == Chosen(parsed, first)
           kept == First(once, 2)
           linked == [i \in DOMAIN kept |-> Catalogue!ParseRecord(kept[i])]
<1>1. Catalogue!LinkedRecords = linked
    BY DEF Catalogue!LinkedRecords, Catalogue!OneEach, Catalogue!Chosen, Catalogue!First, Chosen, First
<1>2. IsList(rows) /\ \A row \in Among(rows) : IsRow(row)
    BY RowsOfPage
<1> HIDE DEF rows
<1>3. IsList(parsed) /\ Among(parsed) \subseteq {row \in Among(rows) : Catalogue!HasRecord(row)}
    <2>0. \A i \in places \cap DOMAIN rows : rows[i] \in Among(rows) /\ Catalogue!HasRecord(rows[i])
        BY DEF Among
    <2> HIDE DEF places
    <2>1. IsList(parsed) /\ Among(parsed) = {rows[i] : i \in places \cap DOMAIN rows}
        BY <1>2, ChosenHas
    <2> HIDE DEF parsed
    <2>. QED BY <2>0, <2>1
<1> HIDE DEF parsed
<1>4. IsList(once) /\ Among(once) \subseteq Among(parsed)
    <2> HIDE DEF first
    <2>1. IsList(once) /\ Among(once) = {parsed[i] : i \in first \cap DOMAIN parsed}
        BY <1>3, ChosenHas
    <2> HIDE DEF once
    <2>. QED BY <2>1 DEF Among
<1> HIDE DEF once
<1>5. IsList(kept) /\ Len(kept) \in Nat /\ Len(kept) <= 2 /\ Among(kept) \subseteq Among(once)
    BY <1>4, FirstHas
<1> HIDE DEF kept
<1>6. Len(kept) \in 0..2
    BY <1>5, UpToTwo
<1>7. IsList(linked) /\ Len(linked) = Len(kept)
    <2>1. DOMAIN linked = DOMAIN kept /\ linked = [i \in DOMAIN linked |-> linked[i]]
        OBVIOUS
    <2> HIDE DEF linked
    <2>. QED BY <1>5, <2>1, MappedList
<1>8. Among(linked) = {Catalogue!ParseRecord(row) : row \in Among(kept)}
    BY DEF Among
<1> HIDE DEF linked
<1>9. ASSUME NEW row \in Among(kept)
      PROVE  /\ IsRead(Catalogue!ParseRecord(row)) /\ Catalogue!ParseRecord(row).publisher <= 3
             /\ row \in Among(rows) /\ Catalogue!HasRecord(row)
    <2>1. row \in Among(rows) /\ Catalogue!HasRecord(row)
        BY <1>3, <1>4, <1>5
    <2>2. IsList(row.cells) /\ row.publisher \in Nat
        BY <1>2, <2>1 DEF IsRow
    <2> DEFINE p == Catalogue!Parsed(row.cells)
    <2>3. IsList(p) /\ Len(p) \in 0..2 /\ \A h \in Among(p) : SoundHolding(h)
        BY <2>2, ParsedHas, HoldingsSound
    <2>4. Catalogue!ParseRecord(row) = [record |-> row.record, campus |-> row.campus,
                                        publisher |-> Catalogue!Cut(row.publisher, 2), holdings |-> p, related |-> <<>>]
        BY DEF Catalogue!ParseRecord, Catalogue!ParseSearchHoldings
    <2> HIDE DEF p
    <2>5. Len(<<>>) \in 0..2
        OBVIOUS
    <2>6. IsRead(Catalogue!ParseRecord(row))
        BY <2>3, <2>4, <2>5 DEF IsRead
    <2>7. Catalogue!Cut(row.publisher, 2) <= 3
        BY <2>2 DEF Catalogue!Cut
    <2>. QED BY <2>1, <2>4, <2>6, <2>7
<1>. QED BY <1>1, <1>6, <1>7, <1>8, <1>9 DEF rows

LEMMA CurrentIsRead ==
    ASSUME IsPage(page)
    PROVE  IsRead(Catalogue!CurrentRecord)
<1> DEFINE linked == Catalogue!LinkedRecords
           places == {i \in DOMAIN linked : linked[i].record # page.of}
           others == Chosen(linked, places)
           detail == Catalogue!Parsed(page.detail)
           document == Catalogue!Parsed(Catalogue!DocumentCells)
           related == [i \in DOMAIN others |-> others[i].record]
           holdings == IF detail # <<>> THEN detail ELSE document
<1>1. Catalogue!CurrentRecord = [record |-> page.of, campus |-> "any", publisher |-> Catalogue!Cut(page.publisher, 5), holdings |-> holdings, related |-> related]
    BY DEF Catalogue!CurrentRecord, Catalogue!ParseDocumentHoldings, Catalogue!Chosen, Chosen
<1>2. IsList(linked) /\ Len(linked) \in 0..2
    BY LinkedFromRows
<1> HIDE DEF linked
<1>3. IsList(others) /\ Len(others) \in 0..2
    <2> HIDE DEF places
    <2>1. IsList(others) /\ Len(others) \in Nat /\ Len(others) <= Len(linked)
        BY <1>2, ChosenHas
    <2> HIDE DEF others
    <2>. QED BY <1>2, <2>1
<1>4. Len(related) \in 0..2
    <2> HIDE DEF others
    <2>1. DOMAIN related = DOMAIN others /\ related = [i \in DOMAIN related |-> related[i]]
        OBVIOUS
    <2> HIDE DEF related
    <2>. QED BY <1>3, <2>1, MappedList
<1>5. IsList(page.detail) /\ IsList(page.rows) /\ IsList(page.links)
    BY DEF IsPage
<1>6. ASSUME NEW rows, IsList(rows), \A row \in Among(rows) : IsRow(row)
      PROVE  IsList(Catalogue!CellsOf(rows))
    <2> DEFINE cells == [i \in DOMAIN rows |-> rows[i].cells]
    <2>1. IsList(cells)
        <3>1. DOMAIN cells = DOMAIN rows /\ cells = [i \in DOMAIN cells |-> cells[i]]
            OBVIOUS
        <3> HIDE DEF cells
        <3>. QED BY <1>6, <3>1, MappedList
    <2>2. \A i \in DOMAIN cells : IsList(cells[i])
        BY <1>6 DEF Among, IsRow
    <2>3. Catalogue!CellsOf(rows) = Catalogue!FlattenSeq(cells)
        BY DEF Catalogue!CellsOf
    <2> HIDE DEF cells
    <2>. QED BY <2>1, <2>2, <2>3, FlatIsList
<1>7. IsList(Catalogue!DocumentCells)
    <2>1. IsList(Catalogue!CellsOf(page.rows)) /\ IsList(Catalogue!CellsOf(page.links))
        BY <1>5, <1>6 DEF IsPage
    <2>2. Catalogue!DocumentCells = Catalogue!CellsOf(page.rows) \o Catalogue!CellsOf(page.links)
        BY DEF Catalogue!DocumentCells
    <2>. QED BY <2>1, <2>2, JoinedList
<1>8. /\ IsList(detail) /\ Len(detail) \in 0..2 /\ \A h \in Among(detail) : SoundHolding(h)
      /\ IsList(document) /\ Len(document) \in 0..2 /\ \A h \in Among(document) : SoundHolding(h)
    BY <1>5, <1>7, ParsedHas, HoldingsSound
<1> HIDE DEF related, detail, document
<1>9. IsList(holdings) /\ Len(holdings) \in 0..2 /\ \A h \in Among(holdings) : SoundHolding(h)
    BY <1>8
<1> HIDE DEF holdings
<1>. QED BY <1>1, <1>4, <1>9 DEF IsRead

\* What is answered of a record.
LEMMA MaterializedIsRecord ==
    ASSUME NEW r, IsRead(r)
    PROVE  /\ Catalogue!IsRecord(Catalogue!Materialized(r)) <=> Catalogue!Fits(Catalogue!Materialized(r))
           /\ Catalogue!Materialized(r).record = r.record /\ Catalogue!Materialized(r).publisher = r.publisher
           /\ Len(r.holdings) # 0 => Catalogue!Materialized(r) = r
<1> DEFINE unknown == <<[at |-> "unknown", status |-> "unknown", due |-> "none", queue |-> -1]>>
           m == Catalogue!Materialized(r)
<1>1. /\ IsList(r.holdings) /\ Len(r.holdings) \in 0..2 /\ \A h \in Among(r.holdings) : SoundHolding(h)
      /\ Len(r.related) \in 0..2
    BY DEF IsRead
<1>2. \A i \in DOMAIN r.holdings : SoundHolding(r.holdings[i])
    BY <1>1 DEF Among
\* The lengths fit, and the holdings are sound: what is left is what does not always fit.
<1>3. ASSUME NEW n, Len(n.holdings) \in 1..2, Len(n.related) <= 4, \A i \in DOMAIN n.holdings : SoundHolding(n.holdings[i])
      PROVE  Catalogue!IsRecord(n) <=> Catalogue!Fits(n)
    <2>1. \A i \in DOMAIN n.holdings : Catalogue!IsHolding(n.holdings[i]) <=> Catalogue!WellPrinted(n.holdings[i])
        BY <1>3 DEF SoundHolding, Catalogue!IsHolding, Catalogue!None
    <2>. QED BY <1>3, <2>1 DEF Catalogue!IsRecord, Catalogue!Fits
<1>4. CASE r.holdings # <<>>
    <2>1. m = r
        BY <1>4 DEF Catalogue!Materialized
    <2>2. Len(r.holdings) # 0
        BY <1>1, <1>4, EmptyList
    <2>3. Len(r.holdings) \in 1..2 /\ Len(r.related) <= 4
        BY <1>1, <2>2, UpToTwo
    <2>. QED BY <1>2, <1>3, <2>1, <2>3
<1>5. CASE r.holdings = <<>>
    <2>1. m = [r EXCEPT !.holdings = unknown]
        BY <1>5 DEF Catalogue!Materialized, Catalogue!None
    <2>2. m.holdings = unknown /\ m.related = r.related /\ m.record = r.record /\ m.publisher = r.publisher
        BY <2>1 DEF IsRead
    <2>3. Len(unknown) = 1 /\ DOMAIN unknown = {1} /\ SoundHolding(unknown[1])
        BY DEF SoundHolding
    <2> HIDE DEF unknown, m
    <2>4. Len(m.holdings) \in 1..2 /\ Len(m.related) <= 4
        <3>1. Len(m.holdings) = 1
            BY <2>2, <2>3
        <3>2. Len(m.related) <= 4
            BY <1>1, <2>2, UpToTwo
        <3>. QED BY <3>1, <3>2
    <2>5. Catalogue!IsRecord(m) <=> Catalogue!Fits(m)
        BY <1>3, <2>2, <2>3, <2>4
    <2>6. Len(r.holdings) = 0
        BY <1>1, <1>5, EmptyList
    <2>. QED BY <2>2, <2>5, <2>6 DEF m
<1>. QED BY <1>4, <1>5

\* What is answered of records: some of them, as far as they are asked for.
LEMMA AnswerHas ==
    ASSUME NEW records, IsList(records), \A r \in Among(records) : IsRead(r),
           reading.limit \in 1..2, Catalogue!Answer(records)
    PROVE  \/ items' = Catalogue!NoItems /\ (reading.campus = "any" => records = <<>>)
           \/ /\ items' = [kind |-> reading.mode, ref |-> reading.record, list |-> items'.list]
              /\ IsList(items'.list) /\ Len(items'.list) \in Nat /\ Len(items'.list) <= reading.limit
              /\ \A m \in Among(items'.list) : \E r \in Among(records) : m = Catalogue!Materialized(r)
              /\ reading.campus = "any" /\ records # <<>> => Among(items'.list) # {}
<1> DEFINE places == {i \in DOMAIN records : records[i].campus = reading.campus}
           kept == Catalogue!OfCampus(records)
           answers == [i \in DOMAIN kept |-> Catalogue!Materialized(kept[i])]
           list == First(answers, reading.limit)
<1>1. IsList(kept) /\ Among(kept) \subseteq Among(records) /\ (reading.campus = "any" => kept = records)
    <2>1. CASE reading.campus = "any"
        BY <2>1 DEF Catalogue!OfCampus
    <2>2. CASE reading.campus # "any"
        <3>1. kept = Chosen(records, places)
            BY <2>2 DEF Catalogue!OfCampus, Catalogue!Chosen, Chosen
        <3> HIDE DEF places, kept
        <3>2. /\ IsList(Chosen(records, places))
              /\ Among(Chosen(records, places)) = {records[i] : i \in places \cap DOMAIN records}
            BY ChosenHas
        <3>. QED BY <2>2, <3>1, <3>2 DEF Among
    <2>. QED BY <2>1, <2>2
<1>2. items' = IF kept = <<>> /\ records # <<>> THEN Catalogue!NoItems
               ELSE [kind |-> reading.mode, ref |-> reading.record, list |-> list]
    BY DEF Catalogue!Answer, Catalogue!First, First
<1> HIDE DEF kept
<1>3. IsList(answers) /\ Among(answers) = {Catalogue!Materialized(r) : r \in Among(kept)}
    <2>1. DOMAIN answers = DOMAIN kept /\ answers = [i \in DOMAIN answers |-> answers[i]]
        OBVIOUS
    <2>2. Among(answers) = {Catalogue!Materialized(r) : r \in Among(kept)}
        BY DEF Among
    <2> HIDE DEF answers
    <2>. QED BY <1>1, <2>1, <2>2, MappedList
<1> HIDE DEF answers
<1>4. reading.limit \in Nat /\ reading.limit # 0
    OBVIOUS
<1>5. /\ IsList(list) /\ Len(list) \in Nat /\ Len(list) <= reading.limit
      /\ Among(list) \subseteq Among(answers) /\ (Among(answers) # {} => Among(list) # {})
    BY <1>3, <1>4, FirstHas
<1> HIDE DEF list
<1>6. CASE kept = <<>> /\ records # <<>>
    BY <1>1, <1>2, <1>6
<1>7. CASE ~(kept = <<>> /\ records # <<>>)
    <2>1. items' = [kind |-> reading.mode, ref |-> reading.record, list |-> list] /\ items'.list = list
        BY <1>2, <1>7
    <2>2. \A m \in Among(list) : \E r \in Among(records) : m = Catalogue!Materialized(r)
        BY <1>1, <1>3, <1>5
    <2>3. ASSUME reading.campus = "any", records # <<>>
          PROVE  Among(list) # {}
        <3>1. Among(records) # {}
            BY <2>3, EmptyList, NothingIn
        <3>2. Among(answers) # {}
            BY <1>1, <1>3, <2>3, <3>1
        <3>. QED BY <1>5, <3>2
    <2>. QED BY <1>5, <2>1, <2>2, <2>3
<1>. QED BY <1>6, <1>7

\* What a page that is known to be read has.
LEMMA FoundHas ==
    ASSUME IsPage(page), Catalogue!ReadLibraryCatalogSearchInPage.status = "known"
    PROVE  LET records == Catalogue!ReadLibraryCatalogSearchInPage.records
           IN /\ IsList(records) /\ \A r \in Among(records) : IsRead(r)
              /\ page.path = "list" => ~Catalogue!PendingAvailability /\ records = Catalogue!LinkedRecords
<1> DEFINE result == Catalogue!ReadLibraryCatalogSearchInPage
<1>1. \A reason \in {"unexpected", "loading", "structure"} : Catalogue!Unavailable(reason).status # "known"
    BY DEF Catalogue!Unavailable
<1>2. \/ /\ page.path = "record" /\ result.records = <<Catalogue!CurrentRecord>>
      \/ /\ page.path # "record" /\ result.records = Catalogue!LinkedRecords
         /\ ~Catalogue!PendingAvailability
    BY <1>1 DEF Catalogue!ReadLibraryCatalogSearchInPage
<1>3. CASE page.path = "record" /\ result.records = <<Catalogue!CurrentRecord>>
    <2>1. IsList(result.records) /\ Among(result.records) = {Catalogue!CurrentRecord}
        BY <1>3, OneList
    <2>. QED BY <1>3, <2>1, CurrentIsRead
<1>4. CASE page.path # "record" /\ result.records = Catalogue!LinkedRecords /\ ~Catalogue!PendingAvailability
    BY <1>4, LinkedFromRows
<1>. QED BY <1>2, <1>3, <1>4

CatalogInv ==
    /\ page \in CataloguePages \union {Catalogue!NoPage}
    /\ \/ reading.mode = "none"
       \/ reading.mode \in {"search", "browse"} /\ reading.limit \in 1..2
       \/ reading.mode = "record" /\ reading.limit = 1 /\ reading.campus = "any"
    /\ Catalogue!PagesAccepted /\ Catalogue!HoldingsOfRow

\* What a row says when nothing of it is waited for.
LEMMA RowSaysAll ==
    ASSUME IsPage(page), ~Catalogue!PendingAvailability, NEW row \in Among(page.rows) \union Among(page.links)
    PROVE  SaidBy(row.cells) = {Catalogue!Holding(c) : c \in {d \in Among(row.cells) : ~d.hidden}}
<1>1. \A c \in Among(row.cells) : ~c.hidden => Catalogue!Filled(c)
    BY DEF Catalogue!PendingAvailability, Catalogue!RowCells, Catalogue!ToSet, Among
<1>2. \A j \in DOMAIN row.cells : Catalogue!Speaks(row.cells[j]) <=> ~row.cells[j].hidden
    BY <1>1 DEF Catalogue!Speaks, Among
<1>3. {row.cells[i] : i \in {j \in DOMAIN row.cells : Catalogue!Speaks(row.cells[j])}} = {d \in Among(row.cells) : ~d.hidden}
    BY <1>2 DEF Among
<1>4. SaidBy(row.cells) =
        {Catalogue!Holding(c) : c \in {row.cells[i] : i \in {j \in DOMAIN row.cells : Catalogue!Speaks(row.cells[j])}}}
    BY DEF SaidBy
<1>. QED BY <1>3, <1>4

LEMMA RecordOfItsRow ==
    ASSUME IsPage(page), ~Catalogue!PendingAvailability, NEW row \in Among(Catalogue!ResultRows), Catalogue!HasRecord(row)
    PROVE  LET m == Catalogue!Materialized(Catalogue!ParseRecord(row))
               said == {Catalogue!Holding(c) : c \in {d \in Among(row.cells) : ~d.hidden}}
           IN /\ row.record = m.record /\ ~row.hidden
              /\ said # {} => Among(m.holdings) \subseteq said
              /\ said # {} /\ Len(row.cells) <= 2 => Among(m.holdings) = said
<1> DEFINE r == Catalogue!ParseRecord(row)
           m == Catalogue!Materialized(r)
           said == {Catalogue!Holding(c) : c \in {d \in Among(row.cells) : ~d.hidden}}
           p == Catalogue!Parsed(row.cells)
<1>1. IsList(row.cells) /\ row \in Among(page.rows) \union Among(page.links)
    BY RowsOfPage DEF IsRow
<1>2. said = SaidBy(row.cells)
    BY <1>1, RowSaysAll
<1>3. /\ IsList(p) /\ Len(p) \in 0..2 /\ Among(p) \subseteq SaidBy(row.cells)
      /\ SaidBy(row.cells) # {} => Len(p) # 0
      /\ Len(row.cells) <= 2 => Among(p) = SaidBy(row.cells)
    BY <1>1, ParsedHas
<1>4. r = [record |-> row.record, campus |-> row.campus, publisher |-> Catalogue!Cut(row.publisher, 2),
           holdings |-> p, related |-> <<>>]
    BY DEF Catalogue!ParseRecord, Catalogue!ParseSearchHoldings
<1>5. \A h \in Among(p) : SoundHolding(h)
    BY <1>1, HoldingsSound
<1> HIDE DEF p, said, r
<1>6. r.record = row.record /\ r.holdings = p
    BY <1>4
<1>7. IsRead(r)
    <2>1. Len(<<>>) \in 0..2
        OBVIOUS
    <2>. QED BY <1>3, <1>4, <1>5, <2>1 DEF IsRead
<1>8. m.record = r.record /\ (Len(p) # 0 => m = r)
    BY <1>6, <1>7, MaterializedIsRecord
<1> HIDE DEF m
<1>9. said # {} => m.holdings = p
    BY <1>2, <1>3, <1>6, <1>8
<1>10. ~row.hidden
    BY DEF Catalogue!HasRecord
<1>11. /\ said # {} => Among(m.holdings) \subseteq said
       /\ said # {} /\ Len(row.cells) <= 2 => Among(m.holdings) = said
    BY <1>2, <1>3, <1>9
<1>. QED BY <1>6, <1>8, <1>10, <1>11 DEF r, m, said

LEMMA NothingAnswered ==
    ASSUME items' = Catalogue!NoItems
    PROVE  Catalogue!PagesAccepted' /\ Catalogue!HoldingsOfRow'
BY DEF Catalogue!NoItems, Catalogue!PagesAccepted, Catalogue!HoldingsOfRow

LEMMA AnswerStays ==
    ASSUME items' = items, page' = page, Catalogue!PagesAccepted, Catalogue!HoldingsOfRow
    PROVE  Catalogue!PagesAccepted' /\ Catalogue!HoldingsOfRow'
<1>1. Catalogue!PagesAccepted'
    BY DEF Catalogue!PagesAccepted, Catalogue!IsCatalogSearchResult, Catalogue!IsCatalogBrowseResult,
           Catalogue!IsItemReadResult, Catalogue!IsDiscoverySearchResult
<1>2. Catalogue!ResultRows' = Catalogue!ResultRows
    BY DEF Catalogue!ResultRows, Catalogue!VisibleRows
<1>3. Catalogue!HoldingsOfRow'
    BY <1>2 DEF Catalogue!HoldingsOfRow
<1>. QED BY <1>1, <1>3

LEMMA PollKeeps ==
    ASSUME CatalogInv, Catalogue!Poll
    PROVE  CatalogInv'
<1>1. IsPage(page) /\ page' = page
    BY PagesAreLists DEF CatalogInv, Catalogue!Poll
<1> DEFINE result == Catalogue!ReadLibraryCatalogSearchInPage
           wanted == Catalogue!Wanted(result)
<1>2. \/ Catalogue!Found(result) /\ Catalogue!Answer(wanted) /\ reading' = Catalogue!NoReading
      \/ reading' = Catalogue!NoReading /\ items' = items
      \/ reading' = reading /\ items' = items
    BY DEF Catalogue!Poll
<1>3. reading.mode # "none"
    BY DEF Catalogue!Poll
<1>4. CASE reading' = Catalogue!NoReading /\ items' = items
    BY <1>1, <1>4, AnswerStays DEF CatalogInv, Catalogue!NoReading
<1>5. CASE reading' = reading /\ items' = items
    BY <1>1, <1>5, AnswerStays DEF CatalogInv
<1>6. CASE Catalogue!Found(result) /\ Catalogue!Answer(wanted) /\ reading' = Catalogue!NoReading
    <2> DEFINE records == result.records
               places == {i \in DOMAIN records : records[i].record = reading.record}
    <2>1. result.status = "known" /\ (reading.mode = "record" => wanted # <<>>)
        BY <1>6 DEF Catalogue!Found
    <2>2. /\ IsList(records) /\ \A r \in Among(records) : IsRead(r)
          /\ page.path = "list" => ~Catalogue!PendingAvailability /\ records = Catalogue!LinkedRecords
        BY <1>1, <2>1, FoundHas
    <2>3. wanted = IF reading.mode = "record" THEN Chosen(records, places) ELSE records
        BY DEF Catalogue!Wanted, Catalogue!Chosen, Chosen
    <2>4. \/ reading.mode \in {"search", "browse"} /\ reading.limit \in 1..2
          \/ reading.mode = "record" /\ reading.limit = 1 /\ reading.campus = "any"
        BY <1>3 DEF CatalogInv
    <2> HIDE DEF records
    <2>5. /\ IsList(wanted) /\ \A r \in Among(wanted) : IsRead(r)
          /\ reading.mode = "record" => \A r \in Among(wanted) : r.record = reading.record
          /\ reading.mode # "record" => wanted = records
        <3>1. CASE reading.mode = "record"
            <4>0. \A i \in places \cap DOMAIN records : records[i].record = reading.record /\ records[i] \in Among(records)
                BY DEF Among
            <4> HIDE DEF places, wanted
            <4>1. /\ IsList(Chosen(records, places))
                  /\ Among(Chosen(records, places)) = {records[i] : i \in places \cap DOMAIN records}
                BY <2>2, ChosenHas
            <4>. QED BY <2>2, <2>3, <3>1, <4>0, <4>1
        <3>2. CASE reading.mode # "record"
            <4> HIDE DEF places, wanted
            <4>. QED BY <2>2, <2>3, <3>2
        <3>. QED BY <3>1, <3>2
    <2>6. reading.limit \in 1..2
        BY <2>4
    <2> HIDE DEF wanted, result
    <2>7. \/ items' = Catalogue!NoItems /\ (reading.campus = "any" => wanted = <<>>)
          \/ /\ items' = [kind |-> reading.mode, ref |-> reading.record, list |-> items'.list]
             /\ IsList(items'.list) /\ Len(items'.list) \in Nat /\ Len(items'.list) <= reading.limit
             /\ \A m \in Among(items'.list) : \E r \in Among(wanted) : m = Catalogue!Materialized(r)
             /\ reading.campus = "any" /\ wanted # <<>> => Among(items'.list) # {}
        BY <1>6, <2>5, <2>6, AnswerHas
    <2>8. page' \in CataloguePages \union {Catalogue!NoPage} /\ reading'.mode = "none"
        BY <1>1, <1>6 DEF CatalogInv, Catalogue!NoReading
    <2>9. CASE items' = Catalogue!NoItems
        BY <2>8, <2>9, NothingAnswered DEF CatalogInv
    <2>10. CASE /\ items' = [kind |-> reading.mode, ref |-> reading.record, list |-> items'.list]
                /\ IsList(items'.list) /\ Len(items'.list) \in Nat /\ Len(items'.list) <= reading.limit
                /\ \A m \in Among(items'.list) : \E r \in Among(wanted) : m = Catalogue!Materialized(r)
                /\ reading.campus = "any" /\ wanted # <<>> => Among(items'.list) # {}
        <3>1. items'.kind = reading.mode /\ items'.ref = reading.record
            BY <2>10
        <3>2. \A m \in Among(items'.list) : Catalogue!IsRecord(m) <=> Catalogue!Fits(m)
            BY <2>5, <2>10, MaterializedIsRecord
        <3>3. \A i \in DOMAIN items'.list : items'.list[i] \in Among(items'.list)
            BY DEF Among
        <3>4. \A i \in DOMAIN items'.list : Catalogue!IsRecord(items'.list[i]) <=> Catalogue!Fits(items'.list[i])
            BY <3>2, <3>3
        <3>5. Len(items'.list) <= 2
            BY <2>6, <2>10, ShortEnough
        <3>6. ASSUME reading.mode = "record"
              PROVE  Len(items'.list) = 1 /\ items'.list[1].record = reading.record
            <4>1. reading.limit = 1 /\ Among(items'.list) # {}
                BY <2>1, <2>4, <2>10, <3>6
            <4>2. Len(items'.list) # 0
                BY <2>10, <4>1, NothingIn
            <4>3. Len(items'.list) = 1
                BY <2>10, <4>1, <4>2, OnlyOne
            <4>4. 1 \in DOMAIN items'.list
                BY <2>10, <4>3, ListFacts
            <4>5. PICK r \in Among(wanted) : items'.list[1] = Catalogue!Materialized(r)
                BY <2>10, <3>3, <4>4
            <4>6. items'.list[1].record = r.record /\ r.record = reading.record
                BY <2>5, <3>6, <4>5, MaterializedIsRecord
            <4>. QED BY <4>3, <4>6
        <3>7. Catalogue!PagesAccepted'
            <4>1. CASE reading.mode = "record"
                <5>1. DOMAIN items'.list = {1}
                    <6>1. DOMAIN items'.list = 1..1
                        BY <2>10, <3>6, <4>1, ListFacts
                    <6>. QED BY <6>1
                <5>. QED BY <3>1, <3>4, <3>6, <4>1, <5>1 DEF Catalogue!PagesAccepted, Catalogue!IsItemReadResult
            <4>2. CASE reading.mode \in {"search", "browse"}
                <5>1. ASSUME page.path = "list", NEW i \in DOMAIN items'.list
                      PROVE  items'.list[i].publisher <= 3
                    <6>1. PICK r \in Among(wanted) : items'.list[i] = Catalogue!Materialized(r)
                        BY <2>10, <3>3
                    <6>2. r \in Among(Catalogue!LinkedRecords)
                        BY <2>2, <2>5, <4>2, <5>1
                    <6>3. r.publisher <= 3 /\ IsRead(r)
                        BY <1>1, <6>2, LinkedFromRows
                    <6>. QED BY <6>1, <6>3, MaterializedIsRecord
                <5>. QED BY <1>1, <3>1, <3>4, <3>5, <4>2, <5>1
                       DEF Catalogue!PagesAccepted, Catalogue!IsCatalogSearchResult, Catalogue!IsCatalogBrowseResult
            <4>. QED BY <2>4, <4>1, <4>2
        <3>8. Catalogue!HoldingsOfRow'
            <4>1. SUFFICES ASSUME reading.mode \in {"search", "browse"}, page.path = "list", NEW i \in DOMAIN items'.list
                  PROVE  \E row \in Catalogue!ToSet(Catalogue!ResultRows) :
                            LET said == {Catalogue!Holding(c) : c \in {d \in Catalogue!ToSet(row.cells) : ~d.hidden}}
                            IN /\ row.record = items'.list[i].record /\ ~row.hidden
                               /\ said # {} => Catalogue!ToSet(items'.list[i].holdings) \subseteq said
                               /\ said # {} /\ Len(row.cells) <= 2 => Catalogue!ToSet(items'.list[i].holdings) = said
                <5>1. Catalogue!ResultRows' = Catalogue!ResultRows
                    BY <1>1 DEF Catalogue!ResultRows, Catalogue!VisibleRows
                <5>. QED BY <1>1, <3>1, <5>1 DEF Catalogue!HoldingsOfRow
            <4>2. PICK r \in Among(wanted) : items'.list[i] = Catalogue!Materialized(r)
                BY <2>10, <3>3
            <4>3. ~Catalogue!PendingAvailability /\ r \in Among(Catalogue!LinkedRecords)
                BY <2>2, <2>5, <4>1
            <4>4. PICK row \in Among(Catalogue!ResultRows) : Catalogue!HasRecord(row) /\ r = Catalogue!ParseRecord(row)
                BY <1>1, <4>3, LinkedFromRows
            <4> DEFINE said == {Catalogue!Holding(c) : c \in {d \in Among(row.cells) : ~d.hidden}}
            <4>5. /\ row.record = items'.list[i].record /\ ~row.hidden
                  /\ said # {} => Among(items'.list[i].holdings) \subseteq said
                  /\ said # {} /\ Len(row.cells) <= 2 => Among(items'.list[i].holdings) = said
                BY <1>1, <4>2, <4>3, <4>4, RecordOfItsRow
            <4>6. \A s : Catalogue!ToSet(s) = Among(s)
                BY DEF Catalogue!ToSet, Among
            <4> HIDE DEF Among
            <4>. QED BY <4>4, <4>5, <4>6
        <3>. QED BY <2>8, <3>7, <3>8 DEF CatalogInv
    <2>. QED BY <2>7, <2>9, <2>10
<1>. QED BY <1>2, <1>4, <1>5, <1>6

LEMMA ResultsAreLists ==
    \A links \in DiscoveryPages : IsList(links)
<1> DEFINE one == <<Link("record", "r1"), Link("record", "r1"), Link("discovery", "d1"), Link("elsewhere", "e"), Link("discovery", "d2")>>
           two == <<[Link("record", "r2") EXCEPT !.hidden = TRUE], [Link("discovery", "d1") EXCEPT !.navigation = TRUE],
                    [Link("discovery", "d2") EXCEPT !.titled = FALSE]>>
<1>1. IsList(one)
    BY FiveList
<1>2. IsList(two)
    BY ThreeList
<1>3. DiscoveryPages = {<<>>, one, two}
    BY DEF DiscoveryPages
<1> HIDE DEF one, two
<1>. QED BY <1>1, <1>2, <1>3, NoneList

LEMMA DiscoveriesHave ==
    ASSUME NEW links, IsList(links)
    PROVE  IsList(Catalogue!Discoveries(links)) /\ \A d \in Among(Catalogue!Discoveries(links)) : Catalogue!IsDiscovery(d)
<1> DEFINE places == {i \in DOMAIN links : Catalogue!IsItem(links[i])}
           found == Chosen(links, places)
           of == [i \in DOMAIN found |-> Catalogue!ItemOf(found[i])]
           once == Once(of)
           kept == First(once, 2)
<1>1. Catalogue!Discoveries(links) = kept
    BY DEF Catalogue!Discoveries, Catalogue!Once, Catalogue!First, Catalogue!Chosen, Once, First, Chosen
<1>2. IsList(found) /\ \A hit \in Among(found) : Catalogue!IsItem(hit)
    <2>0. \A i \in places \cap DOMAIN links : Catalogue!IsItem(links[i])
        OBVIOUS
    <2> HIDE DEF places
    <2>1. IsList(found) /\ Among(found) = {links[i] : i \in places \cap DOMAIN links}
        BY ChosenHas
    <2> HIDE DEF found
    <2>. QED BY <2>0, <2>1
<1> HIDE DEF found
<1>3. IsList(of) /\ Among(of) = {Catalogue!ItemOf(hit) : hit \in Among(found)}
    <2>1. DOMAIN of = DOMAIN found /\ of = [i \in DOMAIN of |-> of[i]]
        OBVIOUS
    <2>2. Among(of) = {Catalogue!ItemOf(hit) : hit \in Among(found)}
        BY DEF Among
    <2> HIDE DEF of
    <2>. QED BY <1>2, <2>1, <2>2, MappedList
<1> HIDE DEF of
<1>4. IsList(once) /\ Among(once) = Among(of)
    BY <1>3, OnceHas
<1> HIDE DEF once
<1>5. IsList(kept) /\ Among(kept) \subseteq Among(once)
    BY <1>4, FirstHas
<1> HIDE DEF kept
<1>6. \A hit : Catalogue!IsItem(hit) => Catalogue!IsDiscovery(Catalogue!ItemOf(hit))
    BY DEF Catalogue!IsItem, Catalogue!Official, Catalogue!IsDiscovery, Catalogue!ItemOf
<1>. QED BY <1>1, <1>2, <1>3, <1>4, <1>5, <1>6

LEMMA CatalogStep ==
    ASSUME CatalogInv, Catalogue!CatalogNext
    PROVE  CatalogInv'
<1>1. ASSUME NEW mode \in {"search", "browse", "record"}, NEW p \in CataloguePages, NEW record, NEW campus, NEW limit \in 1..2,
             Catalogue!Start(mode, p, record, campus, limit), mode = "record" => limit = 1 /\ campus = "any"
      PROVE  CatalogInv'
    <2>1. page' = p /\ reading' = [mode |-> mode, record |-> record, campus |-> campus, limit |-> limit] /\ items' = Catalogue!NoItems
        BY <1>1 DEF Catalogue!Start
    <2>. QED BY <1>1, <2>1, NothingAnswered DEF CatalogInv
<1>2. ASSUME NEW p \in CataloguePages, NEW limit \in 1..2, Catalogue!CatalogSearch(p, limit)
      PROVE  CatalogInv'
    BY <1>1, <1>2 DEF Catalogue!CatalogSearch
<1>3. ASSUME NEW p \in CataloguePages, NEW limit \in 1..2, NEW campus, Catalogue!CatalogBrowse(p, campus, limit)
      PROVE  CatalogInv'
    BY <1>1, <1>3 DEF Catalogue!CatalogBrowse
<1>4. ASSUME NEW p \in CataloguePages, NEW record, Catalogue!ItemRead(p, record)
      PROVE  CatalogInv'
    BY <1>1, <1>4 DEF Catalogue!ItemRead
<1>5. CASE Catalogue!DocumentCompletes
    BY <1>5, AnswerStays DEF CatalogInv, Catalogue!DocumentCompletes
<1>6. CASE Catalogue!CellFills
    BY <1>6, AnswerStays DEF CatalogInv, Catalogue!CellFills
<1>7. CASE Catalogue!Poll
    BY <1>7, PollKeeps
<1>8. CASE Catalogue!GivesUp
    BY <1>8, AnswerStays DEF CatalogInv, Catalogue!GivesUp, Catalogue!NoReading
<1>9. ASSUME NEW asked, NEW links \in DiscoveryPages, NEW nothing, NEW limit \in 1..2,
             Catalogue!DiscoverySearch(asked, links, nothing, limit)
      PROVE  CatalogInv'
    <2> DEFINE found == Catalogue!Discoveries(links)
               list == First(found, limit)
    <2>1. IsList(found) /\ \A d \in Among(found) : Catalogue!IsDiscovery(d)
        BY ResultsAreLists, DiscoveriesHave
    <2>2. page' = Catalogue!NoPage /\ reading' = reading
        BY <1>9 DEF Catalogue!DiscoverySearch
    <2>3. \/ items' = Catalogue!NoItems
          \/ items' = [kind |-> "discovery", ref |-> "none", list |-> list]
        BY <1>9 DEF Catalogue!DiscoverySearch, Catalogue!First, First
    <2> HIDE DEF found
    <2>4. /\ IsList(list) /\ Len(list) \in Nat /\ Len(list) <= limit /\ Among(list) \subseteq Among(found)
        BY <2>1, FirstHas
    <2> HIDE DEF list
    <2>5. Len(list) <= 2
        BY <2>4, ShortEnough
    <2>6. \A i \in DOMAIN list : Catalogue!IsDiscovery(list[i])
        BY <2>1, <2>4 DEF Among
    <2>7. Catalogue!PagesAccepted' /\ Catalogue!HoldingsOfRow'
        <3>1. CASE items' = Catalogue!NoItems
            BY <3>1, NothingAnswered
        <3>2. CASE items' = [kind |-> "discovery", ref |-> "none", list |-> list]
            <4>1. items'.kind = "discovery" /\ items'.list = list
                BY <3>2
            <4>2. Catalogue!PagesAccepted'
                BY <2>5, <2>6, <4>1 DEF Catalogue!PagesAccepted, Catalogue!IsDiscoverySearchResult
            <4>3. Catalogue!HoldingsOfRow'
                BY <4>1 DEF Catalogue!HoldingsOfRow
            <4>. QED BY <4>2, <4>3
        <3>. QED BY <2>3, <3>1, <3>2
    <2>. QED BY <2>2, <2>7 DEF CatalogInv
<1>. QED BY <1>2, <1>3, <1>4, <1>5, <1>6, <1>7, <1>8, <1>9 DEF Catalogue!CatalogNext

(***************************************************************************)
(* The lists of My Library, as they are answered (LibraryRefs)             *)
(***************************************************************************)

\* A page of a list has a few tables, and each of them a list of rows.
IsListPage(p) == DOMAIN p.tables \subseteq 1..3 /\ \A i \in DOMAIN p.tables : IsList(p.tables[i].rows)

LEMMA ListPagesAreLists ==
    ASSUME NEW p \in ListPages
    PROVE  IsListPage(p)
<1>1. ASSUME NEW rows, IsList(rows)
      PROVE  /\ IsList(TableOf(rows).rows) /\ IsList([TableOf(rows) EXCEPT !.columns = FALSE].rows)
             /\ IsList([TableOf(rows) EXCEPT !.shown = FALSE].rows) /\ IsList([TableOf(rows) EXCEPT !.marked = FALSE].rows)
    BY <1>1 DEF TableOf
<1>2. ASSUME NEW rows, IsList(rows)
      PROVE  IsListPage(PageOf(rows))
    <2> DEFINE table == TableOf(rows)
    <2>1. IsList(table.rows)
        BY <1>1, <1>2
    <2>2. PageOf(rows) = [form |-> TRUE, tables |-> <<table>>]
        BY DEF PageOf
    <2> HIDE DEF table
    <2>. QED BY <2>1, <2>2 DEF IsListPage
<1>3. IsListPage(PageOf(<<Two, Nameless, One, Nameless>>))
    BY <1>2, FourList
<1>4. IsListPage(PageOf(<<One, Same>>)) /\ IsListPage(PageOf(<<Boxed, Short>>)) /\ IsListPage(PageOf(<<Empty>>))
    BY <1>2, OneList, TwoList
<1> DEFINE unlike == [TableOf(<<Two>>) EXCEPT !.columns = FALSE]
           doubled == TableOf(<<HeadedTwice>>)
           away == [TableOf(<<Two>>) EXCEPT !.shown = FALSE]
           other == [TableOf(<<One>>) EXCEPT !.marked = FALSE]
           boxed == TableOf(<<Boxed>>)
<1>5. IsList(unlike.rows) /\ IsList(doubled.rows) /\ IsList(away.rows) /\ IsList(other.rows) /\ IsList(boxed.rows)
    BY <1>1, OneList
<1>6. ListPages = {PageOf(<<Two, Nameless, One, Nameless>>), PageOf(<<Boxed, Short>>), PageOf(<<One, Same>>), PageOf(<<Empty>>),
                   [form |-> TRUE, tables |-> <<unlike, doubled>>], [form |-> FALSE, tables |-> <<away, other, boxed>>]}
    BY DEF ListPages, StartPages
<1> HIDE DEF unlike, doubled, away, other, boxed
<1>7. IsListPage([form |-> TRUE, tables |-> <<unlike, doubled>>])
    BY <1>5 DEF IsListPage
<1>8. IsListPage([form |-> FALSE, tables |-> <<away, other, boxed>>])
    BY <1>5 DEF IsListPage
<1>. QED BY <1>3, <1>4, <1>6, <1>7, <1>8

\* The first of some tables has a list of rows.
LEMMA FirstTableIsList ==
    ASSUME NEW p, IsListPage(p), NEW S \in SUBSET DOMAIN p.tables
    PROVE  IsList(References!TheFirst(p, S).rows)
<1>1. CASE S = {}
    <2>1. References!TheFirst(p, S).rows = <<>>
        BY <1>1 DEF References!TheFirst, References!NoTable
    <2>. QED BY <2>1, NoneList
<1>2. CASE S # {}
    <2>1. S \subseteq 1..3
        BY DEF IsListPage
    <2>2. \E i \in S : \A j \in S : i <= j
        <3>1. CASE 1 \in S
            BY <2>1, <3>1
        <3>2. CASE 1 \notin S /\ 2 \in S
            BY <2>1, <3>2
        <3>3. CASE 1 \notin S /\ 2 \notin S
            <4>1. S = {3}
                BY <1>2, <2>1, <3>3
            <4>. QED BY <4>1
        <3>. QED BY <3>1, <3>2, <3>3
    <2> DEFINE least == CHOOSE i \in S : \A j \in S : i <= j
    <2>3. least \in S
        BY <2>2
    <2>4. References!TheFirst(p, S) = p.tables[least]
        BY <1>2 DEF References!TheFirst
    <2> HIDE DEF least
    <2>. QED BY <2>3, <2>4 DEF IsListPage
<1>. QED BY <1>1, <1>2

\* The rows that match, in order, none twice.
LEMMA MatchingHas ==
    ASSUME NEW rows, IsList(rows), NEW query
    PROVE  LET found == References!Matching(rows, query)
           IN /\ IsList(found) /\ Len(found) \in Nat /\ Len(found) <= Len(rows) /\ Among(found) \subseteq DOMAIN rows
              /\ IsFiniteSet(Among(found)) /\ Cardinality(Among(found)) = Len(found)
<1> DEFINE all == [i \in DOMAIN rows |-> i]
           places == {i \in DOMAIN rows : query => rows[i].matches}
           found == Chosen(all, places)
<1>1. References!Matching(rows, query) = found
    BY DEF References!Matching, References!Chosen, Chosen
<1>2. IsList(all) /\ Len(all) = Len(rows) /\ DOMAIN all = 1..Len(rows) /\ \A i \in 1..Len(rows) : all[i] = i
    <2>1. DOMAIN all = DOMAIN rows /\ all = [i \in DOMAIN all |-> all[i]] /\ \A i \in DOMAIN rows : all[i] = i
        OBVIOUS
    <2> HIDE DEF all
    <2>. QED BY <2>1, MappedList, ListFacts
<1>3. DOMAIN rows = 1..Len(rows) /\ Len(rows) \in Nat
    BY ListFacts
<1> HIDE DEF all, places
<1>4. /\ IsList(found) /\ Len(found) \in Nat /\ DOMAIN found = 1..Len(found) /\ Len(found) <= Len(all)
      /\ Among(found) = {all[i] : i \in places \cap DOMAIN all}
    BY <1>2, ChosenHas
<1>5. PICK h : Places(h, all, places, found, Len(all))
    BY <1>2, ChosenFacts
<1> HIDE DEF found
<1> DEFINE n == Len(found)
<1>6. n \in Nat /\ DOMAIN found = 1..n
    BY <1>4
<1>7. /\ \A k \in 1..n : found[k] = h[k] /\ h[k] \in 1..Len(rows)
      /\ \A k, l \in 1..n : k < l => h[k] < h[l]
    <2>1. /\ \A k \in 1..n : h[k] \in (1..Len(rows)) \cap places /\ found[k] = all[h[k]]
          /\ \A k, l \in 1..n : k < l => h[k] < h[l]
        BY <1>2, <1>5, <1>6 DEF Places
    <2>. QED BY <1>2, <2>1
<1> HIDE DEF n
<1>8. \A k, l \in 1..n : found[k] = found[l] => k = l
    <2>. TAKE k, l \in 1..n
    <2>. HAVE found[k] = found[l]
    <2>1. h[k] = h[l] /\ h[k] \in Nat /\ k \in Nat /\ l \in Nat
        BY <1>3, <1>7
    <2>2. ~(k < l) /\ ~(l < k)
        BY <1>7, <2>1
    <2>. QED BY <2>1, <2>2
<1>9. ExistsBijection(1..n, Among(found))
    <2> DEFINE f == [k \in 1..n |-> found[k]]
    <2>1. f \in [1..n -> Among(found)] /\ (\A k, l \in 1..n : f[k] = f[l] => k = l) /\ \A v \in Among(found) : \E k \in 1..n : f[k] = v
        BY <1>6, <1>8 DEF Among
    <2> HIDE DEF f
    <2>. QED BY <2>1, Fun_IsBij DEF ExistsBijection
<1>10. Cardinality(Among(found)) = n
    BY <1>6, <1>9, FS_CountingElements
<1>11. Among(found) \subseteq DOMAIN rows
    BY <1>2, <1>3, <1>4
<1>12. IsFiniteSet(Among(found))
    <2>1. IsFiniteSet(1..Len(rows))
        BY <1>3, FS_Interval
    <2>. QED BY <1>3, <1>11, <2>1, FS_Subset
<1>13. Len(found) <= Len(rows)
    BY <1>2, <1>4
<1>. QED BY <1>1, <1>4, <1>10, <1>11, <1>12, <1>13 DEF n

\* The arithmetic of a page of n rows.
LEMMA PageNumbers ==
    ASSUME NEW n \in Nat, n <= 3, NEW offset \in 0..2, NEW limit \in 1..2,
           NEW last, last = (IF offset + limit < n THEN offset + limit ELSE n),
           NEW next, next = (IF last < n /\ offset < n THEN last ELSE -1),
           NEW m, m = (IF offset + 1 <= last THEN last - (offset + 1) + 1 ELSE 0),
           NEW left, left = (IF n > offset THEN n - offset ELSE 0),
           NEW expected, expected = (IF limit < left THEN limit ELSE left)
    PROVE  /\ last \in Int /\ n \in 0..3 /\ next \in -1..3 /\ m <= 2 /\ n >= m /\ (n <= m => next = -1)
           /\ m = expected /\ next = (IF offset + expected < n THEN offset + expected ELSE -1)
<1>1. last \in Nat /\ last <= n /\ (offset + limit < n => last = offset + limit) /\ (~(offset + limit < n) => last = n)
    OBVIOUS
<1>2. left \in Nat /\ (n > offset => left = n - offset) /\ (~(n > offset) => left = 0)
    OBVIOUS
<1>3. m \in Nat /\ (offset < last => m = last - offset) /\ (~(offset < last) => m = 0)
    BY <1>1
<1>4. expected \in Nat /\ (limit < left => expected = limit) /\ (~(limit < left) => expected = left)
    BY <1>2
<1>5. (last < n /\ offset < n => next = last) /\ (~(last < n /\ offset < n) => next = -1)
    OBVIOUS
<1>6. m = expected
    BY <1>1, <1>2, <1>3, <1>4
<1>7. next = (IF offset + expected < n THEN offset + expected ELSE -1)
    <2>1. CASE offset + limit < n
        BY <1>1, <1>2, <1>4, <1>5, <2>1
    <2>2. CASE ~(offset + limit < n)
        BY <1>1, <1>2, <1>4, <1>5, <2>2
    <2>. QED BY <2>1, <2>2
<1>8. n \in 0..3 /\ next \in -1..3 /\ m <= 2 /\ n >= m /\ (n <= m => next = -1)
    BY <1>1, <1>3, <1>5
<1>. QED BY <1>1, <1>6, <1>7, <1>8

\* The rows that are read: at most three, with the fields of their list.
LEMMA ReadRowsHave ==
    ASSUME NEW p \in ListPages, NEW list \in UsedLists, References!ReadRows(list, p).known
    PROVE  LET rows == References!ReadRows(list, p).items
           IN IsList(rows) /\ Len(rows) \in Nat /\ Len(rows) <= 3 /\ \A row \in Among(rows) : References!ItemFields(list) \subseteq row.has
<1> DEFINE fields == IF list = "current_loans" THEN {"title", "due"} ELSE {"title", "status", "activity"} \union {"request"}
           table == IF list = "current_loans" THEN References!OwnTable(p) ELSE References!MarkedTable(p)
           places == {i \in DOMAIN table.rows : ~table.rows[i].empty}
           data == Chosen(table.rows, places)
           rows == First(data, 3)
<1>0. IsList(table.rows)
    <2>1. IsListPage(p)
        BY ListPagesAreLists
    <2>2. IsList(References!OwnTable(p).rows) /\ IsList(References!MarkedTable(p).rows)
        BY <2>1, FirstTableIsList DEF References!OwnTable, References!MarkedTable
    <2>. QED BY <2>2
<1>1. References!DataRows(table.rows) = data
    BY DEF References!DataRows, References!Chosen, Chosen
<1>2. References!ReadRows(list, p) = References!RowsWith(table.rows, fields)
    <2>1. ~References!Unreadable.known
        BY DEF References!Unreadable
    <2>2. CASE list = "current_loans"
        BY <2>1, <2>2 DEF References!ReadRows, References!LoanRows
    <2>3. CASE list = "purchase_requests"
        BY <2>1, <2>3 DEF References!ReadRows, References!GenericRows
    <2>. QED BY <2>2, <2>3 DEF UsedLists
<1> HIDE DEF table, data
<1>3. References!ReadRows(list, p).items = rows /\ \A i \in DOMAIN data : fields \subseteq data[i].has
    <2>1. References!RowsWith(table.rows, fields) =
            IF table.rows = <<>> \/ \E i \in DOMAIN data : ~(fields \subseteq data[i].has) THEN References!Unreadable
            ELSE [known |-> TRUE, items |-> rows]
        BY <1>1 DEF References!RowsWith, References!First, First
    <2> HIDE DEF rows, fields
    <2>2. ~References!Unreadable.known
        BY DEF References!Unreadable
    <2>. QED BY <1>2, <2>1, <2>2
<1>4. IsList(data)
    <2> HIDE DEF places
    <2>. QED BY <1>0, ChosenHas DEF data
<1>5. IsList(rows) /\ Len(rows) \in Nat /\ Len(rows) <= 3 /\ Among(rows) \subseteq Among(data)
    BY <1>4, FirstHas
<1>6. References!ItemFields(list) \subseteq fields
    BY DEF References!ItemFields, UsedLists
<1> HIDE DEF rows, fields
<1>7. \A row \in Among(rows) : References!ItemFields(list) \subseteq row.has
    BY <1>3, <1>5, <1>6 DEF Among
<1>. QED BY <1>3, <1>5, <1>7

\* The counts of a list.
LEMMA CountsHave ==
    ASSUME NEW list \in UsedLists, NEW rows, IsList(rows), NEW query
    PROVE  LET c == References!Counts(list, rows, query)
               n == Len(References!Matching(rows, query))
           IN /\ c.loan >= 0 => c.overdue <= c.loan /\ c.renewable <= c.loan
              /\ list = "current_loans" => c.loan = n /\ c.overdue >= 0 /\ c.renewable >= 0 /\ c.reservation = -1
              /\ list = "purchase_requests" =>
                    c.loan = -1 /\ c.overdue = -1 /\ c.renewable = -1 /\ c.reservation = -1 /\ ~c.due
<1> DEFINE found == References!Matching(rows, query)
           overdue == {i \in Among(found) : rows[i].overdue}
           renewable == {i \in Among(found) : rows[i].renewable}
           c == References!Counts(list, rows, query)
<1>0. \A S : References!Cardinality(S) = Cardinality(S)
    BY DEF References!Cardinality, Cardinality
<1>1. IsFiniteSet(Among(found)) /\ Cardinality(Among(found)) = Len(found)
    BY MatchingHas
<1>2. /\ list = "current_loans" => c.loan = Cardinality(Among(found)) /\ c.overdue = Cardinality(overdue)
                                     /\ c.renewable = Cardinality(renewable)
      /\ list # "current_loans" => c.loan = -1 /\ c.overdue = -1 /\ c.renewable = -1 /\ ~c.due
      /\ list # "reservations" => c.reservation = -1
    <2>1. References!ToSet(found) = Among(found)
        BY DEF References!ToSet, Among
    <2>. HIDE DEF Among, found
    <2>. QED BY <1>0, <2>1 DEF References!Counts, found
<1> HIDE DEF found, c
<1>3. overdue \in SUBSET Among(found) /\ renewable \in SUBSET Among(found)
    OBVIOUS
<1> HIDE DEF overdue, renewable
<1>4. /\ IsFiniteSet(overdue) /\ Cardinality(overdue) <= Cardinality(Among(found))
      /\ IsFiniteSet(renewable) /\ Cardinality(renewable) <= Cardinality(Among(found))
    BY <1>1, <1>3, FS_Subset
<1>5. Cardinality(overdue) \in Nat /\ Cardinality(renewable) \in Nat /\ Cardinality(Among(found)) \in Nat
    BY <1>1, <1>4, FS_CardinalityType
<1>6. CASE list = "current_loans"
    BY <1>1, <1>2, <1>4, <1>5, <1>6 DEF found, c
<1>7. CASE list = "purchase_requests"
    <2>1. c.loan = -1
        BY <1>2, <1>7
    <2>2. ~(c.loan >= 0)
        BY <2>1
    <2>. QED BY <1>2, <1>7, <2>2 DEF c
<1>. QED BY <1>6, <1>7 DEF UsedLists

LEMMA ReadListTaken ==
    ASSUME refSite \in [UsedLists -> ListPages], NEW list \in UsedLists, NEW query \in BOOLEAN, NEW offset \in 0..2,
           NEW limit \in 1..2, References!ReadList(list, query, offset, limit)
    PROVE  References!ListsAccepted'
<1> DEFINE rows == References!ReadRows(list, refSite[list]).items
           found == References!Matching(rows, query)
           n == Len(found)
           last == IF offset + limit < n THEN offset + limit ELSE n
           next == IF last < n /\ offset < n THEN last ELSE -1
           onePage == SubSeq(found, offset + 1, last)
           m == IF offset + 1 <= last THEN last - (offset + 1) + 1 ELSE 0
           c == References!Counts(list, rows, query)
           has == [i \in DOMAIN onePage |-> rows[onePage[i]].has]
           readout == [known |-> TRUE, list |-> list, offset |-> offset, limit |-> limit, total |-> n,
                       next |-> next, counts |-> c, items |-> has]
<1>1. References!ReadRows(list, refSite[list]).known /\ (read' = References!NoRead \/ read' = readout)
    BY DEF References!ReadList, References!Page
<1>2. /\ IsList(rows) /\ Len(rows) \in Nat /\ Len(rows) <= 3
      /\ \A row \in Among(rows) : References!ItemFields(list) \subseteq row.has
    BY <1>1, ReadRowsHave
<1> HIDE DEF rows
<1>3. IsList(found) /\ n \in Nat /\ n <= Len(rows) /\ Among(found) \subseteq DOMAIN rows
    BY <1>2, MatchingHas
<1>4. /\ c.loan >= 0 => c.overdue <= c.loan /\ c.renewable <= c.loan
      /\ list = "current_loans" => c.loan = n /\ c.overdue >= 0 /\ c.renewable >= 0 /\ c.reservation = -1
      /\ list = "purchase_requests" => c.loan = -1 /\ c.overdue = -1 /\ c.renewable = -1 /\ c.reservation = -1 /\ ~c.due
    BY <1>2, CountsHave
<1> HIDE DEF c, found
<1>5. n <= 3 /\ DOMAIN found = 1..n
    BY <1>2, <1>3, ListFacts, NoMoreThan
<1> HIDE DEF n
<1>6. /\ last \in Int /\ n \in 0..3 /\ next \in -1..3 /\ m <= 2 /\ n >= m /\ (n <= m => next = -1)
      /\ LET left == IF n > offset THEN n - offset ELSE 0
             expected == IF limit < left THEN limit ELSE left
         IN m = expected /\ next = (IF offset + expected < n THEN offset + expected ELSE -1)
    <2> HIDE DEF last, next, m
    <2>. QED BY <1>3, <1>5, PageNumbers DEF last, next, m
<1>7. \A i \in (offset + 1)..last : i \in 1..n
    BY <1>3
<1> HIDE DEF last, next
<1>8. /\ onePage \in Seq(DOMAIN rows) /\ Len(onePage) = m
    <2>1. \A i \in (offset + 1)..last : found[i] \in DOMAIN rows
        BY <1>3, <1>5, <1>7 DEF Among
    <2>2. offset + 1 \in Int /\ last \in Int
        BY <1>6
    <2>. QED BY <2>1, <2>2, SubSeqProperties
<1> HIDE DEF onePage, m
<1>9. Len(has) = m /\ DOMAIN has = DOMAIN onePage
    <2>1. DOMAIN has = DOMAIN onePage /\ has = [i \in DOMAIN has |-> has[i]]
        OBVIOUS
    <2> HIDE DEF has
    <2>. QED BY <1>8, <2>1, ListOfAny, MappedList
<1>10. \A i \in DOMAIN has : References!ItemFields(list) \subseteq has[i]
    <2>. TAKE i \in DOMAIN has
    <2>1. onePage[i] \in DOMAIN rows /\ has[i] = rows[onePage[i]].has
        BY <1>8, <1>9
    <2>. QED BY <1>2, <2>1 DEF Among
<1> HIDE DEF has
<1>11. CASE read' = References!NoRead
    BY <1>11 DEF References!NoRead, References!ListsAccepted
<1>12. CASE read' = readout
    <2>1. /\ read'.list = list /\ read'.offset = offset /\ read'.limit = limit /\ read'.total = n
          /\ read'.next = next /\ read'.counts = c /\ read'.items = has
        BY <1>12
    <2> HIDE DEF readout
    <2>2. References!IsResult(read')
        BY <1>4, <1>6, <1>9, <1>10, <2>1 DEF References!IsResult, UsedLists
    <2>3. References!IsPageAskedFor(read')
        BY <1>6, <1>9, <2>1 DEF References!IsPageAskedFor
    <2>. QED BY <2>2, <2>3 DEF References!ListsAccepted
<1>. QED BY <1>1, <1>11, <1>12

\* Only a list that was just read is answered with.
LEMMA SitesStay ==
    ASSUME refSite \in [UsedLists -> ListPages], References!RefNext
    PROVE  refSite' \in [UsedLists -> ListPages] /\ (References!ListsAccepted' \/ read' = References!NoRead)
<1> DEFINE Stays == refSite' = refSite /\ read' = References!NoRead
<1>1. ASSUME NEW pair \in References!Pairs, NEW limit \in 1..2,
             \/ References!ShowRecord(pair[1], pair[2]) \/ References!ShowRecords(pair[1], pair[2], limit)
             \/ References!ShowDiscoveries(pair[1], pair[2], limit)
      PROVE  Stays
    BY <1>1 DEF References!ShowRecord, References!ShowRecords, References!ShowDiscoveries, References!Remember, References!Quiet
<1>2. ASSUME NEW list \in UsedLists, NEW query \in BOOLEAN, NEW offset \in 0..2, NEW limit \in 1..2,
             References!ReadList(list, query, offset, limit)
      PROVE  refSite' = refSite /\ References!ListsAccepted'
    <2>1. refSite' = refSite
        BY <1>2 DEF References!ReadList
    <2>. QED BY <1>2, <2>1, ReadListTaken
<1>3. ASSUME NEW r, NEW record,
             References!AskOptions(r, record) \/ References!AskVisit(r, record) \/ References!AskWrite(r, record)
      PROVE  Stays
    <2>1. \A kind : References!Ask(kind, r, record) => Stays
        BY DEF References!Ask, References!Quiet
    <2>. QED BY <1>3, <2>1 DEF References!AskOptions, References!AskVisit, References!AskWrite
<1>4. CASE References!PublicOptions \/ References!PersonalOptions \/ References!PersonalSurface \/ References!AskFails
    BY <1>4 DEF References!PublicOptions, References!PersonalOptions, References!PersonalSurface, References!AskFails
<1>5. ASSUME NEW related, References!PublicSurface(related)
      PROVE  Stays
    BY <1>5 DEF References!PublicSurface
<1>6. ASSUME NEW r, References!Overdue(r)
      PROVE  Stays
    BY <1>6 DEF References!Overdue, References!Quiet
<1>7. CASE References!Disconnect \/ References!Restart
    BY <1>7 DEF References!Disconnect, References!Restart, References!Quiet
<1>8. ASSUME NEW list \in UsedLists, References!SiteChanges(list)
      PROVE  refSite' \in [UsedLists -> ListPages] /\ read' = References!NoRead
    BY <1>8 DEF References!SiteChanges
<1>9. CASE \E pair \in References!Pairs : References!ShowRecord(pair[1], pair[2])
    <2>1. 1 \in 1..2
        OBVIOUS
    <2>. QED BY <1>1, <1>9, <2>1
<1>. QED BY <1>1, <1>2, <1>3, <1>4, <1>5, <1>6, <1>7, <1>8, <1>9 DEF References!RefNext

LibraryInv ==
    /\ refSite \in [UsedLists -> ListPages]
    /\ References!ListsAccepted

LEMMA LibraryStep ==
    ASSUME LibraryInv, References!RefNext
    PROVE  LibraryInv'
<1>1. read' = References!NoRead => References!ListsAccepted'
    BY DEF References!NoRead, References!ListsAccepted
<1>. QED BY <1>1, SitesStay DEF LibraryInv

(***************************************************************************)
(* The student's own pages, as they are answered (StudentPages)            *)
(***************************************************************************)

LEMMA ReportsAreLists ==
    ASSUME NEW report \in StudentReports
    PROVE  IsList(report.courses) /\ IsList(report.credits)
<1> DEFINE many == <<Course("s1", "A", 2), Course("s1", "A", 2), Course("s2", "F", 99), Course("s3", "A", 2)>>
           sums == <<Summary(10), Summary(20000), Summary(1), Summary(2)>>
           nameless == Course("none", "A", 2)
           passed == Course("s1", "P", 2)
           few == <<nameless, passed>>
<1>1. IsList(many)
    BY FourList
<1>2. IsList(sums)
    BY FourList
<1>3. report = Report("numbered", many, sums) \/ report = Report("numbered", few, <<>>)
        \/ report = Report("known", <<>>, <<>>) \/ report = Report("nobody", <<>>, <<>>)
    BY DEF StudentReports
<1> HIDE DEF many, sums, nameless, passed
<1>4. IsList(few)
    BY TwoList
<1> HIDE DEF few
<1>5. \A student, courses, credits : Report(student, courses, credits).courses = courses
                                    /\ Report(student, courses, credits).credits = credits
    BY DEF Report
<1>6. CASE report = Report("numbered", many, sums)
    BY <1>1, <1>2, <1>5, <1>6
<1>7. CASE report = Report("numbered", few, <<>>)
    BY <1>4, <1>5, <1>7, NoneList
<1>8. CASE report = Report("known", <<>>, <<>>) \/ report = Report("nobody", <<>>, <<>>)
    BY <1>5, <1>8, NoneList
<1>. QED BY <1>3, <1>6, <1>7, <1>8

\* What the panel checks of grades and of credit summaries.
LEMMA GradesHave ==
    ASSUME NEW courses, IsList(courses)
    PROVE  LET grades == Student!ProjectGrades(courses)
           IN /\ IsList(grades) /\ Len(grades) <= 2
              /\ \A i \in DOMAIN grades : grades[i].credits \in {-1} \union 0..20 /\ grades[i].grade \in {"A", "F"}
<1> DEFINE looked == First(courses, 2 * 2)
           places == {i \in DOMAIN looked : looked[i].named /\ looked[i].grade \in {"A", "F"}}
           kept == Chosen(looked, places)
           Of(course) == [subject |-> course.subject, grade |-> course.grade,
                          credits |-> Student!BoundedInteger(course.credits, 0, 20)]
           of == [i \in DOMAIN kept |-> Of(kept[i])]
           once == Once(of)
           grades == First(once, 2)
<1>1. Student!ProjectGrades(courses) = grades
    BY DEF Student!ProjectGrades, Student!First, Student!Chosen, Student!Once, First, Chosen, Once
<1>2. IsList(looked)
    <2>1. 2 * 2 \in Nat
        OBVIOUS
    <2>. QED BY <2>1, FirstHas
<1> HIDE DEF looked
<1>3. IsList(kept) /\ \A course \in Among(kept) : course.grade \in {"A", "F"}
    <2>1. \A i \in places \cap DOMAIN looked : looked[i].grade \in {"A", "F"}
        OBVIOUS
    <2> HIDE DEF places
    <2>2. IsList(kept) /\ Among(kept) = {looked[i] : i \in places \cap DOMAIN looked}
        BY <1>2, ChosenHas
    <2> HIDE DEF kept
    <2>. QED BY <2>1, <2>2
<1> HIDE DEF kept
<1>4. IsList(of) /\ Among(of) = {Of(course) : course \in Among(kept)}
    <2>1. DOMAIN of = DOMAIN kept /\ of = [i \in DOMAIN of |-> of[i]]
        OBVIOUS
    <2>2. Among(of) = {Of(course) : course \in Among(kept)}
        BY DEF Among
    <2> HIDE DEF of
    <2>. QED BY <1>3, <2>1, <2>2, MappedList
<1> HIDE DEF of
<1>5. IsList(once) /\ Among(once) = Among(of)
    BY <1>4, OnceHas
<1> HIDE DEF once
<1>6. IsList(grades) /\ Len(grades) \in Nat /\ Len(grades) <= 2 /\ Among(grades) \subseteq Among(once)
    BY <1>5, FirstHas
<1> HIDE DEF grades
<1>7. \A i \in DOMAIN grades : \E course \in Among(kept) : grades[i] = Of(course)
    BY <1>4, <1>5, <1>6 DEF Among
<1>8. \A course \in Among(kept) : Of(course).credits \in {-1} \union 0..20 /\ Of(course).grade \in {"A", "F"}
    BY <1>3 DEF Student!BoundedInteger, Student!None
<1> HIDE DEF Of
<1>9. Len(grades) <= 2
    BY <1>6
<1>. QED BY <1>1, <1>6, <1>7, <1>8, <1>9

AreCounts(summaries) == Len(summaries) <= 2 /\ \A i \in DOMAIN summaries : summaries[i] \in 0..10000

LEMMA SummariesHave ==
    ASSUME NEW credits, IsList(credits)
    PROVE  AreCounts(Student!ProjectCreditSummaries(credits))
<1> DEFINE looked == First(credits, 2 * 2)
           Of(row) == Student!BoundedInteger(row.count, 0, 10000)
           places == {i \in DOMAIN looked : looked[i].named /\ Of(looked[i]) # Student!None}
           kept == Chosen(looked, places)
           of == [i \in DOMAIN kept |-> Of(kept[i])]
           summaries == First(of, 2)
<1>1. Student!ProjectCreditSummaries(credits) = summaries
    BY DEF Student!ProjectCreditSummaries, Student!First, Student!Chosen, First, Chosen
<1>2. IsList(looked)
    <2>1. 2 * 2 \in Nat
        OBVIOUS
    <2>. QED BY <2>1, FirstHas
<1> HIDE DEF looked
<1>3. IsList(kept) /\ \A row \in Among(kept) : Of(row) # Student!None
    <2>1. \A i \in places \cap DOMAIN looked : Of(looked[i]) # Student!None
        OBVIOUS
    <2> HIDE DEF places, Of
    <2>2. IsList(kept) /\ Among(kept) = {looked[i] : i \in places \cap DOMAIN looked}
        BY <1>2, ChosenHas
    <2> HIDE DEF kept
    <2>. QED BY <2>1, <2>2
<1> HIDE DEF kept
<1>4. IsList(of) /\ Among(of) = {Of(row) : row \in Among(kept)}
    <2> HIDE DEF Of
    <2>1. DOMAIN of = DOMAIN kept /\ of = [i \in DOMAIN of |-> of[i]]
        OBVIOUS
    <2>2. Among(of) = {Of(row) : row \in Among(kept)}
        BY DEF Among
    <2> HIDE DEF of
    <2>. QED BY <1>3, <2>1, <2>2, MappedList
<1> HIDE DEF of
<1>5. IsList(summaries) /\ Len(summaries) \in Nat /\ Len(summaries) <= 2 /\ Among(summaries) \subseteq Among(of)
    BY <1>4, FirstHas
<1> HIDE DEF summaries
<1>6. ASSUME NEW row, Of(row) # Student!None
      PROVE  Of(row) \in 0..10000
    <2> DEFINE count == row.count
               most == 10000
    <2>1. Student!BoundedInteger(count, 0, most) # Student!None
        BY <1>6
    <2> HIDE DEF count, most
    <2>2. Student!BoundedInteger(count, 0, most) \in 0..most
        BY <2>1 DEF Student!BoundedInteger
    <2>. QED BY <2>2 DEF count, most
<1> HIDE DEF Of
<1>7. \A i \in DOMAIN summaries : \E row \in Among(kept) : summaries[i] = Of(row)
    BY <1>4, <1>5 DEF Among
<1>8. Len(summaries) <= 2
    BY <1>5
<1>9. \A i \in DOMAIN summaries : summaries[i] \in 0..10000
    <2>. TAKE i \in DOMAIN summaries
    <2>1. PICK row \in Among(kept) : summaries[i] = Of(row)
        BY <1>7
    <2>. QED BY <1>3, <1>6, <2>1
<1>. QED BY <1>1, <1>8, <1>9 DEF AreCounts

\* What is titled, and what is read of it at most, is a list.
LEMMA TitledHas ==
    ASSUME NEW rows, IsList(rows)
    PROVE  IsList(Student!Titled(rows)) /\ Len(Student!Titled(rows)) \in Nat /\ Len(Student!Titled(rows)) <= Len(rows)
<1> DEFINE places == {i \in DOMAIN rows : rows[i].titled}
<1>1. Student!Titled(rows) = Chosen(rows, places)
    BY DEF Student!Titled, Student!Chosen, Chosen
<1> HIDE DEF places
<1>. QED BY <1>1, ChosenHas

LEMMA FewPlaces ==
    ASSUME NEW s, IsList(s), NEW n \in Nat, Len(s) <= n, NEW S \in SUBSET DOMAIN s
    PROVE  Cardinality(S) \in 0..n
<1> DEFINE l == Len(s)
<1>1. l \in Nat /\ DOMAIN s = 1..l
    BY ListFacts
<1> HIDE DEF l
<1>2. l <= n
    BY DEF l
<1>3. IsFiniteSet(1..l) /\ Cardinality(1..l) = (IF 1 > l THEN 0 ELSE l - 1 + 1)
    BY <1>1, FS_Interval
<1>4. Cardinality(1..l) = l
    BY <1>1, <1>3
<1>5. IsFiniteSet(S) /\ Cardinality(S) <= l
    BY <1>1, <1>3, <1>4, FS_Subset
<1>6. Cardinality(S) \in Nat
    BY <1>5, FS_CardinalityType
<1>. QED BY <1>1, <1>2, <1>5, <1>6, NoMoreThan

LEMMA MoodleTaken ==
    ASSUME NEW source, IsList(source.courses), IsList(source.activities), source.unread \in Int, source.unread >= -1,
           answer' = Student!ProjectMoodleForAgent(Student!ReadMoodle(source))
    PROVE  Student!AnswersAccepted'
<1> DEFINE places == {i \in DOMAIN source.courses : source.courses[i] # Student!NoName}
           named == Chosen(source.courses, places)
           once == Once(named)
           courses == First(once, 2)
           looked == First(source.activities, 2)
           upcoming == Student!Titled(looked)
           unread == IF source.unread = -1 THEN 0 ELSE IF source.unread < 2 THEN source.unread ELSE 2
           overdue == {i \in DOMAIN upcoming : upcoming[i].due = 0}
<1>1. Student!ReadMoodle(source) = [courses |-> courses, upcoming |-> upcoming, unread |-> unread]
    BY DEF Student!ReadMoodle, Student!Named, Student!None, Student!First, Student!Chosen, Student!Once, First, Chosen, Once
<1>2. IsList(named)
    <2> HIDE DEF places
    <2>. QED BY ChosenHas
<1> HIDE DEF named
<1>3. IsList(once)
    BY <1>2, OnceHas
<1> HIDE DEF once
<1>4. IsList(courses) /\ Len(courses) \in Nat /\ Len(courses) <= 2
    BY <1>3, FirstHas
<1>5. IsList(looked) /\ Len(looked) \in Nat /\ Len(looked) <= 2
    BY FirstHas
<1> HIDE DEF courses, looked
<1>6. IsList(upcoming) /\ Len(upcoming) \in Nat /\ Len(upcoming) <= Len(looked)
    BY <1>5, TitledHas
<1> HIDE DEF upcoming
<1>7. Len(courses) \in 0..2 /\ Len(upcoming) \in 0..2
    <2>1. Len(courses) \in 0..2
        BY <1>4, UpToTwo
    <2>2. Len(upcoming) <= 2
        BY <1>5, <1>6, NoMoreThan
    <2>3. Len(upcoming) \in 0..2
        BY <1>6, <2>2, UpToTwo
    <2>. QED BY <2>1, <2>3
<1>8. unread \in 0..2
    OBVIOUS
<1>9. Cardinality(overdue) \in 0..2
    <2>1. overdue \in SUBSET DOMAIN upcoming
        OBVIOUS
    <2> HIDE DEF overdue
    <2>2. Len(upcoming) <= 2
        BY <1>5, <1>6, NoMoreThan
    <2>. QED BY <1>6, <2>1, <2>2, FewPlaces
<1>10. \A S : Student!Cardinality(S) = Cardinality(S)
    BY DEF Student!Cardinality, Cardinality
<1> DEFINE got == answer'
<1>11. /\ got.source = "moodle" /\ got.courses = Len(courses) /\ got.upcoming = Len(upcoming)
       /\ got.overdue = Cardinality(overdue) /\ got.unread = unread
    <2> HIDE DEF unread
    <2>. QED BY <1>1, <1>10 DEF Student!ProjectMoodleForAgent
<1> HIDE DEF unread, overdue
<1>. QED BY <1>7, <1>8, <1>9, <1>11 DEF Student!AnswersAccepted, Student!IsMoodleReadResult

LEMMA CastTaken ==
    ASSUME NEW source, IsList(source.notices),
           answer' = LET seen == Student!ReadCast(source)
                     IN IF seen.status = "known" THEN Student!ProjectCastForAgent(seen)
                        ELSE [source |-> "cast", status |-> seen.status]
    PROVE  Student!AnswersAccepted'
<1> DEFINE seen == Student!ReadCast(source)
           titled == Student!Titled(source.notices)
           notices == First(titled, 2)
<1>1. IsList(titled)
    BY TitledHas
<1>2. seen.status = "known" => /\ seen = [status |-> "known", counts |-> source.counts, talk |-> source.talk, notices |-> notices]
                               /\ \A i \in 1..3 : source.counts[i] \in 0..2
    <2>1. \A i \in 1..3 : Student!NumericCount(source.counts[i]) # Student!None => source.counts[i] \in 0..2
        BY DEF Student!NumericCount, Student!BoundedInteger
    <2> HIDE DEF titled
    <2>. QED BY <2>1 DEF Student!ReadCast, Student!First, First, titled
<1> HIDE DEF titled
<1>3. Len(notices) \in Nat /\ Len(notices) <= 2
    BY <1>1, FirstHas
<1> HIDE DEF seen, notices
<1>4. Len(notices) \in 0..2
    BY <1>3, UpToTwo
<1>5. CASE seen.status = "known"
    <2>1. answer' = Student!ProjectCastForAgent(seen)
        BY <1>5 DEF seen
    <2>2. answer'.source = "cast" /\ answer'.notices = Len(notices) /\ answer'.counts = source.counts
        BY <1>2, <1>5, <2>1 DEF Student!ProjectCastForAgent
    <2>. QED BY <1>2, <1>4, <1>5, <2>2 DEF Student!AnswersAccepted, Student!IsCastReadResult
<1>6. CASE seen.status # "known"
    <2>1. answer'.status # "known"
        BY <1>6 DEF seen
    <2>. QED BY <2>1 DEF Student!AnswersAccepted
<1>. QED BY <1>5, <1>6

\* A page of supporters has lists, and what is said on it are two topics at most.
IsSupporters(p) ==
    /\ IsList(p.elements) /\ IsList(p.links)
    /\ \A e \in Among(p.elements) : e.topics \subseteq {"t1", "t2"} /\ e.insights = {}

LEMMA SupportersAre ==
    ASSUME NEW p \in SupporterPages
    PROVE  IsSupporters(p)
<1> DEFINE p1 == Person("p1", {"t1"}, TRUE)
           p2 == Person("p2", {}, FALSE)
           p3 == Person("p3", {"t2"}, FALSE)
           p4 == Person("none", {"t1"}, FALSE)
           p5 == Person("none", {}, FALSE)
           p6 == [Person("p1", {}, FALSE) EXCEPT !.hidden = TRUE]
           Good(e) == e.topics \subseteq {"t1", "t2"} /\ e.insights = {}
           five == <<p1, p2, p1, p3, p4>>
           two == <<p5, p6>>
           Fine(elements) == IsList(elements) /\ \A e \in Among(elements) : Good(e)
<1>2. Good(p1) /\ Good(p2) /\ Good(p3)
    BY DEF Person
<1>3. Good(p4) /\ Good(p5) /\ Good(p6)
    BY DEF Person
<1> HIDE DEF p1, p2, p3, p4, p5, p6, Good
<1>4. Fine(five)
    BY <1>2, <1>3, FiveList
<1>5. Fine(two)
    BY <1>3, TwoList
<1> USE DEF p1, p2, p3, p4, p5, p6, Good
<1>6. Fine(<<>>) /\ IsList(<<>>) /\ IsList(<<"l1">>) /\ IsList(<<"l1", "l1", "l2">>)
    BY NoneList, OneList, ThreeList
<1>7. ASSUME NEW path, NEW elements, NEW links, NEW marked, Fine(elements), IsList(links)
      PROVE  IsSupporters(Supporters(path, elements, links, marked))
    BY <1>7 DEF Supporters, IsSupporters
<1>8. \/ p = Supporters("list", five, <<"l1", "l1", "l2">>, TRUE) \/ p = Supporters("list", two, <<>>, FALSE)
      \/ p = Supporters("list", <<>>, <<"l1">>, FALSE) \/ p = Supporters("login", <<>>, <<>>, TRUE)
      \/ p = Supporters("other", <<>>, <<>>, TRUE)
    BY DEF SupporterPages
<1> HIDE DEF five, two, Fine
<1>9. CASE p = Supporters("list", five, <<"l1", "l1", "l2">>, TRUE)
    BY <1>4, <1>6, <1>7, <1>9
<1>10. CASE p = Supporters("list", two, <<>>, FALSE)
    BY <1>5, <1>6, <1>7, <1>10
<1>11. CASE p = Supporters("list", <<>>, <<"l1">>, FALSE)
    BY <1>6, <1>7, <1>11
<1>12. CASE p = Supporters("login", <<>>, <<>>, TRUE) \/ p = Supporters("other", <<>>, <<>>, TRUE)
    BY <1>6, <1>7, <1>12
<1>. QED BY <1>8, <1>9, <1>10, <1>11, <1>12

LEMMA FewTopics ==
    ASSUME NEW S, S \subseteq {"t1", "t2"}
    PROVE  Cardinality(S) <= 32
<1>1. {"t1", "t2"} = {"t1"} \union {"t2"} /\ "t2" \notin {"t1"}
    OBVIOUS
<1>2. IsFiniteSet({"t1"}) /\ Cardinality({"t1"}) = 1
    BY FS_Singleton
<1> DEFINE T == {"t1", "t2"}
<1>3. IsFiniteSet(T) /\ Cardinality(T) = 2
    BY <1>1, <1>2, FS_AddElement
<1>4. S \in SUBSET T
    OBVIOUS
<1> HIDE DEF T
<1>5. IsFiniteSet(S) /\ Cardinality(S) <= Cardinality(T)
    BY <1>3, <1>4, FS_Subset
<1>6. Cardinality(S) \in Nat
    BY <1>5, FS_CardinalityType
<1>. QED BY <1>3, <1>5, <1>6

LEMMA AlumniTaken ==
    ASSUME NEW source, IsSupporters(source),
           answer' = LET seen == Student!ExtractAlumni(source)
                     IN IF seen.status = "known" THEN Student!ProjectCastAlumniForConversation(seen)
                        ELSE [source |-> "alumni", status |-> seen.status]
    PROVE  Student!AnswersAccepted'
<1> DEFINE seen == Student!ExtractAlumni(source)
           places == {i \in DOMAIN source.elements : Student!IsProfile(source.elements[i])}
           found == Chosen(source.elements, places)
           once == Once(found)
           profiles == First(once, 3)
           paths == Once(source.links)
           links == First(paths, 1)
           some == First(profiles, 2)
           topics == UNION {p.topics : p \in Among(profiles)}
           insights == UNION {p.insights : p \in Among(profiles)}
<1>1. IsList(source.elements) /\ IsList(source.links)
      /\ \A e \in Among(source.elements) : e.topics \subseteq {"t1", "t2"} /\ e.insights = {}
    BY DEF IsSupporters
<1>2. Student!ProfilesOf(source) = profiles /\ Student!LinksOf(source) = links
    BY DEF Student!ProfilesOf, Student!LinksOf, Student!First, Student!Chosen, Student!Once, First, Chosen, Once
<1>3. IsList(found) /\ Among(found) \subseteq Among(source.elements)
    <2> HIDE DEF places
    <2>1. IsList(found) /\ Among(found) = {source.elements[i] : i \in places \cap DOMAIN source.elements}
        BY <1>1, ChosenHas
    <2> HIDE DEF found
    <2>. QED BY <2>1 DEF Among
<1> HIDE DEF found
<1>4. IsList(once) /\ Among(once) = Among(found)
    BY <1>3, OnceHas
<1> HIDE DEF once
<1>5. IsList(profiles) /\ Among(profiles) \subseteq Among(once)
    BY <1>4, FirstHas
<1>6. IsList(paths)
    BY <1>1, OnceHas
<1> HIDE DEF paths, profiles
<1>7. Len(links) \in Nat /\ Len(links) <= 1
    BY <1>6, FirstHas
<1>8. IsList(some) /\ Len(some) \in Nat /\ Len(some) <= 2
    BY <1>5, FirstHas
<1> HIDE DEF links
<1>9. topics \subseteq {"t1", "t2"} /\ insights = {}
    BY <1>1, <1>3, <1>4, <1>5
<1> DEFINE of == [i \in DOMAIN some |-> some[i].topics]
           got == [source |-> "alumni", status |-> "known", class |-> "restricted", count |-> Len(some),
                   topics |-> topics, insights |-> insights, contact |-> FALSE, links |-> Len(links), profiles |-> of]
<1>10. seen.status = "known" => answer' = got
    <2>1. seen.status = "known" => seen = [status |-> "known", profiles |-> profiles, links |-> links]
        BY <1>2 DEF Student!ExtractAlumni
    <2>2. Student!First(profiles, 2) = some
        BY DEF Student!First, First
    <2>3. Student!ToSet(profiles) = Among(profiles)
        BY DEF Student!ToSet, Among
    <2> HIDE DEF some, seen
    <2>4. seen.status = "known" => answer' = Student!ProjectCastAlumniForConversation(seen)
        BY DEF seen
    <2> SUFFICES ASSUME seen.status = "known" PROVE answer' = got
        OBVIOUS
    <2>5. seen.profiles = profiles /\ seen.links = links
        BY <2>1
    <2> DEFINE all == Student!ProjectCastAlumniForAgent(seen)
    <2>6. all = [source |-> "alumni", status |-> "known", class |-> "personal", count |-> Len(profiles),
                 topics |-> topics, insights |-> insights, contact |-> \E p \in Among(profiles) : p.contact,
                 links |-> Len(links), profiles |-> <<>>]
        BY <2>3, <2>5 DEF Student!ProjectCastAlumniForAgent
    <2>7. answer' = [all EXCEPT !.class = "restricted", !.count = Len(some), !.contact = FALSE,
                                !.profiles = [i \in DOMAIN some |-> some[i].topics]]
        BY <2>2, <2>4, <2>5 DEF Student!ProjectCastAlumniForConversation
    <2> HIDE DEF all, topics, insights
    <2>. QED BY <2>6, <2>7
<1> HIDE DEF topics, insights, some
<1>11. Len(of) = Len(some)
    <2>1. DOMAIN of = DOMAIN some /\ of = [i \in DOMAIN of |-> of[i]]
        OBVIOUS
    <2> HIDE DEF of
    <2>. QED BY <1>8, <2>1, MappedList
<1> HIDE DEF of
<1>12. Cardinality(topics) <= 32 /\ Cardinality(insights) <= 32
    BY <1>9, FewTopics
<1>13. Len(some) \in 0..3 /\ Len(links) \in 0..1
    <2> DEFINE s == Len(some)
               l == Len(links)
    <2>1. s \in Nat /\ l \in Nat /\ s <= 2 /\ l <= 1
        BY <1>7, <1>8
    <2> HIDE DEF s, l
    <2>2. s \in 0..3 /\ l \in 0..1
        BY <2>1
    <2>. QED BY <2>2 DEF s, l
<1>14. \A S : Student!Cardinality(S) = Cardinality(S)
    BY DEF Student!Cardinality, Cardinality
<1>15. CASE seen.status = "known"
    <2>1. /\ answer'.source = "alumni" /\ answer'.class = "restricted" /\ answer'.count = Len(some) /\ answer'.contact = FALSE
          /\ answer'.topics = topics /\ answer'.insights = insights /\ answer'.links = Len(links) /\ answer'.profiles = of
        BY <1>10, <1>15
    <2> HIDE DEF seen
    <2>. QED BY <1>8, <1>11, <1>12, <1>13, <1>14, <2>1 DEF Student!AnswersAccepted, Student!IsCastAlumniReadResult
<1>16. CASE seen.status # "known"
    <2>1. answer'.status # "known"
        BY <1>16
    <2>. QED BY <2>1 DEF Student!AnswersAccepted
<1>. QED BY <1>15, <1>16

\* The answer of a student's page, and the report behind it.
StudentInv ==
    /\ sitrus \in [session : {"in", "out"}, report : StudentReports]
    /\ Student!AnswersAccepted

\* Nothing is said to be known when there is no answer, or the read failed.
LEMMA NoAnswerTaken ==
    ASSUME answer' = Student!NoAnswer
    PROVE  Student!AnswersAccepted'
BY DEF Student!AnswersAccepted, Student!NoAnswer

LEMMA FailureTaken ==
    ASSUME NEW status, status # "known", Student!Fails(status)
    PROVE  Student!AnswersAccepted'
<1>1. answer'.status = status
    BY DEF Student!Fails
<1>. QED BY <1>1 DEF Student!AnswersAccepted

LEMMA RefusalTaken ==
    ASSUME NEW got, Student!Refused(got)
    PROVE  Student!AnswersAccepted'
<1> DEFINE status == IF got = "login" THEN "reauth_required" ELSE "unavailable"
<1>1. Student!Fails(status) /\ status # "known"
    BY DEF Student!Refused
<1> HIDE DEF status
<1>. QED BY <1>1, FailureTaken

LEMMA GradesTaken ==
    ASSUME NEW rows, NEW counted, IsList(rows), IsList(counted),
           Student!Grades(Student!ProjectGrades(rows), Student!ProjectCreditSummaries(counted))
    PROVE  Student!AnswersAccepted'
<1> DEFINE grades == Student!ProjectGrades(rows)
           summaries == Student!ProjectCreditSummaries(counted)
<1>1. Len(grades) <= 2 /\ \A i \in DOMAIN grades : grades[i].credits \in {-1} \union 0..20 /\ grades[i].grade \in {"A", "F"}
    BY GradesHave
<1>2. AreCounts(summaries)
    BY SummariesHave
<1>3. Student!Grades(grades, summaries)
    OBVIOUS
<1> HIDE DEF grades, summaries
<1>4. CASE grades = <<>> /\ summaries = <<>>
    <2>1. Student!Fails("unavailable")
        BY <1>3, <1>4 DEF Student!Grades
    <2>. QED BY <2>1, FailureTaken
<1>5. CASE ~(grades = <<>> /\ summaries = <<>>)
    <2>1. answer' = [source |-> "sitrus", status |-> "known", label |-> TRUE, grades |-> grades, summaries |-> summaries]
        BY <1>3, <1>5 DEF Student!Grades
    <2>2. /\ answer'.source = "sitrus" /\ answer'.status = "known" /\ answer'.label = TRUE
          /\ answer'.grades = grades /\ answer'.summaries = summaries
        BY <2>1
    <2>. QED BY <1>1, <1>2, <2>2 DEF AreCounts, Student!AnswersAccepted, Student!IsSitrusGradeResult, Student!None
<1>. QED BY <1>4, <1>5

\* The pages of the model are lists.
LEMMA DashboardsAre ==
    ASSUME NEW p \in MoodleDashboards
    PROVE  IsList(p.courses) /\ IsList(p.activities) /\ p.unread \in Int /\ p.unread >= -1
<1> DEFINE t1 == Task(TRUE, 0)
           t2 == Task(TRUE, 2)
           t3 == Task(TRUE, -1)
           t4 == Task(FALSE, 0)
           t5 == Task(TRUE, 1)
<1>1. IsList(<<t1, t2, t3>>) /\ IsList(<<t4, t5>>) /\ IsList(<<>>)
    BY ThreeList, TwoList, NoneList
<1>2. IsList(<<"c1", "none", "c1", "c2">>) /\ IsList(<<"c1", "c2", "c3">>)
    BY ThreeList, FourList
<1> HIDE DEF t1, t2, t3, t4, t5
<1>3. \/ p = [courses |-> <<"c1", "none", "c1", "c2">>, activities |-> <<t1, t2, t3>>, unread |-> 3]
      \/ p = [courses |-> <<"c1", "c2", "c3">>, activities |-> <<t4, t5>>, unread |-> -1]
      \/ p = [courses |-> <<>>, activities |-> <<>>, unread |-> 1]
    BY DEF MoodleDashboards, t1, t2, t3, t4, t5
<1>. QED BY <1>1, <1>2, <1>3

LEMMA TopsAre ==
    ASSUME NEW p \in CastTops
    PROVE  IsList(p.notices)
<1> DEFINE n1 == Notice(TRUE, 1)
           n2 == Notice(FALSE, 2)
           n3 == Notice(TRUE, -1)
           n4 == Notice(TRUE, 3)
<1>1. IsList(<<n1, n2, n3, n4>>) /\ IsList(<<>>)
    BY FourList, NoneList
<1> HIDE DEF n1, n2, n3, n4
<1>2. \A one, two, notices : CastTop(one, two, notices).notices = notices
    BY DEF CastTop
<1>3. [CastTop(1, 1, <<>>) EXCEPT !.path = "login"].notices = <<>>
      /\ [CastTop(1, 1, <<>>) EXCEPT !.password = TRUE].notices = <<>>
      /\ [CastTop(1, 1, <<>>) EXCEPT !.path = "other"].notices = <<>>
    BY DEF CastTop
<1>4. \/ p = CastTop(1, 2, <<n1, n2, n3, n4>>) \/ p = CastTop(3, 1, <<>>) \/ p = CastTop(0, 0, <<>>)
      \/ p = [CastTop(1, 1, <<>>) EXCEPT !.path = "login"] \/ p = [CastTop(1, 1, <<>>) EXCEPT !.password = TRUE]
      \/ p = [CastTop(1, 1, <<>>) EXCEPT !.path = "other"]
    BY DEF CastTops, n1, n2, n3, n4
<1>5. CASE p = CastTop(1, 2, <<n1, n2, n3, n4>>)
    BY <1>1, <1>2, <1>5
<1>6. CASE p = CastTop(3, 1, <<>>) \/ p = CastTop(0, 0, <<>>)
    BY <1>1, <1>2, <1>6
<1>7. CASE p = [CastTop(1, 1, <<>>) EXCEPT !.path = "login"]
    BY <1>1, <1>3, <1>7
<1>8. CASE p = [CastTop(1, 1, <<>>) EXCEPT !.password = TRUE] \/ p = [CastTop(1, 1, <<>>) EXCEPT !.path = "other"]
    BY <1>1, <1>3, <1>8
<1>. QED BY <1>4, <1>5, <1>6, <1>7, <1>8

LEMMA StudentStep ==
    ASSUME StudentInv, Student!StudentNext
    PROVE  StudentInv'
<1> DEFINE Stays == sitrus' \in [session : {"in", "out"}, report : StudentReports]
<1>1. IsList(sitrus.report.courses) /\ IsList(sitrus.report.credits)
    BY ReportsAreLists DEF StudentInv
<1>2. sitrus' = sitrus => Stays
    BY DEF StudentInv
<1>3. CASE Student!CheckSitrusAuthentication \/ Student!SitrusRead \/ Student!Reloaded
    <2>1. answer' = Student!NoAnswer /\ sitrus' = sitrus
        BY <1>3 DEF Student!CheckSitrusAuthentication, Student!SitrusRead, Student!Reloaded
    <2>. QED BY <1>2, <2>1, NoAnswerTaken DEF StudentInv
<1>4. CASE Student!SessionChanges
    <2>1. answer' = Student!NoAnswer /\ sitrus' = [sitrus EXCEPT !.session = IF @ = "in" THEN "out" ELSE "in"]
        BY <1>4 DEF Student!SessionChanges
    <2>2. Stays
        BY <2>1 DEF StudentInv
    <2>. QED BY <2>1, <2>2, NoAnswerTaken DEF StudentInv
<1>5. \A next : Student!Going(next) => Student!AnswersAccepted'
    BY NoAnswerTaken DEF Student!Going
<1>6. CASE Student!TokenFetched \/ Student!StudentFetched
    <2>1. sitrus' = sitrus
        BY <1>6 DEF Student!TokenFetched, Student!StudentFetched
    <2>2. \/ \E got : Student!Refused(got) \/ Student!Fails("reauth_required")
          \/ \E next : Student!Going(next)
        BY <1>6 DEF Student!TokenFetched, Student!StudentFetched
    <2>3. Student!AnswersAccepted'
        BY <1>5, <2>2, RefusalTaken, FailureTaken
    <2>. QED BY <1>2, <2>1, <2>3 DEF StudentInv
<1>7. CASE Student!CoursesFetched \/ Student!CreditsFetched
    <2>1. sitrus' = sitrus
        BY <1>7 DEF Student!CoursesFetched, Student!CreditsFetched
    <2>2. \/ \E got : Student!Refused(got)
          \/ \E next : Student!Going(next)
          \/ Student!Grades(Student!ProjectGrades(sitrus.report.courses), Student!ProjectCreditSummaries(sitrus.report.credits))
        BY <1>7 DEF Student!CoursesFetched, Student!CreditsFetched
    <2>3. Student!AnswersAccepted'
        BY <1>1, <1>5, <2>2, RefusalTaken, GradesTaken
    <2>. QED BY <1>2, <2>1, <2>3 DEF StudentInv
<1>8. ASSUME NEW source \in MoodleDashboards, Student!MoodleRead(source)
      PROVE  StudentInv'
    <2>1. answer' = Student!ProjectMoodleForAgent(Student!ReadMoodle(source)) /\ sitrus' = sitrus
        BY <1>8 DEF Student!MoodleRead
    <2>2. Student!AnswersAccepted'
        BY <2>1, DashboardsAre, MoodleTaken
    <2>. QED BY <1>2, <2>1, <2>2 DEF StudentInv
<1>9. ASSUME NEW source \in CastTops, Student!CastRead(source)
      PROVE  StudentInv'
    <2>1. answer' = (LET seen == Student!ReadCast(source)
                     IN IF seen.status = "known" THEN Student!ProjectCastForAgent(seen)
                        ELSE [source |-> "cast", status |-> seen.status])
          /\ sitrus' = sitrus
        BY <1>9 DEF Student!CastRead
    <2>2. Student!AnswersAccepted'
        BY <2>1, TopsAre, CastTaken
    <2>. QED BY <1>2, <2>1, <2>2 DEF StudentInv
<1>10. ASSUME NEW source \in SupporterPages, NEW injected \in BOOLEAN, Student!CastAlumniRead(source, injected)
       PROVE  StudentInv'
    <2>1. sitrus' = sitrus
        BY <1>10 DEF Student!CastAlumniRead
    <2>2. CASE Student!ScriptAnswers(injected)
        <3>1. answer' = (LET seen == Student!ExtractAlumni(source)
                         IN IF seen.status = "known" THEN Student!ProjectCastAlumniForConversation(seen)
                            ELSE [source |-> "alumni", status |-> seen.status])
            BY <1>10, <2>2 DEF Student!CastAlumniRead
        <3>. QED BY <1>2, <2>1, <3>1, SupportersAre, AlumniTaken DEF StudentInv
    <2>3. CASE ~Student!ScriptAnswers(injected)
        <3>1. answer'.status # "known"
            BY <1>10, <2>3 DEF Student!CastAlumniRead
        <3>2. Student!AnswersAccepted'
            BY <3>1 DEF Student!AnswersAccepted
        <3>. QED BY <1>2, <2>1, <3>2 DEF StudentInv
    <2>. QED BY <2>2, <2>3
<1>. QED BY <1>3, <1>4, <1>6, <1>7, <1>8, <1>9, <1>10 DEF Student!StudentNext

(***************************************************************************)
(* What the panel takes of them                                            *)
(***************************************************************************)

\* What is known of the three at any time.
PagesInv == CatalogInv /\ LibraryInv /\ StudentInv

LEMMA PagesBegin ==
    ASSUME ConnectorsInit
    PROVE  PagesInv
<1>1. CatalogInv
    BY DEF ConnectorsInit, ConnectorsStart, Catalogue!CatalogInit, CatalogInv, Catalogue!NoReading, Catalogue!NoItems,
           Catalogue!PagesAccepted, Catalogue!HoldingsOfRow
<1>2. LibraryInv
    <2>1. References!RefInit
        BY DEF ConnectorsInit, ConnectorsStart
    <2>. QED BY <2>1 DEF LibraryInv, References!RefInit, References!NoRead, References!ListsAccepted
<1>3. StudentInv
    <2>1. Student!StudentInit
        BY DEF ConnectorsInit, ConnectorsStart
    <2>. QED BY <2>1 DEF StudentInv, Student!StudentInit, Student!NoAnswer, Student!AnswersAccepted
<1>. QED BY <1>1, <1>2, <1>3 DEF PagesInv

LEMMA PagesStay ==
    /\ CatalogInv /\ UNCHANGED catalogVars => CatalogInv'
    /\ LibraryInv /\ UNCHANGED refVars => LibraryInv'
    /\ StudentInv /\ UNCHANGED studentVars => StudentInv'
<1>1. ASSUME CatalogInv, UNCHANGED catalogVars PROVE CatalogInv'
    BY <1>1, AnswerStays DEF CatalogInv, catalogVars
<1>2. ASSUME LibraryInv, UNCHANGED refVars PROVE LibraryInv'
    <2>1. refSite' = refSite /\ read' = read
        BY <1>2 DEF refVars
    <2>. QED BY <1>2, <2>1 DEF LibraryInv, References!ListsAccepted, References!IsResult, References!IsPageAskedFor
<1>3. ASSUME StudentInv, UNCHANGED studentVars PROVE StudentInv'
    <2>1. sitrus' = sitrus /\ answer' = answer
        BY <1>3 DEF studentVars
    <2>2. Student!IsSitrusGradeResult' = Student!IsSitrusGradeResult
        BY <2>1, SMTT(60) DEF Student!IsSitrusGradeResult
    <2>3. Student!IsMoodleReadResult' = Student!IsMoodleReadResult /\ Student!IsCastReadResult' = Student!IsCastReadResult
        BY <2>1, Zenon DEF Student!IsMoodleReadResult, Student!IsCastReadResult
    <2>4. Student!IsCastAlumniReadResult' = Student!IsCastAlumniReadResult
        BY <2>1, Zenon DEF Student!IsCastAlumniReadResult
    <2>5. Student!AnswersAccepted' = Student!AnswersAccepted
        BY <2>1, <2>2, <2>3, <2>4 DEF Student!AnswersAccepted
    <2>. QED BY <1>3, <2>1, <2>5 DEF StudentInv
<1>. QED BY <1>1, <1>2, <1>3

LEMMA PagesNext ==
    ASSUME PagesInv, [ConnectorsNext]_allVars
    PROVE  PagesInv'
<1>1. \/ UNCHANGED libraryVars
      \/ Catalogue!CatalogNext /\ UNCHANGED <<refVars, studentVars>>
      \/ References!RefNext /\ UNCHANGED <<catalogVars, studentVars>>
      \/ Student!StudentNext /\ UNCHANGED <<refVars, catalogVars>>
    BY DEF ConnectorsNext, allVars
<1>2. CASE UNCHANGED libraryVars
    BY <1>2, PagesStay DEF PagesInv, libraryVars
<1>3. CASE Catalogue!CatalogNext /\ UNCHANGED <<refVars, studentVars>>
    BY <1>3, CatalogStep, PagesStay DEF PagesInv
<1>4. CASE References!RefNext /\ UNCHANGED <<catalogVars, studentVars>>
    BY <1>4, LibraryStep, PagesStay DEF PagesInv
<1>5. CASE Student!StudentNext /\ UNCHANGED <<refVars, catalogVars>>
    BY <1>5, StudentStep, PagesStay DEF PagesInv
<1>. QED BY <1>1, <1>2, <1>3, <1>4, <1>5

LEMMA PagesHold == ConnectorsSpec => []PagesInv
<1>1. ConnectorsInit => PagesInv
    BY PagesBegin
<1>2. PagesInv /\ [ConnectorsNext]_allVars => PagesInv'
    BY PagesNext
<1>. QED BY <1>1, <1>2, PTL DEF ConnectorsSpec

\* A record in an answer to a search or from a shelf has the holdings that the cells of its own row say, all of them
\* if there are no more than are shown (readBookPreviewInPage and the readers it copies).
THEOREM HoldingsAreOfTheRow == ConnectorsSpec => []HoldingsOfRow
<1>1. PagesInv => HoldingsOfRow
    BY DEF PagesInv, CatalogInv, HoldingsOfRow
<1>. QED BY <1>1, PagesHold, PTL

\* The panel takes every answer in which the worker says it knows: about a list of My Library, a page of the
\* catalogue, and the student's own pages (isLibraryReadResult and the other checks of api/client.ts).  Excepted are
\* three things of the catalogue, which the worker does not check: a publisher longer than the panel takes, on the
\* page of a record; a due date that is none; more reservations than the panel takes.
THEOREM AnswersAreTaken == ConnectorsSpec => []ResultsAccepted
<1>1. PagesInv => ResultsAccepted
    BY DEF PagesInv, CatalogInv, LibraryInv, StudentInv, ResultsAccepted
<1>. QED BY <1>1, PagesHold, PTL
=============================================================================
