------------------------------ MODULE InputLink ------------------------------
(***************************************************************************)
(* The exchange of inputs between the two peers of a match: bundles of     *)
(* unacknowledged inputs over datagrams that may be lost and reordered     *)
(* (NsmbInputDelivery), acknowledgements by contiguous frontier, the wait  *)
(* at the prediction horizon with its resends, and the recovery of a lost  *)
(* connection through Resume messages (NsmbNetplaySession,                 *)
(* NsmbNetplayTransport).  Both peers are past the start-ready handshake   *)
(* of one generation; what is simulated with the inputs is the subject of  *)
(* module RollbackPeer.                                                    *)
(***************************************************************************)
EXTENDS Integers, Sequences, FiniteSetsExt

CONSTANTS
    None,           \* no input
    Neutral,        \* NeutralInput()
    Epoch,          \* first logical frame
    LastFrame,      \* bound: the last frame modelled
    Delay,          \* input delay
    Horizon,        \* PredictionHorizonFrames
    MaxEntries,     \* kMaxInputBundleEntries: 32
    PauseInResult,  \* the match ends with LastFrame, and another one follows
    MaxInFlight,    \* bound: bundles under way to a peer
    MaxResumes,     \* bound: periodic Resumes under way to a peer
    MaxBreaks       \* bound: losses of the connection

ASSUME LinkAssumption ==
    /\ Epoch \in Nat \ {0} /\ LastFrame \in Nat /\ Epoch <= LastFrame
    /\ Delay \in Nat /\ Horizon \in Nat \ {0}
    /\ PauseInResult \in BOOLEAN
    /\ MaxEntries \in Nat \ {0} /\ MaxInFlight \in Nat \ {0}
    /\ MaxResumes \in Nat /\ MaxBreaks \in Nat

Peers == {"host", "client"}
Other(p) == IF p = "host" THEN "client" ELSE "host"

NoFrame == 0
InputFrames == Epoch .. (LastFrame + Delay)

\* What the player presses for frame f: every frame something else, so that an
\* input taken for another frame's is seen.
PlayerInput(f) == f
MaybeInputs == InputFrames \cup {Neutral, None}

\* No input is not an input.
ASSUME InputAssumption == None \notin InputFrames \cup {Neutral}

VARIABLES
    pc,         \* "send", "gate", "result", or how the process ended
    frame,      \* logical frame of the outer frame
    local,      \* LocalInputs
    remote,     \* RemoteInputs
    contig,     \* HighestContiguousRemoteFrame_ (Epoch - 1: none)
    ack,        \* RemoteAckFrame_
    lastSent,   \* LastSentInputFrame
    connected,  \* Transport.Peer is set
    validated,  \* ResumeValidated
    recovering, \* RecoveryStarted
    link,       \* "down", "half" (the client only), "up", "broken"
    reliable,   \* reliable packets under way to a peer, in order
    datagrams,  \* unsequenced packets under way to a peer
    breaks      \* connections lost so far

timeline == <<local, remote, contig, ack, lastSent>>
session == <<connected, validated, recovering>>
network == <<link, reliable, datagrams, breaks>>
vars == <<pc, frame, timeline, session, network>>

Running(p) == pc[p] \in {"send", "gate", "result"}
Known(inputs) == {f \in InputFrames : inputs[f] # None}

-----------------------------------------------------------------------------
(* The wire *)

Bundle(entries, ackFrame) ==
    [kind |-> "bundle", entries |-> entries, frame |-> ackFrame]
Input(f, i) == [kind |-> "input", entries |-> [g \in {f} |-> i], frame |-> NoFrame]
Resume(f) == [kind |-> "resume", entries |-> <<>>, frame |-> f]

MaxUnderWay(kind) == IF kind = "resume" THEN MaxResumes ELSE MaxInFlight

\* A datagram is sent; one too many is lost on the way, and so is everything
\* sent to a peer that has dropped the connection.
Datagram(q, m) ==
    LET alike == {n \in datagrams[q] : n.kind = m.kind}
    IN  IF link \in {"half", "up"} /\ Cardinality(alike) < MaxUnderWay(m.kind)
        THEN [datagrams EXCEPT ![q] = @ \cup {m}]
        ELSE datagrams

\* Reliable packets arrive in the order sent, or the connection breaks.
Reliably(q, packets) ==
    IF link \in {"half", "up"} THEN [reliable EXCEPT ![q] = @ \o packets]
    ELSE reliable

-----------------------------------------------------------------------------
(* What a peer sends *)

\* The first frame to send: after the acknowledged one, within LocalInputs.
FirstUnacked(inputs, ackFrame, f) ==
    LET first == Min(Known(inputs))
    IN  IF ackFrame = NoFrame THEN first
        ELSE Max({first, Min({ackFrame + 1, f})})

\* Mutant: the newest entries are sent when not all fit.
NewestUnacked(inputs, ackFrame, f) ==
    Max({FirstUnacked(inputs, ackFrame, f), f - MaxEntries + 1}) .. f

\* SelectUnackedInputs: the oldest frames the other peer has not acknowledged.
UnackedFrames(inputs, ackFrame, f) ==
    LET from == FirstUnacked(inputs, ackFrame, f)
    IN  from .. Min({f, from + MaxEntries - 1})

\* Mutant: every entry carries the current input.
CurrentInput(inputs, f, g) == inputs[f]

\* An entry missing from LocalInputs is filled with the current input.
EntryInput(inputs, f, g) == IF inputs[g] # None THEN inputs[g] ELSE inputs[f]

\* The acknowledgement a bundle carries.
AckToSend(p) == IF contig[p] < Epoch THEN NoFrame ELSE contig[p]

\* BuildPayload
InputBundle(p, inputs, f) ==
    Bundle([g \in UnackedFrames(inputs, ack[p], f) |-> EntryInput(inputs, f, g)],
           AckToSend(p))

\* Mutant: the first frame missing, not the last one present.
FirstMissing(p) == contig[p] + 1

\* What a Resume says this peer has.
ResumeFrame(p) == IF contig[p] < Epoch THEN 0 ELSE contig[p]

-----------------------------------------------------------------------------
\* The epoch has just been primed on both sides of a connection.
Init ==
    LET primed == [f \in InputFrames |->
                      IF f < Epoch + Delay THEN Neutral ELSE None]
    IN  /\ pc = [p \in Peers |-> "send"] /\ frame = [p \in Peers |-> Epoch]
        /\ local = [p \in Peers |-> primed] /\ remote = [p \in Peers |-> primed]
        /\ contig = [p \in Peers |-> Epoch + Delay - 1]
        /\ ack = [p \in Peers |-> NoFrame] /\ lastSent = [p \in Peers |-> NoFrame]
        /\ connected = [p \in Peers |-> TRUE]
        /\ validated = [p \in Peers |-> TRUE]
        /\ recovering = [p \in Peers |-> FALSE]
        /\ link = "up" /\ breaks = 0
        /\ reliable = [p \in Peers |-> <<>>]
        /\ datagrams = [p \in Peers |-> {}]

\* The frame's local input is recorded, for Delay frames later, and sent
\* (SendInputLocked) unless the session is interrupted.
SendInput(p) ==
    LET f == frame[p] + Delay
    IN  /\ pc[p] = "send"
        /\ local' = [local EXCEPT ![p][f] = PlayerInput(f)]
        /\ IF connected[p] /\ validated[p]
           THEN /\ lastSent' = [lastSent EXCEPT ![p] = f]
                /\ datagrams' = Datagram(Other(p), InputBundle(p, local'[p], f))
           ELSE UNCHANGED <<lastSent, datagrams>>
        /\ pc' = [pc EXCEPT ![p] = "gate"]
        /\ UNCHANGED <<frame, remote, contig, ack, session, link, reliable, breaks>>

\* Mutant: a peer blocked by the horizon only waits.
NeverBlocked(p) == FALSE
BlockedByHorizon(p) == frame[p] - contig[p] > Horizon

\* MaybeResendLatestInputForFrameLead, while the horizon blocks the peer.  In
\* a match that goes on after LastFrame it stands for the sends of the frames
\* after it as well.
ResendInput(p) ==
    /\ pc[p] = "gate" /\ connected[p] /\ lastSent[p] # NoFrame
    /\ BlockedByHorizon(p) \/ (frame[p] = LastFrame /\ ~PauseInResult)
    /\ datagrams' = Datagram(Other(p), InputBundle(p, local[p], lastSent[p]))
    /\ UNCHANGED <<pc, frame, timeline, session, link, reliable, breaks>>

\* The Resume a connected peer sends every 250 ms.  A validated peer ignores it
\* and loses it with the connection: only the others are worth sending here.
SendResume(p) ==
    /\ Running(p) /\ connected[p] /\ ~validated[Other(p)]
    /\ datagrams' = Datagram(Other(p), Resume(ResumeFrame(p)))
    /\ UNCHANGED <<pc, frame, timeline, session, link, reliable, breaks>>

-----------------------------------------------------------------------------
(* What a peer receives *)

\* Mutant: a walk that finds no gap ends one frame late.
AdvancePastEnd(r, c) ==
    LET gaps == {f \in InputFrames : f > c /\ r[f] = None}
    IN  IF gaps = {} THEN LastFrame + Delay + 1 ELSE Min(gaps) - 1

\* AdvanceContiguousRemoteFrame
AdvanceContiguousRemoteFrame(r, c) ==
    LET gaps == {f \in InputFrames : f > c /\ r[f] = None}
    IN  IF gaps = {} THEN LastFrame + Delay ELSE Min(gaps) - 1

\* Mutant: the acknowledgement is taken for the next frame expected.
AckAsNext(p, f) ==
    IF f = NoFrame \/ lastSent[p] = NoFrame \/ f >= lastSent[p] THEN ack[p]
    ELSE Max({ack[p], f + 1})

\* RecordRemoteAck: an acknowledgement of something not sent yet, or an old
\* one, changes nothing.
RecordRemoteAck(p, f) ==
    IF f = NoFrame \/ lastSent[p] = NoFrame \/ f > lastSent[p] THEN ack[p]
    ELSE Max({ack[p], f})

\* HandleReceivedInput and HandleReceivedInputBundle.
ReceiveInputs(p, m) ==
    /\ remote' = [remote EXCEPT ![p] =
                     [f \in InputFrames |-> IF f \in DOMAIN m.entries
                                            THEN m.entries[f] ELSE @[f]]]
    /\ contig' = [contig EXCEPT ![p] =
                     AdvanceContiguousRemoteFrame(remote'[p], @)]
    /\ ack' = [ack EXCEPT ![p] = RecordRemoteAck(p, m.frame)]
    /\ UNCHANGED <<pc, local, lastSent, validated>>

\* The local inputs after frame f, in order.
InputsAfter(p, f) ==
    LET frames == {g \in Known(local[p]) : g > f}
        kth(k) == CHOOSE g \in frames :
                      Cardinality({h \in frames : h < g}) = k - 1
    IN  [k \in 1 .. Cardinality(frames) |-> Input(kth(k), local[p][kth(k)])]

LastFrameOf(packets) == Max(UNION {DOMAIN packets[k].entries : k \in DOMAIN packets})

\* ReceiveResume, for a peer that is not validated: refuse a frame that was
\* never recorded, or a gap before the history; otherwise send the history the
\* other peer lacks.
ReceiveResume(p, m) ==
    LET history == InputsAfter(p, m.frame)
        future == Known(local[p]) # {} /\ m.frame > Max(Known(local[p]))
        missing == /\ history # <<>> /\ m.frame # 0
                   /\ m.frame + 1 \notin DOMAIN Head(history).entries
    IN  /\ pc' = [pc EXCEPT ![p] = CASE future -> "future-input-ack"
                                     [] missing -> "input-history-missing"
                                     [] OTHER -> @]
        /\ validated' = [validated EXCEPT ![p] = TRUE]
        /\ lastSent' = IF history = <<>> THEN lastSent
                       ELSE [lastSent EXCEPT ![p] = LastFrameOf(history)]
        /\ UNCHANGED <<local, remote, contig, ack>>

\* The pump handles a packet: before the Resume of this connection everything
\* but a Resume is dropped, after it a Resume changes nothing.
Handle(p, m) ==
    IF m.kind = "resume"
    THEN IF validated[p] THEN UNCHANGED <<pc, timeline, validated>>
         ELSE ReceiveResume(p, m)
    ELSE IF validated[p] THEN ReceiveInputs(p, m)
         ELSE UNCHANGED <<pc, timeline, validated>>

\* What handling it sends in return.
Replies(p, m) ==
    IF m.kind = "resume" /\ ~validated[p] THEN InputsAfter(p, m.frame) ELSE <<>>

ReceiveReliable(p) ==
    /\ Running(p) /\ connected[p] /\ reliable[p] # <<>>
    /\ Handle(p, Head(reliable[p]))
    /\ reliable' = [Reliably(Other(p), Replies(p, Head(reliable[p])))
                       EXCEPT ![p] = Tail(@)]
    /\ UNCHANGED <<frame, connected, recovering, link, datagrams, breaks>>

ReceiveDatagram(p, kind) ==
    /\ Running(p) /\ connected[p]
    /\ \E m \in datagrams[p] :
        /\ m.kind = kind
        /\ Handle(p, m)
        /\ reliable' = Reliably(Other(p), Replies(p, m))
        /\ datagrams' = [datagrams EXCEPT ![p] = @ \ {m}]
    /\ UNCHANGED <<frame, connected, recovering, link, breaks>>

LoseDatagram(p) ==
    /\ \E m \in datagrams[p] : datagrams' = [datagrams EXCEPT ![p] = @ \ {m}]
    /\ UNCHANGED <<pc, frame, timeline, session, link, reliable, breaks>>

-----------------------------------------------------------------------------
(* The prediction horizon *)

UnconfirmedRemoteFrameCountThrough(p) ==
    IF frame[p] <= contig[p] THEN 0 ELSE frame[p] - contig[p]

\* Mutant: a ready session is enough.
SessionReady(p) == connected[p] /\ validated[p]

GateOpen(p) ==
    /\ connected[p] /\ validated[p]
    /\ UnconfirmedRemoteFrameCountThrough(p) <= Horizon

\* Mutant: the recovery goes on.
NeverComplete(p) == recovering

CompleteRecovery(p) == [recovering EXCEPT ![p] = FALSE]

\* In the result scene before another match the emulator thread pumps, and
\* neither records nor sends inputs nor comes to the gate.
AfterLastFrame == IF PauseInResult THEN "result" ELSE "gate"

\* The gate lets the frame through, which completes a recovery, and the frame
\* runs.
PassGate(p) ==
    /\ pc[p] = "gate" /\ GateOpen(p)
    /\ recovering' = CompleteRecovery(p)
    /\ IF frame[p] < LastFrame
       THEN /\ frame' = [frame EXCEPT ![p] = @ + 1]
            /\ pc' = [pc EXCEPT ![p] = "send"]
       ELSE /\ pc' = [pc EXCEPT ![p] = AfterLastFrame]
            /\ UNCHANGED frame
    /\ UNCHANGED <<timeline, connected, validated, network>>

\* A second at the gate counts as the start of a recovery.
StallAtGate(p) ==
    /\ pc[p] = "gate" /\ ~GateOpen(p)
    /\ recovering' = [recovering EXCEPT ![p] = TRUE]
    /\ UNCHANGED <<pc, frame, timeline, connected, validated, network>>

-----------------------------------------------------------------------------
(* The connection *)

\* Peer p's side of the connection is gone, and all that was under way to it.
DropSide(p) ==
    /\ connected' = [connected EXCEPT ![p] = FALSE]
    /\ link' = IF connected[Other(p)] THEN "broken" ELSE "down"
    /\ reliable' = [q \in Peers |-> IF q = p \/ ~connected[q] THEN <<>> ELSE reliable[q]]
    /\ datagrams' = [q \in Peers |-> IF q = p \/ ~connected[q] THEN {} ELSE datagrams[q]]

\* A DISCONNECT event on a connection that breaks now, or broke before.
Disconnect(p) ==
    /\ Running(p) /\ connected[p]
    /\ \/ link = "broken" /\ UNCHANGED breaks
       \/ link # "broken" /\ breaks < MaxBreaks /\ breaks' = breaks + 1
    /\ DropSide(p)
    /\ validated' = [validated EXCEPT ![p] = FALSE]
    /\ recovering' = [recovering EXCEPT ![p] = TRUE]
    /\ UNCHANGED <<pc, frame, timeline>>

\* A CONNECT event.  The client retries (RetryConnection) once its side is
\* down; the host has room for one peer.
Connect(p) ==
    /\ Running(p) /\ Running(Other(p)) /\ ~connected[p]
    /\ \/ p = "client" /\ link = "down" /\ link' = "half"
       \/ p = "host" /\ link = "half" /\ link' = "up"
    /\ connected' = [connected EXCEPT ![p] = TRUE]
    /\ validated' = [validated EXCEPT ![p] = FALSE]
    /\ recovering' = [recovering EXCEPT ![p] = TRUE]
    /\ reliable' = [reliable EXCEPT ![Other(p)] = Append(@, Resume(ResumeFrame(p)))]
    /\ UNCHANGED <<pc, frame, timeline, datagrams, breaks>>

\* The recovery deadline of the pump, or the timeout of the gate.
GiveUp(p) ==
    /\ Running(p) /\ recovering[p]
    /\ pc' = [pc EXCEPT ![p] = "deadline-exceeded"]
    /\ IF connected[p] THEN DropSide(p)
       ELSE UNCHANGED <<connected, link, reliable, datagrams>>
    /\ UNCHANGED <<frame, timeline, validated, recovering, breaks>>

-----------------------------------------------------------------------------
Step(p) ==
    \/ SendInput(p) \/ ResendInput(p) \/ SendResume(p) \/ PassGate(p)
    \/ StallAtGate(p) \/ ReceiveReliable(p)
    \/ ReceiveDatagram(p, "bundle") \/ ReceiveDatagram(p, "resume")
    \/ LoseDatagram(p) \/ Disconnect(p) \/ Connect(p) \/ GiveUp(p)

Next == \E p \in Peers : Step(p)

Spec == Init /\ [][Next]_vars

\* The emulator threads run and pump, ENet retransmits, times out and
\* reconnects, and a bundle that is sent again and again gets through.
\* Nothing is asked of the periodic Resume.
Fairness ==
    \A p \in Peers :
        /\ WF_vars(SendInput(p)) /\ WF_vars(ResendInput(p))
        /\ WF_vars(PassGate(p))
        /\ WF_vars(ReceiveReliable(p)) /\ WF_vars(Connect(p))
        /\ WF_vars(link = "broken" /\ Disconnect(p))
        /\ SF_vars(ReceiveDatagram(p, "bundle"))

FairSpec == Spec /\ Fairness

-----------------------------------------------------------------------------
(* Properties *)

Exited(p) == ~Running(p)

\* The state of NsmbNetplaySession stays within its types: the frontier and
\* the acknowledgement are frames of the epoch.
TypeOK ==
    /\ pc \in [Peers -> {"send", "gate", "result", "future-input-ack",
                         "input-history-missing", "deadline-exceeded"}]
    /\ frame \in [Peers -> Epoch .. LastFrame]
    /\ local \in [Peers -> [InputFrames -> MaybeInputs]]
    /\ remote \in [Peers -> [InputFrames -> MaybeInputs]]
    /\ contig \in [Peers -> (Epoch - 1) .. (LastFrame + Delay)]
    /\ ack \in [Peers -> InputFrames \cup {NoFrame}]
    /\ lastSent \in [Peers -> InputFrames \cup {NoFrame}]
    /\ connected \in [Peers -> BOOLEAN] /\ validated \in [Peers -> BOOLEAN]
    /\ recovering \in [Peers -> BOOLEAN]
    /\ link \in {"down", "half", "up", "broken"}
    /\ breaks \in 0 .. MaxBreaks

\* What a peer holds for a frame is what the other player pressed for it,
\* whatever was resent, reordered or replayed after a reconnection.
InputsAgree ==
    \A p \in Peers, f \in InputFrames :
        remote[p][f] # None => remote[p][f] = local[Other(p)][f]

\* An input a peer takes as acknowledged, and will never send again, has
\* arrived with all inputs before it.
AckSound ==
    \A p \in Peers : ack[p] # NoFrame => ack[p] <= contig[Other(p)]

\* The frontier never waits for a hole: a bundle starts at the latest after the
\* last frame its receiver has, so that what arrives extends it without gaps
\* although bundles are lost and overtake each other.
NoGaps == \A p \in Peers : Known(remote[p]) = Epoch .. contig[p]

\* Reconnecting to the same peer is never refused: neither
\* "future-input-ack" nor "input-history-missing" ends the process.
ResumeAccepted ==
    \A p \in Peers : pc[p] \notin {"future-input-ack", "input-history-missing"}

\* No peer runs further ahead of the other than the horizon and the input
\* delay allow.
LeadBounded ==
    \A p \in Peers : frame[p] <= frame[Other(p)] + Delay + Horizon + 1

\* Every input arrives in the end, unless a process gives up.
AllDelivered ==
    <>[](\/ \E p \in Peers : Exited(p)
         \/ \A p \in Peers : contig[p] = LastFrame + Delay)

\* Once a peer is in the result scene the other one gets there too; nothing but
\* the deadline of its wait (GiveUp) could keep it from it.
ResultReached ==
    \A p \in Peers :
        pc[p] = "result" ~> pc[Other(p)] = "result" \/ \E q \in Peers : Exited(q)

\* A recovery ends, with the gate open again or with the process.
RecoveryEnds ==
    \A p \in Peers :
        recovering[p] ~> ~recovering[p] \/ Exited(p) \/ Exited(Other(p))
=============================================================================
