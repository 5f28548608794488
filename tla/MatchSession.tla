----------------------------- MODULE MatchSession -----------------------------
(***************************************************************************)
(* How two processes start a match together, and the next one: the         *)
(* start-ready handshake (NsmbNetplayProtocol, NsmbNetplaySession), the    *)
(* generations of a series of matches (NsmbMvlLifecycle), the Resume       *)
(* exchange after a lost connection or a restarted process.                *)
(*                                                                         *)
(* A peer whose game stands at the start of a stage describes its state in *)
(* a StartReady, and the match begins when both descriptions agree.  The   *)
(* state is abstracted to tick, the number of frames the game has run      *)
(* since it could have started: both games are deterministic until then.   *)
(* The inputs of a match (module InputLink) are one message here: a match  *)
(* ends for a peer that has received the other's.                          *)
(***************************************************************************)
EXTENDS Integers, Sequences

CONSTANTS
    None,
    LastGeneration,  \* bound: matches after the first one
    MaxTimeouts,     \* bound: waits of a peer that time out, per generation
    MaxFaults,       \* bound: connections lost and processes started again
    MaxQueue,        \* bound: reliable packets under way when one is resent
    PumpThread       \* MELONDS_NSML_NET_PUMP_THREAD

ASSUME SessionAssumption ==
    /\ LastGeneration \in Nat /\ MaxTimeouts \in Nat /\ MaxFaults \in Nat
    /\ MaxQueue \in Nat \ {0} /\ PumpThread \in BOOLEAN

Peers == {"host", "client"}
Other(p) == IF p = "host" THEN "client" ELSE "host"

VARIABLES
    pc,          \* "run" to the stage, "mark", "wait", "play", "result", exits
    gen,         \* Generation_
    tick,        \* frames the game has run since it could have started
    local,       \* LocalReady_: the tick it describes
    ready,       \* LocalReadyFrame_ is set
    remote,      \* RemoteReady_: the tick it describes
    seen,        \* RemoteReady_ as read before it is validated
    after,       \* RemoteReadyAfterLocal_
    sent,        \* StartReadySent_
    match,       \* Validation_ is Match
    epochKnown,  \* LogicalEpochEstablished_
    gotInput,    \* an input of this generation's match has been received
    partner,     \* history: the process whose StartReady was accepted
    connected,   \* Transport.Peer is set
    once,        \* ConnectedOnce
    validated,   \* ResumeValidated
    recovering,  \* RecoveryStarted
    nonce,       \* SessionNonce: which process this is
    remoteNonce, \* RemoteSessionNonce
    link,        \* "down", "half" (the client only), "up", "broken"
    queue,       \* reliable packets under way to a peer, in order
    resume,      \* the periodic Resume under way to a peer
    breaks       \* connections lost so far

handshake == <<local, ready, remote, seen, after, sent, match, epochKnown>>
session == <<connected, once, validated, recovering, remoteNonce>>
network == <<link, queue, resume, breaks>>
vars == <<pc, gen, tick, handshake, gotInput, partner, session, nonce, network>>

Running(p) == pc[p] \notin {"exit70", "exit72"}
Faults == breaks + nonce["host"] + nonce["client"]
Usable(p) == connected[p] /\ validated[p]

-----------------------------------------------------------------------------
(* Messages *)

Ready(g, t) == [kind |-> "ready", gen |-> g, value |-> t]
Inputs(g) == [kind |-> "inputs", gen |-> g, value |-> None]
Resume(g, n) == [kind |-> "resume", gen |-> g, value |-> n]

\* What is sent to a peer that has dropped the connection is lost.
Sent(q, p, packets) ==
    IF link \in {"half", "up"} THEN [q EXCEPT ![Other(p)] = @ \o packets] ELSE q

\* Mutant: only the generation is compared.
ValidateGeneration(l, r) == TRUE

\* ValidateStartReady of two descriptions of one generation: stage, seed,
\* packet tick, random state and semantic hash.
ValidateStartReady(l, r) == l = r

-----------------------------------------------------------------------------
\* A process that has just started: BeginGeneration(0), not connected yet.
Init ==
    /\ pc = [p \in Peers |-> "run"] /\ gen = [p \in Peers |-> 0]
    /\ tick = [p \in Peers |-> 0]
    /\ local = [p \in Peers |-> None] /\ ready = [p \in Peers |-> FALSE]
    /\ remote = [p \in Peers |-> None] /\ seen = [p \in Peers |-> None]
    /\ after = [p \in Peers |-> FALSE] /\ sent = [p \in Peers |-> FALSE]
    /\ match = [p \in Peers |-> FALSE]
    /\ epochKnown = [p \in Peers |-> p = "host"]
    /\ gotInput = [p \in Peers |-> FALSE] /\ partner = [p \in Peers |-> None]
    /\ connected = [p \in Peers |-> FALSE] /\ once = [p \in Peers |-> FALSE]
    /\ validated = [p \in Peers |-> TRUE] /\ recovering = [p \in Peers |-> FALSE]
    /\ nonce = [p \in Peers |-> 0] /\ remoteNonce = [p \in Peers |-> None]
    /\ link = "down" /\ breaks = 0
    /\ queue = [p \in Peers |-> <<>>] /\ resume = [p \in Peers |-> None]

\* Runtime::BeginGeneration, with the inputs of the old one forgotten.
BeginGeneration(p, g) ==
    /\ gen' = [gen EXCEPT ![p] = g]
    /\ tick' = [tick EXCEPT ![p] = 0]
    /\ local' = [local EXCEPT ![p] = None]
    /\ ready' = [ready EXCEPT ![p] = FALSE]
    /\ remote' = [remote EXCEPT ![p] = None]
    /\ seen' = [seen EXCEPT ![p] = None]
    /\ after' = [after EXCEPT ![p] = FALSE]
    /\ sent' = [sent EXCEPT ![p] = FALSE]
    /\ match' = [match EXCEPT ![p] = FALSE]
    /\ epochKnown' = [epochKnown EXCEPT ![p] = p = "host"]
    /\ gotInput' = [gotInput EXCEPT ![p] = FALSE]
    /\ partner' = [partner EXCEPT ![p] = None]
    /\ pc' = [pc EXCEPT ![p] = "run"]

-----------------------------------------------------------------------------
(* WaitForRemoteStartReady *)

\* The game can start: BeginLocalReady, and the remote StartReady is read,
\* outside the session mutex.
BecomeReady(p) ==
    /\ pc[p] = "run"
    /\ local' = [local EXCEPT ![p] = tick[p]]
    /\ ready' = [ready EXCEPT ![p] = TRUE]
    /\ after' = [after EXCEPT ![p] = FALSE]
    /\ seen' = [seen EXCEPT ![p] = remote[p]]
    /\ pc' = [pc EXCEPT ![p] = "mark"]
    /\ UNCHANGED <<gen, tick, remote, sent, match, epochKnown, gotInput, partner,
                   session, nonce, network>>

\* MarkStartReadyValidation, still outside: a StartReady that the pump thread
\* handles in between is judged by the one read before.
MarkValidation(p) ==
    /\ pc[p] = "mark"
    /\ match' = IF seen[p] = None THEN match
                ELSE [match EXCEPT ![p] = ValidateStartReady(tick[p], seen[p])]
    /\ seen' = [seen EXCEPT ![p] = None]
    /\ pc' = [pc EXCEPT ![p] = "wait"]
    /\ UNCHANGED <<gen, tick, local, ready, remote, after, sent, epochKnown,
                   gotInput, partner, session, nonce, network>>

CanSendStartReady(p) == connected[p] /\ epochKnown[p] /\ local[p] # None

\* SendStartReadyLocked
SendStartReady(p) ==
    /\ pc[p] = "wait" /\ CanSendStartReady(p) /\ ~sent[p]
    /\ queue' = Sent(queue, p, <<Ready(gen[p], local[p])>>)
    /\ sent' = [sent EXCEPT ![p] = TRUE]
    /\ UNCHANGED <<pc, gen, tick, local, ready, remote, seen, after, match,
                   epochKnown, gotInput, partner, session, nonce, link, resume, breaks>>

\* Mutant: nothing is resent once the own wait is over.
ResendWhileWaiting(p) == pc[p] = "wait" /\ sent[p] /\ ready[p] /\ ~gotInput[p]

\* ShouldResendStartReady: in the wait, and at the gates of the match until the
\* other peer's inputs arrive.
ShouldResendStartReady(p) ==
    pc[p] \in {"wait", "play"} /\ sent[p] /\ ready[p] /\ ~gotInput[p]

ResendStartReady(p) ==
    /\ ShouldResendStartReady(p) /\ CanSendStartReady(p)
    /\ Len(queue[Other(p)]) < MaxQueue
    /\ queue' = Sent(queue, p, <<Ready(gen[p], local[p])>>)
    /\ UNCHANGED <<pc, gen, tick, handshake, gotInput, partner, session, nonce, link,
                   resume, breaks>>

\* An iteration of the wait sends before it looks at the answer.
Looks(p) == pc[p] = "wait" /\ (sent[p] \/ ~CanSendStartReady(p))

\* ShouldAcceptStartReady, for a validated StartReady.
Acceptable(p) == remote[p] # None /\ match[p] /\ (after[p] \/ gotInput[p])
Refusable(p) == remote[p] # None /\ ~match[p]

\* The peer's side of the connection is gone, with all that was under way to it.
DropSide(p) ==
    /\ connected' = [connected EXCEPT ![p] = FALSE]
    /\ link' = IF connected[Other(p)] THEN "broken" ELSE "down"
    /\ queue' = [q \in Peers |-> IF q = p \/ ~connected[q] THEN <<>> ELSE queue[q]]
    /\ resume' = [q \in Peers |-> IF q = p \/ ~connected[q] THEN None ELSE resume[q]]

\* The process ends; its connection, if any, breaks.
Exit(p, code) ==
    /\ pc' = [pc EXCEPT ![p] = code]
    /\ IF connected[p] THEN DropSide(p) ELSE UNCHANGED <<connected, link, queue, resume>>

\* The match starts with the epoch primed; the first inputs are sent, or
\* replayed after the Resume of the next connection.
AcceptStartReady(p) ==
    /\ Looks(p) /\ Acceptable(p)
    /\ pc' = [pc EXCEPT ![p] = "play"]
    /\ partner' = [partner EXCEPT ![p] = remoteNonce[p]]
    /\ queue' = IF Usable(p) THEN Sent(queue, p, <<Inputs(gen[p])>>) ELSE queue
    /\ UNCHANGED <<gen, tick, handshake, gotInput, session, nonce, link, resume, breaks>>

\* "refusing gameplay start"
RefuseStartReady(p) ==
    /\ Looks(p) /\ Refusable(p)
    /\ Exit(p, "exit72")
    /\ UNCHANGED <<gen, tick, handshake, gotInput, partner, once, validated, recovering,
                   remoteNonce, nonce, breaks>>

\* ResetReadyWaitAfterTimeout, and the game runs one more frame.
TimeOut(p) ==
    /\ Looks(p) /\ tick[p] < MaxTimeouts
    /\ PumpThread \/ ~(Acceptable(p) \/ Refusable(p))
    /\ ready' = [ready EXCEPT ![p] = FALSE]
    /\ after' = [after EXCEPT ![p] = FALSE]
    /\ sent' = [sent EXCEPT ![p] = FALSE]
    /\ tick' = [tick EXCEPT ![p] = @ + 1]
    /\ pc' = [pc EXCEPT ![p] = "run"]
    /\ UNCHANGED <<gen, local, remote, seen, match, epochKnown, gotInput, partner,
                   session, nonce, network>>

-----------------------------------------------------------------------------
(* The match, its result and the next match *)

\* The horizon gate lets the last frames through: the session is ready and the
\* inputs are there.  That completes a recovery.
FinishMatch(p) ==
    /\ pc[p] = "play" /\ Usable(p) /\ gotInput[p]
    /\ pc' = [pc EXCEPT ![p] = "result"]
    /\ recovering' = [recovering EXCEPT ![p] = FALSE]
    /\ UNCHANGED <<gen, tick, handshake, gotInput, partner, connected, once, validated,
                   remoteNonce, nonce, network>>

\* Mutant: a restart that failed has counted.
TwoRestarts(p) == gen[p] + 2

RestartCount(p) == gen[p] + 1

\* RestartAfterResultIfNeeded: the result scene runs without inputs, and ends
\* whatever the other peer does.
RestartAfterResult(p) ==
    /\ pc[p] = "result" /\ gen[p] < LastGeneration
    /\ BeginGeneration(p, RestartCount(p))
    /\ UNCHANGED <<session, nonce, network>>

-----------------------------------------------------------------------------
(* What the pump handles *)

\* Mutant: a StartReady or an input of any generation counts.
AnyGeneration(p, m) == TRUE

IsCurrentGeneration(p, m) == m.gen = gen[p]

ReceiveStartReady(p, m) ==
    /\ epochKnown' = [epochKnown EXCEPT ![p] = TRUE]
    /\ remote' = [remote EXCEPT ![p] = m.value]
    /\ after' = [after EXCEPT ![p] = @ \/ ready[p]]
    /\ match' = IF local[p] = None THEN match
                ELSE [match EXCEPT ![p] = ValidateStartReady(local[p], m.value)]
    /\ UNCHANGED <<local, ready, seen, sent, gotInput>>

\* Mutant: the nonce is not compared.
NoNonceCheck(p, m) == FALSE

\* "different-peer-session"
DifferentPeerSession(p, m) ==
    remoteNonce[p] # None /\ remoteNonce[p] # m.value

\* ReceiveResumeLocked: the first Resume of this generation on a new connection
\* makes the session usable, and the inputs recorded so far are sent again.
Resumes(p, m) == m.gen = gen[p] /\ ~validated[p]

Replay(p, m) ==
    IF Resumes(p, m) /\ pc[p] \in {"play", "result"} THEN <<Inputs(gen[p])>> ELSE <<>>

ReceiveResume(p, m, rest) ==
    IF DifferentPeerSession(p, m)
    THEN /\ Exit(p, "exit70")
         /\ UNCHANGED <<validated, remoteNonce>>
    ELSE /\ remoteNonce' = [remoteNonce EXCEPT ![p] = m.value]
         /\ validated' = [validated EXCEPT ![p] = @ \/ Resumes(p, m)]
         /\ queue' = Sent(rest, p, Replay(p, m))
         /\ resume' = [resume EXCEPT ![p] = IF m = @ THEN None ELSE @]
         /\ UNCHANGED <<pc, connected, link>>

\* Before the Resume of this connection everything else is dropped.
ReceiveOther(p, m) ==
    IF validated[p] /\ IsCurrentGeneration(p, m)
    THEN \/ m.kind = "ready" /\ ReceiveStartReady(p, m)
         \/ /\ m.kind = "inputs" /\ gotInput' = [gotInput EXCEPT ![p] = TRUE]
            /\ UNCHANGED handshake
    ELSE UNCHANGED <<handshake, gotInput>>

\* The emulator thread pumps wherever it is, except between reading a remote
\* StartReady and judging it; the pump thread does there as well.
Pumps(p) == Running(p) /\ connected[p] /\ (pc[p] = "mark" => PumpThread)

ReceiveReliable(p) ==
    LET m == Head(queue[p])
        rest == [queue EXCEPT ![p] = Tail(@)]
    IN  /\ Pumps(p) /\ queue[p] # <<>>
        /\ IF m.kind = "resume"
           THEN ReceiveResume(p, m, rest) /\ UNCHANGED <<handshake, gotInput>>
           ELSE /\ ReceiveOther(p, m)
                /\ queue' = rest
                /\ UNCHANGED <<pc, connected, link, resume, validated, remoteNonce>>
        /\ UNCHANGED <<gen, tick, partner, once, recovering, nonce, breaks>>

\* The Resume of every 250 ms.  A validated peer ignores it and loses it with
\* the connection: only the others are worth sending here.
SendResume(p) ==
    /\ Running(p) /\ connected[p] /\ ~validated[Other(p)] /\ link \in {"half", "up"}
    /\ resume' = [resume EXCEPT ![Other(p)] = Resume(gen[p], nonce[p])]
    /\ UNCHANGED <<pc, gen, tick, handshake, gotInput, partner, session, nonce, link,
                   queue, breaks>>

ReceivePeriodicResume(p) ==
    /\ Pumps(p) /\ resume[p] # None
    /\ ReceiveResume(p, resume[p], queue)
    /\ UNCHANGED <<gen, tick, handshake, gotInput, partner, once, recovering, nonce,
                   breaks>>

-----------------------------------------------------------------------------
(* The connection *)

Disconnect(p) ==
    /\ Running(p) /\ connected[p]
    /\ \/ link = "broken" /\ UNCHANGED breaks
       \/ link # "broken" /\ Faults < MaxFaults /\ breaks' = breaks + 1
    /\ DropSide(p)
    /\ validated' = [validated EXCEPT ![p] = FALSE]
    /\ recovering' = [recovering EXCEPT ![p] = TRUE]
    /\ UNCHANGED <<pc, gen, tick, handshake, gotInput, partner, once, remoteNonce, nonce>>

\* A CONNECT event: Runtime::OnPeerConnected the first time, a recovery later.
Connect(p) ==
    /\ Running(p) /\ Running(Other(p)) /\ ~connected[p]
    /\ \/ p = "client" /\ link = "down" /\ link' = "half"
       \/ p = "host" /\ link = "half" /\ link' = "up"
    /\ connected' = [connected EXCEPT ![p] = TRUE]
    /\ once' = [once EXCEPT ![p] = TRUE]
    /\ IF once[p]
       THEN /\ recovering' = [recovering EXCEPT ![p] = TRUE]
            /\ validated' = [validated EXCEPT ![p] = FALSE]
            /\ UNCHANGED handshake
       ELSE /\ sent' = [sent EXCEPT ![p] = FALSE]
            /\ remote' = [remote EXCEPT ![p] = None]
            /\ after' = [after EXCEPT ![p] = FALSE]
            /\ UNCHANGED <<recovering, validated, local, ready, seen, match, epochKnown>>
    /\ queue' = [queue EXCEPT ![Other(p)] = Append(@, Resume(gen[p], nonce[p]))]
    /\ UNCHANGED <<pc, gen, tick, gotInput, partner, remoteNonce, nonce, resume, breaks>>

\* The recovery deadline, or the timeout of a gate.
GiveUp(p) ==
    /\ Running(p)
    /\ recovering[p] \/ (pc[p] = "play" /\ ~(Usable(p) /\ gotInput[p]))
    /\ Exit(p, "exit70")
    /\ UNCHANGED <<gen, tick, handshake, gotInput, partner, once, validated, recovering,
                   remoteNonce, nonce, breaks>>

\* The process dies and is started again, with nothing of its session left.
RestartProcess(p) ==
    /\ Running(p) /\ Faults < MaxFaults
    /\ nonce' = [nonce EXCEPT ![p] = @ + 1]
    /\ BeginGeneration(p, 0)
    /\ IF connected[p] THEN DropSide(p) ELSE UNCHANGED <<connected, link, queue, resume>>
    /\ once' = [once EXCEPT ![p] = FALSE]
    /\ validated' = [validated EXCEPT ![p] = TRUE]
    /\ recovering' = [recovering EXCEPT ![p] = FALSE]
    /\ remoteNonce' = [remoteNonce EXCEPT ![p] = None]
    /\ UNCHANGED breaks

-----------------------------------------------------------------------------
Step(p) ==
    \/ BecomeReady(p) \/ MarkValidation(p) \/ SendStartReady(p)
    \/ ResendStartReady(p) \/ AcceptStartReady(p) \/ RefuseStartReady(p)
    \/ TimeOut(p) \/ FinishMatch(p) \/ RestartAfterResult(p)
    \/ ReceiveReliable(p) \/ SendResume(p) \/ ReceivePeriodicResume(p)
    \/ Disconnect(p) \/ Connect(p) \/ GiveUp(p) \/ RestartProcess(p)

Next == \E p \in Peers : Step(p)

Spec == Init /\ [][Next]_vars

\* The emulator threads run and pump, ENet delivers what is reliable, notices a
\* dead connection and reconnects, and of the periodic Resumes some arrive.
Fairness ==
    \A p \in Peers :
        /\ WF_vars(BecomeReady(p) \/ MarkValidation(p) \/ SendStartReady(p)
                   \/ AcceptStartReady(p) \/ RefuseStartReady(p)
                   \/ FinishMatch(p) \/ RestartAfterResult(p))
        /\ WF_vars(ResendStartReady(p))
        /\ WF_vars(ReceiveReliable(p)) /\ WF_vars(Connect(p))
        /\ WF_vars(link = "broken" /\ Disconnect(p))
        /\ WF_vars(resume[Other(p)] = None /\ SendResume(p))
        /\ SF_vars(ReceivePeriodicResume(p))

FairSpec == Spec /\ Fairness

-----------------------------------------------------------------------------
(* Properties *)

Started(p) == pc[p] \in {"play", "result"}
Ticks == 0 .. MaxTimeouts
Nonces == 0 .. MaxFaults

\* What the peers send each other.
Packets ==
    {Ready(g, t) : g \in 0 .. LastGeneration, t \in Ticks}
    \cup {Inputs(g) : g \in 0 .. LastGeneration}
    \cup {Resume(g, n) : g \in 0 .. LastGeneration, n \in Nonces}

ASSUME NoneAssumption == None \notin Ticks /\ None \notin Nonces /\ None \notin Packets

\* The handshake's state stays within its types, generations within the series.
TypeOK ==
    /\ pc \in [Peers -> {"run", "mark", "wait", "play", "result", "exit70", "exit72"}]
    /\ gen \in [Peers -> 0 .. LastGeneration]
    /\ tick \in [Peers -> Ticks] /\ local \in [Peers -> Ticks \cup {None}]
    /\ remote \in [Peers -> Ticks \cup {None}] /\ seen \in [Peers -> Ticks \cup {None}]
    /\ \A b \in {ready, after, sent, match, epochKnown, gotInput, connected, once,
                 validated, recovering} : b \in [Peers -> BOOLEAN]
    /\ nonce \in [Peers -> Nonces] /\ remoteNonce \in [Peers -> Nonces \cup {None}]
    /\ partner \in [Peers -> Nonces \cup {None}]
    /\ link \in {"down", "half", "up", "broken"} /\ breaks \in 0 .. MaxFaults

\* Two peers that both play a match of one generation started it from the same
\* state of the game, whatever timed out, was resent, reconnected or was judged
\* outside the mutex.
SameStart ==
    \A p \in Peers :
        Started(p) /\ Started(Other(p)) /\ gen[p] = gen[Other(p)]
            => tick[p] = tick[Other(p)]

\* Nobody starts alone: when a peer plays generation g, the other process, if
\* it is still the same one, has been ready in g.  A StartReady or an input of
\* the match before never counts.
NobodyStartsAlone ==
    \A p \in Peers :
        LET q == Other(p)
        IN  Started(p) /\ Running(q) /\ nonce[q] = partner[p]
                => \/ gen[q] > gen[p]
                   \/ gen[q] = gen[p] /\ local[q] # None

\* A peer in a match never takes a restarted process for the one it started the
\* match with: a connection to it is not usable.
NoStranger ==
    \A p \in Peers :
        pc[p] = "play" /\ Usable(p) /\ link = "up" => nonce[Other(p)] = partner[p]

\* A process has ended or been replaced: all the other one can do is end as well.
PeerLost == \E q \in Peers : ~Running(q) \/ nonce[q] > 0

\* A peer plays a match that the other one has not started.
Alone(p) ==
    /\ pc[p] = "play"
    /\ gen[Other(p)] < gen[p] \/ (gen[Other(p)] = gen[p] /\ ~Started(Other(p)))

\* A peer that has sent its StartReady does not play alone for ever: although
\* StartReady messages are dropped before the Resume of a connection and lost
\* with it, the resends of the gates start the other peer too.  (One that
\* accepted in the very pump that lost its connection has not sent it, and
\* never does.)
StartCompletes == []<>(PeerLost \/ \A p \in Peers : Alone(p) => ~sent[p])

\* "Healthy peers can cross a result/rematch boundary at different times.  Wait
\* for the same generation": a peer does not wait for ever in the next
\* generation while the other one stays in the match before.
RematchReached == []<>(PeerLost \/ \A p \in Peers : gen[p] = gen[Other(p)])
=============================================================================
