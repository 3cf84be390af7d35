------------------------- MODULE InteractiveSession -------------------------
(***************************************************************************)
(* One interactive prompt run: the session that carries input from the     *)
(* clients to the agent and its output back to them                        *)
(* (pkg/runs/interactive_session.go), the forwarder of the client that     *)
(* created the run, the clients that attach later, the pump that hands one *)
(* message per turn to the agent, the loop that follows the agent, StopRun *)
(* and, for a run behind the guest supervisor, shutdown, crash and resume. *)
(*                                                                         *)
(* A message is its kind and the lease it was sent under.  The text, the   *)
(* transcript and the three terminal states of a session are not told      *)
(* apart.                                                                  *)
(***************************************************************************)
EXTENDS Naturals, Sequences, FiniteSets

CONSTANTS
    Clients,      \* clients that may attach to the run after it started
    Modes,        \* how the run was started, a subset of AllModes
    InputCap,     \* capacity of the session's input channel (32 in the code)
    SubCap,       \* capacity of a subscriber's channel (32 in the code)
    MaxFrames,    \* bound: frames the clients send
    MaxLeases,    \* bound: input leases taken
    MaxFaults,    \* bound: lost connections, failing calls and failing turns
    MaxRestarts,  \* bound: restarts of the daemon
    None

AllModes == {"bound", "detach", "supervised"}
Creator == "creator"
Stopper == "stopper"
Senders == Clients \cup {Creator, Stopper}

ASSUME ModesKnown == Modes \subseteq AllModes
ASSUME SendersDistinct == IsFiniteSet(Clients) /\ Clients \cap {Creator, Stopper} = {}
ASSUME BoundsPositive == InputCap \in Nat \ {0} /\ SubCap \in Nat \ {0}

VARIABLES
    mode,      \* bound to its client, detachable, or also behind the supervisor
    run,       \* the run's row: "running" or "ended"
    inMap,     \* InteractiveSessionManager.sessions holds the session
    sess,      \* the session: state, attached, promptTurns, promptTurnsPending
    input,     \* the session's input channel
    lease,     \* input leases granted so far
    snd,       \* the call of session.send each sender is in
    creator,   \* the forwarder of the client that created the run
    cl,        \* where each attached client's handler is
    subs,      \* each client's subscription: its channel, the outputs published
               \* since it was made and the last one the client took
    stop,      \* StopActiveRun's disposition
    pump,      \* pumpRunPromptAttachInput
    token,     \* turnReady holds a token
    closed,    \* the runtime interaction's input is closed
    inbox,     \* frames on the agent's stdin
    agent,     \* the guest runner: "idle", "turn" or "exited"
    out,       \* frames the agent wrote that the daemon has not read
    loop,      \* where the goroutine that executes the run is
    ctxDone,   \* the run's context is canceled
    cut,       \* the attach to the supervised task was canceled with an error
    shutdown,  \* the daemon of a supervised run is shutting down
    restarts, frames, faults,
    early,     \* messages accepted before turns were tracked
    heard      \* the lease of the last frame the pump took

session == <<run, inMap, sess, input, lease>>
clients == <<snd, creator, cl, subs>>
feed == <<pump, token>>
guest == <<closed, inbox, agent, out>>
daemon == <<loop, ctxDone, cut, shutdown, restarts>>
bounds == <<frames, faults>>
ghosts == <<early, heard>>
vars == <<mode, session, clients, stop, feed, guest, daemon, bounds, ghosts>>

----------------------------------------------------------------------------
Quiet == [pc |-> "none", kind |-> "eof", lease |-> 0, reserved |-> FALSE]
NewSession(state) == [state |-> state, attached |-> FALSE, turns |-> FALSE, pending |-> 0]

(* CreateAttached: the session is visible with its first lease held.       *)
Init ==
    /\ mode \in Modes
    /\ run = "running" /\ inMap = TRUE
    /\ sess = [NewSession("running") EXCEPT !.attached = TRUE]
    /\ input = <<>> /\ lease = 1
    /\ snd = [p \in Senders |-> Quiet]
    /\ creator = [pc |-> "recv", gone |-> FALSE, sentEOF |-> FALSE, last |-> FALSE]
    /\ cl = [c \in Clients |-> "idle"]
    /\ subs = [c \in Clients |-> None]
    /\ stop = "idle"
    /\ pump = "none" /\ token = FALSE
    /\ closed = FALSE /\ inbox = <<>> /\ agent = "idle" /\ out = <<>>
    /\ loop = "prepare" /\ ctxDone = FALSE /\ cut = FALSE /\ shutdown = FALSE
    /\ restarts = 0 /\ frames = 0 /\ faults = 0 /\ early = 0 /\ heard = 0

Faults == faults < MaxFaults /\ faults' = faults + 1
FaultUnless(cause) == IF cause THEN UNCHANGED faults ELSE Faults
Terminal == sess.state = "closed"
Supervised == mode = "supervised"
Done == loop = "gone"

(* The contexts derived from the run's: preparation and a direct           *)
(* interaction also stop with the daemon, and so does the input pump of    *)
(* the daemon that started the run.                                        *)
PumpCtxDone ==
    \/ ctxDone \/ (shutdown /\ restarts = 0)
    \/ loop \notin {"prepare", "begin", "first", "recv", "deliver"}

----------------------------------------------------------------------------
(* The runtime interaction.                                                *)

(* detachedInteraction.Send and the guard around it: nothing reaches the   *)
(* task once the input is closed or the daemon goes away.                  *)
CanSend == ~closed /\ ~(Supervised /\ shutdown)
Hears(box, k) == IF agent = "exited" THEN box ELSE Append(box, k)
Told(k) == IF CanSend THEN Hears(inbox, k) ELSE inbox

(* CloseSend ends the agent's input, unless a supervised task must outlive *)
(* the daemon.                                                             *)

(* Faulty variant: the input is closed whatever takes the daemon away.     *)
WithCloseAlways(box) == IF ~closed THEN Hears(box, "close") ELSE box
WithClose(box) == IF CanSend THEN Hears(box, "close") ELSE box
CloseSend(box) == closed' = TRUE /\ inbox' = WithClose(box)

----------------------------------------------------------------------------
(* InteractiveSession.                                                     *)

Starts(k) == k = "msg"

LowerPending(s) == [s EXCEPT !.pending = IF @ > 0 THEN @ - 1 ELSE 0]

(* The first half of send: reserve the turn under the session's lock.  A   *)
(* closed session is refused by SendFails.                                 *)
Reserve(p, k) ==
    LET tracked == Starts(k) /\ sess.turns /\ ~Terminal
    IN  /\ snd' = [snd EXCEPT ![p] = [pc |-> "blocked", kind |-> k, reserved |-> tracked,
                                       lease |-> IF p = Stopper THEN 0 ELSE lease]]
        /\ sess' = [sess EXCEPT !.pending = IF tracked THEN @ + 1 ELSE @]

(* Faulty variant: a failed send always gives a turn back.                 *)
RollBackAlways(p) == LowerPending(sess)
RollBack(p) == IF snd[p].reserved THEN LowerPending(sess) ELSE sess

(* AcquireInput and the release it returns.                                *)
Acquired(s) ==
    [s EXCEPT !.attached = TRUE, !.state = IF @ = "detached" THEN "running" ELSE @]

Released(s) ==
    [s EXCEPT !.attached = FALSE, !.state = IF @ = "running" THEN "detached" ELSE @]

(* Faulty variant: a slow subscriber misses an output and stays.           *)
PublishedOrSkipped(s) ==
    IF s = None \/ ~s.open THEN s
    ELSE [s EXCEPT !.pub = @ + 1,
                   !.buf = IF Len(@) < SubCap THEN Append(@, s.pub + 1) ELSE @]

(* Publish: a subscriber whose channel is full is dropped.                 *)
Published(s) ==
    IF s = None \/ ~s.open THEN s
    ELSE IF Len(s.buf) < SubCap THEN [s EXCEPT !.buf = Append(@, s.pub + 1), !.pub = @ + 1]
    ELSE [s EXCEPT !.open = FALSE, !.dropped = TRUE]
Publish == subs' = [c \in Clients |-> Published(subs[c])]
Hangup(s) == IF s = None THEN s ELSE [s EXCEPT !.open = FALSE]

----------------------------------------------------------------------------
(* The second half of send, for every sender.                              *)

(* The sender's context or its attachment is done.                         *)
Gone(p) ==
    \/ p = Creator /\ (creator.gone \/ loop \in {"remove", "close", "gone"})
    \/ p \in Clients /\ cl[p] = "closing"

(* Unsubscribe and attachment.Close of an attached client's handler.       *)
Leaves(c) ==
    /\ cl' = [cl EXCEPT ![c] = "closing"]
    /\ subs' = [subs EXCEPT ![c] = None]

(* Faulty variant: a stop that could not be queued is only reported.       *)
AfterFailureReported(p) ==
    \/ /\ p = Creator
       /\ creator' = [creator EXCEPT !.pc = "ending"]
       /\ UNCHANGED <<cl, subs, stop, ctxDone>>
    \/ /\ p \in Clients
       /\ IF cl[p] = "open" THEN Leaves(p) ELSE UNCHANGED <<cl, subs>>
       /\ UNCHANGED <<creator, stop, ctxDone>>
    \/ /\ p = Stopper
       /\ stop' = "cancel" /\ UNCHANGED <<creator, cl, subs, ctxDone>>

(* What the sender's loop does with an error from send.                    *)
AfterFailure(p) ==
    \/ /\ p = Creator
       /\ creator' = [creator EXCEPT !.pc = "ending"]
       /\ UNCHANGED <<cl, subs, stop, ctxDone>>
    \/ /\ p \in Clients
       /\ IF cl[p] = "open" THEN Leaves(p) ELSE UNCHANGED <<cl, subs>>
       /\ UNCHANGED <<creator, stop, ctxDone>>
    \/ /\ p = Stopper
       /\ stop' = "cancel" /\ ctxDone' = TRUE
       /\ UNCHANGED <<creator, cl, subs>>

Fails(p) ==
    /\ snd' = [snd EXCEPT ![p] = Quiet]
    /\ sess' = RollBack(p)
    /\ AfterFailure(p)
    /\ UNCHANGED <<mode, run, inMap, input, lease, feed, guest, loop, cut,
                   shutdown, restarts, frames, ghosts>>

(* The call fails when the sender or the session is done.  The select may  *)
(* still queue the frame when both are possible.                           *)
SendFails(p) ==
    /\ snd[p].pc = "blocked" /\ (Gone(p) \/ Done)
    /\ Fails(p) /\ UNCHANGED faults

(* The request that asked for the stop runs into its own deadline.         *)
StopTimesOut ==
    /\ snd[Stopper].pc = "blocked"
    /\ Fails(Stopper) /\ Faults

SendQueued(p) ==
    /\ snd[p].pc = "blocked" /\ Len(input) < InputCap
    /\ input' = Append(input, [kind |-> snd[p].kind, lease |-> snd[p].lease])
    /\ snd' = [snd EXCEPT ![p] = Quiet]
    /\ early' = IF Starts(snd[p].kind) /\ ~snd[p].reserved THEN early + 1 ELSE early
    /\ creator' = IF p = Creator /\ creator.last THEN [creator EXCEPT !.pc = "ending"]
                                                 ELSE creator
    /\ stop' = IF p = Stopper THEN "eof" ELSE stop
    /\ UNCHANGED <<mode, run, inMap, sess, lease, cl, subs, feed, guest, daemon,
                   bounds, heard>>

----------------------------------------------------------------------------
(* forwardRunAttachInputs: the client that created the run.                *)

CreatorIsDone == [pc |-> "done", gone |-> TRUE, sentEOF |-> FALSE, last |-> FALSE]
CreatorReceives == creator.pc = "recv" /\ snd[Creator].pc = "none"

CreatorFrame(k) ==
    /\ CreatorReceives /\ ~creator.gone /\ ~Done /\ frames < MaxFrames
    /\ frames' = frames + 1
    /\ creator' = [creator EXCEPT !.sentEOF = IF k = "eof" THEN TRUE ELSE @]
    /\ Reserve(Creator, k)
    /\ UNCHANGED <<mode, run, inMap, input, lease, cl, subs, stop, feed, guest,
                   daemon, faults, ghosts>>

(* A clean half-close is forwarded as the end of the input, unless the     *)
(* client may come back or has ended the input itself.                     *)
CreatorHalfCloses ==
    /\ CreatorReceives /\ ~creator.gone /\ ~Done
    /\ IF creator.sentEOF \/ mode # "bound"
       THEN /\ creator' = [creator EXCEPT !.pc = "ending"]
            /\ UNCHANGED <<snd, sess>>
       ELSE /\ creator' = [creator EXCEPT !.last = TRUE]
            /\ Reserve(Creator, "eof")
    /\ UNCHANGED <<mode, run, inMap, input, lease, cl, subs, stop, feed, guest,
                   daemon, bounds, ghosts>>

(* The connection is lost; a run bound to it is canceled with it.          *)
CreatorLost ==
    /\ ~creator.gone /\ run = "running" /\ Faults
    /\ creator' = [creator EXCEPT !.gone = TRUE]
    /\ ctxDone' = IF mode = "bound" THEN TRUE ELSE ctxDone
    /\ UNCHANGED <<mode, session, snd, cl, subs, stop, feed, guest, loop, cut,
                   shutdown, restarts, frames, ghosts>>

CreatorReceiveFails ==
    /\ CreatorReceives /\ (creator.gone \/ Done)
    /\ creator' = [creator EXCEPT !.pc = "ending"]
    /\ UNCHANGED <<mode, session, snd, cl, subs, stop, feed, guest, daemon,
                   bounds, ghosts>>

CreatorReleases ==
    /\ creator.pc = "ending"
    /\ creator' = IF mode = "bound" THEN [CreatorIsDone EXCEPT !.gone = creator.gone]
                                    ELSE CreatorIsDone
    /\ sess' = Released(sess)
    /\ UNCHANGED <<mode, run, inMap, input, lease, snd, cl, subs, stop, feed,
                   guest, daemon, bounds, ghosts>>

----------------------------------------------------------------------------
(* attachExistingInteractiveSession: a client that attaches later.         *)

(* The run is not terminal and the manager still has its session.          *)
AttachFinds(c) ==
    /\ cl[c] = "idle" /\ run # "ended" /\ inMap
    /\ lease + Cardinality({d \in Clients : cl[d] = "got"}) < MaxLeases
    /\ cl' = [cl EXCEPT ![c] = "got"]
    /\ UNCHANGED <<mode, session, snd, creator, subs, stop, feed, guest, daemon,
                   bounds, ghosts>>

AttachAcquires(c) ==
    /\ cl[c] = "got"
    /\ IF Terminal \/ sess.attached
       THEN cl' = [cl EXCEPT ![c] = "idle"] /\ UNCHANGED <<sess, lease>>
       ELSE /\ cl' = [cl EXCEPT ![c] = "leased"]
            /\ sess' = Acquired(sess) /\ lease' = lease + 1
    /\ UNCHANGED <<mode, run, inMap, input, snd, creator, subs, stop, feed, guest,
                   daemon, bounds, ghosts>>

AttachSubscribes(c) ==
    /\ cl[c] = "leased"
    /\ IF inMap /\ ~Terminal
       THEN /\ cl' = [cl EXCEPT ![c] = "open"]
            /\ subs' = [subs EXCEPT ![c] = [open |-> TRUE, dropped |-> FALSE, buf |-> <<>>,
                                                 pub |-> 0, seen |-> 0]]
       ELSE Leaves(c)
    /\ UNCHANGED <<mode, session, snd, creator, stop, feed, guest, daemon,
                   bounds, ghosts>>

AttachFrame(c, k) ==
    /\ cl[c] = "open" /\ snd[c].pc = "none" /\ frames < MaxFrames
    /\ frames' = frames + 1
    /\ Reserve(c, k)
    /\ UNCHANGED <<mode, run, inMap, input, lease, creator, cl, subs, stop,
                   feed, guest, daemon, faults, ghosts>>

Taken(s) == [s EXCEPT !.buf = Tail(@), !.seen = Head(s.buf)]
AttachOutput(c) ==
    /\ cl[c] = "open" /\ subs[c].buf # <<>>
    /\ subs' = [subs EXCEPT ![c] = Taken(@)]
    /\ UNCHANGED <<mode, session, snd, creator, cl, stop, feed, guest, daemon,
                   bounds, ghosts>>

(* The client half-closes, fails or goes away, or its channel is closed    *)
(* and drained.                                                            *)
AttachEnds(c) ==
    /\ cl[c] = "open"
    /\ Leaves(c)
    /\ UNCHANGED <<mode, session, snd, creator, stop, feed, guest, daemon,
                   bounds, ghosts>>

(* attachment.Close releases the lease once no Send is under way.          *)

(* Faulty variant: the lease is released under a Send.                     *)
CloseReleasesAtOnce(c) == TRUE
CloseMayRelease(c) == snd[c].pc = "none"
AttachReleases(c) ==
    /\ cl[c] = "closing" /\ CloseMayRelease(c)
    /\ cl' = [cl EXCEPT ![c] = "idle"]
    /\ sess' = Released(sess)
    /\ UNCHANGED <<mode, run, inMap, input, lease, snd, creator, subs, stop, feed,
                   guest, daemon, bounds, ghosts>>

----------------------------------------------------------------------------
(* StopActiveRun and StopInteractiveRun, once per registered run.          *)

StopBegins ==
    /\ stop = "idle" /\ ~Done
    /\ IF inMap THEN stop' = "decide" /\ UNCHANGED ctxDone
                ELSE stop' = "cancel" /\ ctxDone' = TRUE
    /\ UNCHANGED <<mode, session, clients, feed, guest, loop, cut, shutdown,
                   restarts, bounds, ghosts>>

(* promptTurnRunning: an idle prompt session is closed, anything else is   *)
(* interrupted.                                                            *)
ClosesGracefully == sess.turns /\ sess.pending = 0
StopDecides ==
    /\ stop = "decide"
    /\ IF ClosesGracefully
       THEN stop' = "send" /\ Reserve(Stopper, "eof") /\ UNCHANGED ctxDone
       ELSE stop' = "cancel" /\ ctxDone' = TRUE /\ UNCHANGED <<snd, sess>>
    /\ UNCHANGED <<mode, run, inMap, input, lease, creator, cl, subs, feed,
                   guest, loop, cut, shutdown, restarts, bounds, ghosts>>

----------------------------------------------------------------------------
(* pumpRunPromptAttachInput.                                               *)

PumpEnds(box) == pump' = "exited" /\ CloseSend(box)

(* A message waits for its turn; the end of the input or a cancel goes     *)
(* straight to the agent and ends the pump.                                *)
PumpTakes ==
    /\ pump = "recv" /\ ~Done /\ input # <<>>
    /\ input' = Tail(input)
    /\ heard' = IF Head(input).lease = 0 THEN heard ELSE Head(input).lease
    /\ IF Head(input).kind = "msg"
       THEN pump' = "gate" /\ UNCHANGED <<closed, inbox>>
       ELSE PumpEnds(Told(Head(input).kind))
    /\ UNCHANGED <<mode, run, inMap, sess, lease, clients, stop, token, agent,
                   out, daemon, bounds, early>>

PumpSeesClose ==
    /\ pump = "recv" /\ Done
    /\ PumpEnds(Told("eof"))
    /\ UNCHANGED <<mode, session, clients, stop, token, agent, out, daemon,
                   bounds, ghosts>>

(* Faulty variant: the pump looks at the turn without taking it.           *)
SeesTurn == token /\ token' = TRUE
TakesTurn == token /\ token' = FALSE

(* The turn is free: record the message and hand it to the agent.  A       *)
(* message that cannot be recorded or sent ends the pump.                  *)
PumpForwards ==
    /\ pump = "gate" /\ TakesTurn
    /\ \/ /\ CanSend /\ pump' = "recv" /\ inbox' = Told("msg")
          /\ UNCHANGED <<closed, faults>>
       \/ PumpEnds(inbox) /\ FaultUnless(~CanSend)
    /\ UNCHANGED <<mode, session, clients, stop, agent, out, daemon, frames,
                   ghosts>>

PumpCanceled ==
    /\ pump = "gate" /\ PumpCtxDone
    /\ PumpEnds(inbox)
    /\ UNCHANGED <<mode, session, clients, stop, token, agent, out, daemon,
                   bounds, ghosts>>

----------------------------------------------------------------------------
(* The guest runner (runtime/javascript/src/stream.ts) reads its frames in *)
(* order and works on one message at a time.                               *)

AgentReads ==
    /\ agent = "idle" /\ inbox # <<>>
    /\ inbox' = Tail(inbox)
    /\ IF Head(inbox) = "msg"
       THEN agent' = "turn" /\ UNCHANGED out
       ELSE agent' = "exited" /\ out' = Append(out, "result")
    /\ UNCHANGED <<mode, session, clients, stop, feed, closed, daemon, bounds,
                   ghosts>>

(* A turn that fails ends the stream.                                      *)
AgentTurnEnds(failed) ==
    /\ agent = "turn"
    /\ FaultUnless(~failed)
    /\ agent' = IF failed THEN "exited" ELSE "idle"
    /\ out' = Append(out, IF failed THEN "result" ELSE "turn")
    /\ UNCHANGED <<mode, session, clients, stop, feed, closed, inbox, daemon,
                   frames, ghosts>>

(* A canceled context kills a direct interaction.                          *)
AgentKilled ==
    /\ ctxDone /\ ~Supervised /\ agent # "exited" /\ loop # "prepare"
    /\ agent' = "exited"
    /\ UNCHANGED <<mode, session, clients, stop, feed, closed, inbox, out,
                   daemon, bounds, ghosts>>

(* detachedInteraction.watch hands a stop to the supervisor, which ends    *)
(* the task; when that fails the attach is canceled with the error.        *)
WatchStops(ok) ==
    /\ Supervised /\ ctxDone /\ ~shutdown /\ ~cut /\ agent # "exited"
    /\ loop \in {"begin", "first", "recv", "deliver"}
    /\ FaultUnless(ok)
    /\ IF ok THEN agent' = "exited" /\ out' = Append(out, "result") /\ UNCHANGED cut
             ELSE cut' = TRUE /\ UNCHANGED <<agent, out>>
    /\ UNCHANGED <<mode, session, clients, stop, feed, closed, inbox, loop,
                   ctxDone, shutdown, restarts, frames, ghosts>>

----------------------------------------------------------------------------
(* The goroutine that executes the run.                                    *)

LoopMoves(pc) ==
    /\ loop' = pc
    /\ UNCHANGED <<mode, stop, agent, ctxDone, cut, shutdown, restarts, frames,
                   ghosts>>
LoopTo(pc) == LoopMoves(pc) /\ UNCHANGED faults

(* The sandbox is prepared, the interaction opened and bound.              *)
Opens ==
    /\ loop = "prepare" /\ ~ctxDone /\ ~shutdown
    /\ LoopTo("begin")
    /\ UNCHANGED <<session, clients, feed, closed, inbox, out>>

PrepareFails ==
    /\ loop = "prepare"
    /\ LoopMoves("complete") /\ FaultUnless(ctxDone \/ shutdown)
    /\ UNCHANGED <<session, clients, feed, closed, inbox, out>>

(* beginInitialPromptTurn.                                                 *)
BeginsFirstTurn ==
    /\ loop = "begin"
    /\ sess' = [sess EXCEPT !.turns = TRUE, !.pending = @ + 1]
    /\ LoopTo("first")
    /\ UNCHANGED <<run, inMap, input, lease, clients, feed, closed, inbox, out>>

(* The first message, after which the pump starts.  A shutdown that comes  *)
(* before it disconnects the run.                                          *)
SendsFirst ==
    /\ loop = "first"
    /\ IF CanSend THEN pump' = "recv" /\ UNCHANGED closed /\ LoopTo("recv")
                  ELSE UNCHANGED pump /\ closed' = TRUE /\ LoopTo("remove")
    /\ inbox' = Told("msg")
    /\ UNCHANGED <<session, clients, token, out>>

ReceivesTurn ==
    /\ loop = "recv" /\ out # <<>> /\ Head(out) = "turn"
    /\ out' = Tail(out)
    /\ sess' = IF restarts = 0 THEN LowerPending(sess) ELSE sess
    /\ LoopTo("deliver")
    /\ UNCHANGED <<run, inMap, input, lease, clients, feed, closed, inbox>>

(* The output goes to the subscribers and to the creator; then the next    *)
(* message may go.  A bound creator that is gone fails the run.            *)
Delivers ==
    /\ loop = "deliver"
    /\ Publish
    /\ \/ token' = TRUE /\ LoopTo("recv")
       \/ mode = "bound" /\ creator.gone /\ UNCHANGED token /\ LoopTo("complete")
    /\ UNCHANGED <<session, snd, creator, cl, pump, closed, inbox, out>>

ReceivesResult ==
    /\ loop = "recv" /\ out # <<>> /\ Head(out) = "result"
    /\ LoopTo("complete")
    /\ UNCHANGED <<session, clients, feed, closed, inbox, out>>

Canceled == (ctxDone /\ ~Supervised) \/ cut

(* Recv reports an error: the transport broke, the context of a direct     *)
(* interaction was canceled or the attach was cut.  The clients are told.  *)
ReceiveFails ==
    /\ loop = "recv" /\ ~(Supervised /\ shutdown)
    /\ LoopMoves("complete") /\ FaultUnless(Canceled)
    /\ Publish
    /\ UNCHANGED <<session, snd, creator, cl, feed, closed, inbox, out>>

(* The daemon shuts down under a supervised task: the run stays running.   *)
Disconnects ==
    /\ loop = "recv" /\ Supervised /\ shutdown
    /\ closed' = TRUE
    /\ LoopTo("remove")
    /\ Publish
    /\ UNCHANGED <<session, snd, creator, cl, feed, inbox, out>>

(* The deferred CloseSend and Close, with which the guest is gone, the     *)
(* run's completion, whose write succeeds here, and its result to the      *)
(* clients; then Remove, which closes the session.                         *)
Completes ==
    /\ loop = "complete"
    /\ closed' = TRUE /\ inbox' = <<>> /\ agent' = "exited" /\ out' = <<>>
    /\ run' = "ended"
    /\ Publish
    /\ loop' = "remove"
    /\ UNCHANGED <<mode, inMap, sess, input, lease, snd, creator, cl, stop, feed,
                   ctxDone, cut, shutdown, restarts, bounds, ghosts>>

Removes ==
    /\ loop = "remove"
    /\ inMap' = FALSE
    /\ LoopTo("close")
    /\ UNCHANGED <<run, sess, input, lease, clients, feed, closed, inbox, out>>

Closes ==
    /\ loop = "close"
    /\ sess' = [sess EXCEPT !.state = "closed"]
    /\ subs' = [c \in Clients |-> Hangup(subs[c])]
    /\ CloseSend(inbox) /\ input' = <<>>
    /\ LoopTo("gone")
    /\ UNCHANGED <<run, inMap, lease, snd, creator, cl, feed, out>>

----------------------------------------------------------------------------
(* Shutdown, crash and restart.                                            *)

(* Everything but a supervised task is canceled with the daemon.           *)
Shutdown ==
    /\ ~Done
    /\ IF Supervised THEN ~shutdown /\ shutdown' = TRUE /\ UNCHANGED ctxDone
                     ELSE ~ctxDone /\ ctxDone' = TRUE /\ UNCHANGED shutdown
    /\ UNCHANGED <<mode, session, clients, stop, feed, guest, loop, cut,
                   restarts, bounds, ghosts>>

(* A supervised run that is still running when the daemon stops, whether   *)
(* it shut down or crashed, is followed again by the next daemon           *)
(* (reattachInteractiveRun).  Output that was read is not read again: the  *)
(* cursor is written before the output is passed on.                       *)
Restart ==
    /\ Supervised /\ run = "running" /\ loop # "prepare" /\ restarts < MaxRestarts
    /\ restarts' = restarts + 1
    /\ inMap' = TRUE /\ sess' = NewSession("created") /\ input' = <<>>
    /\ snd' = [p \in Senders |-> Quiet]
    /\ creator' = CreatorIsDone
    /\ cl' = [c \in Clients |-> "idle"]
    /\ subs' = [c \in Clients |-> None]
    /\ stop' = "idle" /\ pump' = "none" /\ token' = FALSE /\ closed' = FALSE
    /\ loop' = "reopen" /\ ctxDone' = FALSE /\ cut' = FALSE /\ shutdown' = FALSE
    /\ early' = 0 /\ heard' = 0
    /\ UNCHANGED <<mode, run, lease, inbox, agent, out, bounds>>

(* transition to detached, open and bind the attach, start the pump with   *)
(* its turn released, unless the daemon shuts down or the attach fails.    *)
Resumes ==
    /\ loop = "reopen"
    /\ \/ /\ ~shutdown /\ LoopTo("recv")
          /\ pump' = "recv" /\ token' = TRUE /\ UNCHANGED closed
       \/ shutdown /\ LoopTo("remove") /\ closed' = TRUE /\ UNCHANGED <<pump, token>>
       \/ LoopMoves("complete") /\ Faults /\ UNCHANGED <<closed, pump, token>>
    /\ sess' = [sess EXCEPT !.state = "detached"]
    /\ UNCHANGED <<run, inMap, input, lease, clients, inbox, out>>

(* The run has ended or waits for the next daemon, and nothing is left to  *)
(* do in this one.                                                         *)
Finished ==
    /\ Done /\ creator.pc = "done" /\ pump \in {"none", "exited"}
    /\ stop \notin {"decide", "send"}
    /\ \A c \in Clients : cl[c] = "idle"
    /\ UNCHANGED vars

----------------------------------------------------------------------------
Frames == {"msg", "eof"}

SenderStep(p) == SendFails(p) \/ SendQueued(p)
CreatorStep == CreatorReceiveFails \/ CreatorReleases
AttachStep(c) ==
    \/ AttachAcquires(c) \/ AttachSubscribes(c) \/ AttachOutput(c) \/ AttachReleases(c)
PumpStep == PumpTakes \/ PumpSeesClose \/ PumpForwards \/ PumpCanceled
AgentStep ==
    \/ AgentReads \/ AgentKilled
    \/ \E b \in BOOLEAN : AgentTurnEnds(b) \/ WatchStops(b)
LoopStep ==
    \/ Opens \/ BeginsFirstTurn \/ SendsFirst \/ ReceivesTurn \/ Delivers
    \/ ReceivesResult \/ Disconnects \/ Completes
    \/ Removes \/ Closes \/ Resumes

Next ==
    \/ \E p \in Senders : SenderStep(p)
    \/ CreatorStep \/ CreatorHalfCloses \/ CreatorLost
    \/ \E k \in Frames : CreatorFrame(k) \/ \E c \in Clients : AttachFrame(c, k)
    \/ \E c \in Clients : AttachFinds(c) \/ AttachStep(c) \/ AttachEnds(c)
    \/ StopBegins \/ StopDecides \/ StopTimesOut
    \/ PumpStep \/ AgentStep
    \/ LoopStep \/ PrepareFails \/ ReceiveFails
    \/ Shutdown \/ Restart \/ Finished

Spec == Init /\ [][Next]_vars

(* Every goroutine that can run does; a turn ends; Recv fails once the     *)
(* context of a direct interaction or the attach is canceled.  What        *)
(* clients do, and shutdowns and restarts, need not happen.                *)
Fairness ==
    /\ \A p \in Senders : WF_vars(SenderStep(p))
    /\ WF_vars(CreatorStep)
    /\ \A c \in Clients : WF_vars(AttachStep(c))
    /\ WF_vars(StopDecides) /\ WF_vars(PumpStep) /\ WF_vars(AgentStep)
    /\ WF_vars(LoopStep) /\ WF_vars(Canceled /\ ReceiveFails)
    /\ WF_vars(ctxDone /\ PrepareFails)
FairSpec == Spec /\ Fairness

----------------------------------------------------------------------------
Pcs == {"prepare", "begin", "first", "recv", "deliver", "complete",
        "remove", "close", "gone", "reopen"}

(* Every variable has its type; the channels stay within their capacity.   *)
TypeOK ==
    /\ mode \in AllModes /\ run \in {"running", "ended"} /\ inMap \in BOOLEAN
    /\ sess \in [state : {"created", "running", "detached", "closed"},
                 attached : BOOLEAN, turns : BOOLEAN, pending : Nat]
    /\ Len(input) <= InputCap
    /\ \A i \in DOMAIN input : input[i] \in [kind : Frames, lease : 0..MaxLeases]
    /\ lease \in Nat
    /\ snd \in [Senders -> [pc : {"none", "blocked"}, kind : Frames,
                            lease : Nat, reserved : BOOLEAN]]
    /\ creator \in [pc : {"recv", "ending", "done"}, gone : BOOLEAN,
                    sentEOF : BOOLEAN, last : BOOLEAN]
    /\ cl \in [Clients -> {"idle", "got", "leased", "open", "closing"}]
    /\ \A c \in Clients : subs[c] # None => Len(subs[c].buf) <= SubCap
    /\ stop \in {"idle", "decide", "send", "eof", "cancel"}
    /\ pump \in {"none", "recv", "gate", "exited"} /\ token \in BOOLEAN
    /\ closed \in BOOLEAN /\ agent \in {"idle", "turn", "exited"}
    /\ loop \in Pcs /\ ctxDone \in BOOLEAN /\ cut \in BOOLEAN /\ shutdown \in BOOLEAN

(* attachment.Close waits for a Send under way: once a client's input was  *)
(* queued, no frame of a client that had the lease before it is.           *)
InputInLeaseOrder ==
    \A i \in DOMAIN input : input[i].lease # 0 =>
        /\ heard <= input[i].lease
        /\ \A j \in DOMAIN input : i < j /\ input[j].lease # 0 =>
               input[i].lease <= input[j].lease

Waiting(box) == Cardinality({i \in DOMAIN box : box[i] = "msg"})
AtAgent == Waiting(inbox) + (IF agent = "turn" THEN 1 ELSE 0)

(* turnReady: the agent is given one message at a time; each restart,      *)
(* which cannot know whether a turn is under way, may add one.             *)
OneTurnAtATime == AtAgent + (IF token THEN 1 ELSE 0) <= 1 + restarts

(* promptTurnsPending: StopInteractiveRun closes a session only when no    *)
(* message is queued or being worked on, up to the messages that were      *)
(* accepted before the session tracked its turns.                          *)
Outstanding ==
    AtAgent + (IF pump = "gate" THEN 1 ELSE 0)
            + Cardinality({i \in DOMAIN input : input[i].kind = "msg"})
TurnsAreCounted ==
    [][stop = "decide" /\ stop' = "send" => Outstanding <= early]_vars

(* detachIsShutdown: a daemon that goes away does not send a supervised    *)
(* task anything more, the end of its input least of all, while its run    *)
(* goes on.                                                                *)
ShutdownSparesTask ==
    [][Supervised /\ shutdown /\ run' = "running" /\ inbox' # inbox
        => inbox' = Tail(inbox)]_vars

(* Publish: what a client takes from its subscription has no gap, and a    *)
(* client that was not dropped for being slow has taken or can still take  *)
(* everything that was published, also after the channel was closed.       *)
OutputHasNoGap ==
    \A c \in Clients : subs[c] # None =>
        /\ \A i \in DOMAIN subs[c].buf : subs[c].buf[i] = subs[c].seen + i
        /\ subs[c].dropped \/ subs[c].pub = subs[c].seen + Len(subs[c].buf)

(* StopActiveRun: a stop ends the run, unless the daemon goes away first.  *)
(* Lost connections, failed sends, stops, opens and receives and a failed  *)
(* turn do not keep it from ending.  The writes of the run row and of its  *)
(* completion are taken to succeed here: where one fails, the run stays    *)
(* for the next start (run_attach.go:73, 93, 102).                         *)
StopEnds == stop # "idle" ~> run = "ended" \/ shutdown \/ stop = "idle"
=============================================================================
