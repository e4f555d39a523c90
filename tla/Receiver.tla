------------------------------ MODULE Receiver ------------------------------
(***************************************************************************)
(* The TV-facing DTLS receiver (internal/entertainment/receiver.go): one   *)
(* handler goroutine per accepted connection, a new session replacing the  *)
(* previous one, and per session a reader and a forwarder goroutine joined *)
(* by a small frame queue.                                                 *)
(*                                                                         *)
(* A session s is one accepted connection; pc[s] is its handler:           *)
(*   idle        not connected                                             *)
(*   handshaken  the DTLS handshake succeeded                              *)
(*   closeOld    swapped in, about to close the session it replaces        *)
(*   wait        waiting for the replaced session's done channel           *)
(*   recheck     about to test whether a third session replaced it         *)
(*   start       in OnStreamStart                                          *)
(*   run         in the select loop                                        *)
(*   join        the reader ended; waiting for the forwarder               *)
(*   stop        in OnStreamStop                                           *)
(*   cleanup     deferred: about to give cur up                            *)
(*   signal      deferred: about to close done                             *)
(*   closing     deferred: close the connection                            *)
(*   over        returned                                                  *)
(* Frames are counted, not represented.  The DTLS library and the TV are   *)
(* external.                                                               *)
(***************************************************************************)
EXTENDS Naturals, FiniteSets

CONSTANTS
  Sessions,   \* connections the TV makes (bound: each is used once)
  NoSession,  \* the nil session pointer
  QueueSize   \* frameQueueSize

ASSUME ReceiverAssumption ==
  /\ NoSession \notin Sessions
  /\ QueueSize \in Nat \ {0}

VARIABLES
  pc,         \* program counter of each handler
  cur,        \* the session the receiver considers current
  replaced,   \* the session each one replaced, or NoSession
  done,       \* sessions whose done channel is closed
  connClosed, \* sessions whose connection is closed, by either side
  reader,     \* "off", "reading" or "ended", per session
  queue,      \* frames waiting in frameCh, per session
  forwarder,  \* "off", "ready", "onframe" or "ended", per session
  cancelled,  \* the context is done
  ticket,     \* history: order in which sessions swapped themselves in
  swaps       \* history: number of swaps so far

vars == <<pc, cur, replaced, done, connClosed, reader, queue, forwarder,
          cancelled, ticket, swaps>>

Steps == {"idle", "handshaken", "closeOld", "wait", "recheck", "start", "run",
          "join", "stop", "cleanup", "signal", "closing", "over"}

TypeOK ==
  /\ pc \in [Sessions -> Steps]
  /\ cur \in Sessions \cup {NoSession}
  /\ replaced \in [Sessions -> Sessions \cup {NoSession}]
  /\ done \in SUBSET Sessions
  /\ connClosed \in SUBSET Sessions
  /\ reader \in [Sessions -> {"off", "reading", "ended"}]
  /\ queue \in [Sessions -> 0 .. QueueSize]
  /\ forwarder \in [Sessions -> {"off", "ready", "onframe", "ended"}]
  /\ cancelled \in BOOLEAN
  /\ ticket \in [Sessions -> Nat]
  /\ swaps \in Nat

Init ==
  /\ pc = [s \in Sessions |-> "idle"]
  /\ cur = NoSession
  /\ replaced = [s \in Sessions |-> NoSession]
  /\ done = {}
  /\ connClosed = {}
  /\ reader = [s \in Sessions |-> "off"]
  /\ queue = [s \in Sessions |-> 0]
  /\ forwarder = [s \in Sessions |-> "off"]
  /\ cancelled = FALSE
  /\ ticket = [s \in Sessions |-> 0]
  /\ swaps = 0

Goto(s, step) == pc' = [pc EXCEPT ![s] = step]

ioVars == <<reader, queue, forwarder>>
linkVars == <<cur, replaced, done, ticket, swaps>>

-----------------------------------------------------------------------------
(* The handler goroutine.                                                  *)

(* Accept and HandshakeContext; both fail once the context is done.        *)
Accept(s) ==
  /\ pc[s] = "idle" /\ ~cancelled
  /\ Goto(s, "handshaken")
  /\ UNCHANGED <<linkVars, connClosed, ioVars, cancelled>>

(* Mutant: a replaced session is not waited for. *)
StartsAtOnce(s) == "start"
AfterSwap(s) == IF cur # NoSession THEN "closeOld" ELSE "start"

(* The swap of cur under sessMu.                                           *)
Swap(s) ==
  /\ pc[s] = "handshaken"
  /\ replaced' = [replaced EXCEPT ![s] = cur]
  /\ cur' = s
  /\ Goto(s, AfterSwap(s))
  /\ ticket' = [ticket EXCEPT ![s] = swaps + 1]
  /\ swaps' = swaps + 1
  /\ UNCHANGED <<done, connClosed, ioVars, cancelled>>

(* old.conn.Close().                                                       *)
CloseReplaced(s) == connClosed \cup {replaced[s]}

CloseOld(s) ==
  /\ pc[s] = "closeOld"
  /\ connClosed' = CloseReplaced(s)
  /\ Goto(s, "wait")
  /\ UNCHANGED <<linkVars, ioVars, cancelled>>

WaitOld(s) ==
  /\ pc[s] = "wait" /\ replaced[s] \in done
  /\ Goto(s, "recheck")
  /\ UNCHANGED <<linkVars, connClosed, ioVars, cancelled>>

(* Mutant: a superseded session starts all the same. *)
NeverSuperseded(s) == FALSE
Superseded(s) == cur # s

Recheck(s) ==
  /\ pc[s] = "recheck"
  /\ Goto(s, IF Superseded(s) THEN "cleanup" ELSE "start")
  /\ UNCHANGED <<linkVars, connClosed, ioVars, cancelled>>

(* OnStreamStart returned; the reader and the forwarder are started.       *)
OnStreamStart(s) ==
  /\ pc[s] = "start"
  /\ Goto(s, "run")
  /\ reader' = [reader EXCEPT ![s] = "reading"]
  /\ forwarder' = [forwarder EXCEPT ![s] = "ready"]
  /\ UNCHANGED <<linkVars, connClosed, queue, cancelled>>

(* select: the context is done; neither goroutine is waited for.           *)
RunCancelled(s) ==
  /\ pc[s] = "run" /\ cancelled
  /\ Goto(s, "stop")
  /\ UNCHANGED <<linkVars, connClosed, ioVars, cancelled>>

(* select: the reader closed done.                                         *)
RunEnded(s) ==
  /\ pc[s] = "run" /\ reader[s] = "ended"
  /\ Goto(s, "join")
  /\ UNCHANGED <<linkVars, connClosed, ioVars, cancelled>>

(* Mutant: the forwarder is not waited for. *)
NotJoined(s) == TRUE
Joined(s) == forwarder[s] = "ended"

JoinForwarder(s) ==
  /\ pc[s] = "join" /\ Joined(s)
  /\ Goto(s, "stop")
  /\ UNCHANGED <<linkVars, connClosed, ioVars, cancelled>>

OnStreamStop(s) ==
  /\ pc[s] = "stop"
  /\ Goto(s, "cleanup")
  /\ UNCHANGED <<linkVars, connClosed, ioVars, cancelled>>

(* Mutant: the handler clears cur whoever holds it. *)
ClearCur(s) == NoSession
CurAfter(s) == IF cur = s THEN NoSession ELSE cur

Cleanup(s) ==
  /\ pc[s] = "cleanup"
  /\ cur' = CurAfter(s)
  /\ Goto(s, "signal")
  /\ UNCHANGED <<replaced, done, ticket, swaps, connClosed, ioVars, cancelled>>

CloseDone(s) ==
  /\ pc[s] = "signal"
  /\ done' = done \cup {s}
  /\ Goto(s, "closing")
  /\ UNCHANGED <<cur, replaced, ticket, swaps, connClosed, ioVars, cancelled>>

CloseConn(s) ==
  /\ pc[s] = "closing"
  /\ connClosed' = connClosed \cup {s}
  /\ Goto(s, "over")
  /\ UNCHANGED <<linkVars, ioVars, cancelled>>

-----------------------------------------------------------------------------
(* The reader and the forwarder.                                           *)

(* Mutant: the frame is queued whether or not there is room. *)
AnyRoom(s) == TRUE
HasRoom(s) == queue[s] < QueueSize

(* A frame is read, decoded and queued, or dropped when the queue is full. *)
(* One step: nothing that happens between the read and the send looks at   *)
(* the frame.                                                              *)
ReadFrame(s) ==
  /\ reader[s] = "reading" /\ s \notin connClosed
  /\ HasRoom(s)
  /\ queue' = [queue EXCEPT ![s] = @ + 1]
  /\ UNCHANGED <<pc, linkVars, connClosed, reader, forwarder, cancelled>>

(* Read fails: the connection was closed, or no frame came for IdleTimeout.*)
ReadFails(s) ==
  /\ reader[s] = "reading"
  /\ reader' = [reader EXCEPT ![s] = "ended"]
  /\ UNCHANGED <<pc, linkVars, connClosed, queue, forwarder, cancelled>>

TakeFrame(s) ==
  /\ forwarder[s] = "ready" /\ queue[s] > 0
  /\ queue' = [queue EXCEPT ![s] = @ - 1]
  /\ forwarder' = [forwarder EXCEPT ![s] = "onframe"]
  /\ UNCHANGED <<pc, linkVars, connClosed, reader, cancelled>>

OnFrame(s) ==
  /\ forwarder[s] = "onframe"
  /\ forwarder' = [forwarder EXCEPT ![s] = "ready"]
  /\ UNCHANGED <<pc, linkVars, connClosed, reader, queue, cancelled>>

(* frameCh is closed and empty.                                            *)
ForwarderEnds(s) ==
  /\ forwarder[s] = "ready" /\ queue[s] = 0 /\ reader[s] = "ended"
  /\ forwarder' = [forwarder EXCEPT ![s] = "ended"]
  /\ UNCHANGED <<pc, linkVars, connClosed, reader, queue, cancelled>>

(* The TV closes its stream (close_notify).                                *)
PeerCloses(s) ==
  /\ pc[s] \notin {"idle", "over"} /\ s \notin connClosed
  /\ connClosed' = connClosed \cup {s}
  /\ UNCHANGED <<pc, linkVars, ioVars, cancelled>>

Cancel ==
  /\ ~cancelled
  /\ cancelled' = TRUE
  /\ UNCHANGED <<pc, linkVars, connClosed, ioVars>>

-----------------------------------------------------------------------------
HandlerStep(s) ==
  \/ Swap(s) \/ CloseOld(s) \/ WaitOld(s) \/ Recheck(s) \/ OnStreamStart(s)
  \/ RunCancelled(s) \/ RunEnded(s) \/ JoinForwarder(s) \/ OnStreamStop(s)
  \/ Cleanup(s) \/ CloseDone(s) \/ CloseConn(s)

ForwarderStep(s) == TakeFrame(s) \/ OnFrame(s) \/ ForwarderEnds(s)

Terminated ==
  /\ cancelled
  /\ \A s \in Sessions : /\ pc[s] \in {"idle", "over"}
                         /\ reader[s] # "reading"
                         /\ forwarder[s] \in {"off", "ended"}
  /\ UNCHANGED vars

Next ==
  \/ \E s \in Sessions : \/ Accept(s) \/ HandlerStep(s)
                         \/ ReadFrame(s) \/ ReadFails(s)
                         \/ ForwarderStep(s) \/ PeerCloses(s)
  \/ Cancel
  \/ Terminated

(***************************************************************************)
(* Goroutines run; a read on a closed connection fails; the callbacks      *)
(* return.  An open connection need not fail, and the TV need not come.    *)
(***************************************************************************)
Fairness ==
  \A s \in Sessions : /\ WF_vars(HandlerStep(s))
                      /\ WF_vars(s \in connClosed /\ ReadFails(s))
                      /\ WF_vars(ForwarderStep(s))

Spec == Init /\ [][Next]_vars

FairSpec == Spec /\ Fairness

-----------------------------------------------------------------------------
(* Properties.                                                             *)

(* The session is inside its OnStreamStart ... OnStreamStop bracket.       *)
InBracket(s) == pc[s] \in {"start", "run", "join", "stop"}

(* Brackets never overlap, however many sessions replace one another and   *)
(* whenever the context ends.  streamState and ProStreamer rely on it:     *)
(* "concurrent Start/Stop calls are NOT supported".                        *)
OneBracket ==
  \A s, t \in Sessions : InBracket(s) /\ InBracket(t) => s = t

(* While the process runs, a frame reaches the sink only inside its own    *)
(* session's bracket, after OnStreamStart and before OnStreamStop: a late  *)
(* frame of a replaced session cannot land in its successor's stream.      *)
FramesInBracket ==
  \A s \in Sessions : forwarder[s] = "onframe" /\ ~cancelled => InBracket(s)

(* The newest connection wins: a stream is started only for the session    *)
(* that swapped itself in last.  One that was replaced while it waited for *)
(* its predecessor never starts, however the waits of several replacements *)
(* end.                                                                    *)
NewestWins ==
  [][\A s \in Sessions :
       pc[s] # "start" /\ pc'[s] = "start" => ticket'[s] = swaps']_vars

(* Nobody waits for ever, and the newest is served: a session that         *)
(* replaced another one starts its stream, or returns because a later one  *)
(* replaced it.                                                            *)
ReplacementProceeds ==
  \A s \in Sessions :
    pc[s] = "wait" ~> pc[s] = "start" \/ (pc[s] = "over" /\ ticket[s] < swaps)

-----------------------------------------------------------------------------
(* The inductive invariant behind the safety properties.                   *)

Swapped(s) == pc[s] \notin {"idle", "handshaken"}
Waiting(s) == pc[s] \in {"closeOld", "wait"}
PastWait(s) == Swapped(s) /\ ~Waiting(s)

(* The handler is past its OnStreamStop, or was superseded before a start. *)
Ended(s) == pc[s] \in {"signal", "closing", "over"}

(* Tickets number the swaps.                                               *)
TicketsOrder ==
  /\ \A s \in Sessions : ticket[s] <= swaps /\ (Swapped(s) <=> ticket[s] # 0)
  /\ \A s, t \in Sessions : ticket[s] = ticket[t] /\ ticket[s] # 0 => s = t

DoneMeansEnded == \A s \in done : Ended(s)

(* cur is the session that swapped itself in last, until it gives cur up;  *)
(* without a current session nobody is left to wait for.                   *)
CurIsNewest ==
  /\ cur = NoSession => \A s \in Sessions : Swapped(s) => Ended(s)
  /\ cur # NoSession => Swapped(cur) /\ ~Ended(cur) /\ ticket[cur] = swaps

(* A waiting session waits for its immediate predecessor ...               *)
WaitsForPredecessor ==
  \A s \in Sessions :
    Waiting(s) => /\ replaced[s] \in Sessions
                  /\ Swapped(replaced[s])
                  /\ ticket[replaced[s]] + 1 = ticket[s]

(* ... and one that waits no more has only ended sessions before it.       *)
PredecessorsEnded ==
  \A s, t \in Sessions :
    PastWait(s) /\ Swapped(t) /\ ticket[t] < ticket[s] => Ended(t)

ForwarderInBracket ==
  \A s \in Sessions :
    forwarder[s] \in {"ready", "onframe"} /\ ~cancelled => pc[s] \in {"run", "join"}

ReceiverInv ==
  /\ TypeOK
  /\ TicketsOrder
  /\ DoneMeansEnded
  /\ CurIsNewest
  /\ WaitsForPredecessor
  /\ PredecessorsEnded
  /\ ForwarderInBracket
=============================================================================
