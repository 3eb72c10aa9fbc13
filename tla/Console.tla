--------------------------------- MODULE Console ---------------------------------
(***************************************************************************)
(* The console's WebSocket and SSE connections: the tool window             *)
(* (forge-gui/src/panels/console.rs), the bridge's commands for them, and   *)
(* the sessions of forge-core/src/protocols.  A connection passes three     *)
(* tasks, each with a queue to the next: the session, which owns the        *)
(* socket, the bridge's forwarder, and the window.  The peer answers, stays *)
(* mute or goes away as it likes.                                           *)
(***************************************************************************)
EXTENDS Naturals, Sequences, FiniteSets

CONSTANTS
  Protocols,       (* of the ones there are, "ws" and "sse" *)
  MaxConnections,  (* bound on the connections of a sitting *)
  MaxOut, MaxIn,   (* bounds on the messages of a connection each way *)
  MaxClicks        (* bound on the clicks on Disconnect *)

VARIABLES
  conns,   (* the connections, by id: see Opened *)
  active,  (* active_conn, 0 for none *)
  cmds,    (* commands on their way to the bridge *)
  bridge,  (* whether the bridge's thread runs *)
  clicks

vars == <<conns, active, cmds, bridge, clicks>>

(* A connection: what the window shows; "task", the session behind it; the
   queues between; "known", whether ws_conns or sse_cancels holds it;
   "cancelled", its SSE token; "shut", whether we sent a close frame.  History:
   messages sent by the user and arrived at the peer, and whether the user
   asked for the end: "early", before the handshake was done. *)
Opened(protocol, status) ==
  [protocol |-> protocol, status |-> status, task |-> "none", known |-> FALSE,
   cancelled |-> FALSE, shut |-> FALSE, out |-> << >>, events |-> << >>, ui |-> << >>,
   heard |-> 0, sent |-> 0, arrived |-> 0, ended |-> FALSE, asked |-> "no"]

Ids == DOMAIN conns
Live(c) == c.status \in {"connecting", "open"}
Change(i, c) == conns' = [conns EXCEPT ![i] = c]

Init ==
  /\ conns = << >> /\ active = 0 /\ cmds = << >> /\ bridge \in BOOLEAN /\ clicks = 0

-----------------------------------------------------------------------------
(* The window. *)

(* connect: the button is there when the active connection is not live. *)
Connect(protocol) ==
  /\ active # 0 => ~Live(conns[active])
  /\ Len(conns) < MaxConnections
  /\ conns' = Append(conns, Opened(protocol, IF bridge THEN "connecting" ELSE "error"))
  /\ active' = Len(conns) + 1
  /\ cmds' = IF bridge THEN Append(cmds, [op |-> "connect", id |-> active']) ELSE cmds
  /\ UNCHANGED <<bridge, clicks>>

(* conn_tabs. *)
Select(i) ==
  /\ Len(conns) > 1 /\ active # i /\ active' = i
  /\ UNCHANGED <<conns, cmds, bridge, clicks>>

Disconnect ==
  /\ active # 0 /\ Live(conns[active]) /\ clicks < MaxClicks /\ clicks' = clicks + 1
  /\ cmds' = Append(cmds, [op |-> "close", id |-> active])
  /\ UNCHANGED <<conns, active, bridge>>

(* send_message, from the box that a WebSocket has while it is open. *)
SendMessage ==
  /\ active # 0 /\ conns[active].protocol = "ws" /\ conns[active].status = "open"
  /\ conns[active].sent < MaxOut
  /\ cmds' = Append(cmds, [op |-> "send", id |-> active])
  /\ Change(active, [conns[active] EXCEPT !.sent = @ + 1])
  /\ UNCHANGED <<active, bridge, clicks>>

(* handle_ws_event, handle_sse_event. *)
StatusAfter(status, event) ==
  CASE event \in {"connected", "open"} -> "open"
    [] event = "closed" -> "closed"
    [] event = "error" -> "error"
    [] OTHER -> status
HandleEvent(i) ==
  /\ conns[i].ui # << >>
  /\ Change(i, [conns[i] EXCEPT !.status = StatusAfter(@, Head(conns[i].ui)), !.ui = Tail(@)])
  /\ UNCHANGED <<active, cmds, bridge, clicks>>

-----------------------------------------------------------------------------
(* The bridge's loop.  An SSE subscription can be cancelled from the start, a
   WebSocket is known once it is connected. *)
OnConnect(c) == [c EXCEPT !.task = "connecting", !.known = (c.protocol = "sse")]

OnSend(c) == IF c.known THEN [c EXCEPT !.out = Append(@, "text")] ELSE c

OnWsClose(c) == IF c.known THEN [c EXCEPT !.out = Append(@, "close")] ELSE c
OnSseClose(c) == IF c.known THEN [c EXCEPT !.known = FALSE, !.cancelled = TRUE] ELSE c
OnClose(c) ==
  [(IF c.protocol = "ws" THEN OnWsClose(c) ELSE OnSseClose(c)) EXCEPT
     !.asked = IF @ # "no" THEN @ ELSE IF c.task = "connecting" THEN "early" ELSE "late"]

BridgeStep ==
  /\ cmds # << >>
  /\ LET cmd == Head(cmds)
         c == conns[cmd.id]
     IN Change(cmd.id, CASE cmd.op = "connect" -> OnConnect(c)
                         [] cmd.op = "send" -> OnSend(c)
                         [] cmd.op = "close" -> OnClose(c))
  /\ cmds' = Tail(cmds)
  /\ UNCHANGED <<active, bridge, clicks>>

(* The forwarder.  A failed handshake is its only event; after a good one the
   session's first event is waiting before a WebSocket is known. *)
Refused(c) == [c EXCEPT !.task = "gone", !.known = FALSE, !.ui = Append(@, "error")]
(* Variant: the sender is never handed over. *)
AcceptedUnknown(c) ==
  [c EXCEPT !.task = "session", !.events = <<IF c.protocol = "ws" THEN "connected" ELSE "open">>]
Accepted(c) ==
  [c EXCEPT !.task = "session", !.known = @ \/ c.protocol = "ws",
            !.events = <<IF c.protocol = "ws" THEN "connected" ELSE "open">>]

Handshake(i, ok) ==
  /\ conns[i].task = "connecting"
  /\ Change(i, IF ok THEN Accepted(conns[i]) ELSE Refused(conns[i]))
  /\ UNCHANGED <<active, cmds, bridge, clicks>>

(* Events go on to the window until a closed one, or until none can follow. *)
Gone(c) == [c EXCEPT !.task = "gone", !.known = FALSE, !.events = << >>, !.out = << >>]

Forward(i) ==
  LET c == conns[i]
      passed == [c EXCEPT !.ui = Append(@, Head(c.events)), !.events = Tail(@)]
  IN /\ c.task = "session"
     /\ \/ c.events # << >> /\ Change(i, IF Head(c.events) = "closed" THEN Gone(passed) ELSE passed)
        \/ c.events = << >> /\ c.ended /\ Change(i, Gone(c))
     /\ UNCHANGED <<active, cmds, bridge, clicks>>

(* select!: a cancelled forwarder may still pass what is ready, and then stops
   without a word. *)
ForwarderStops(i) ==
  /\ conns[i].task = "session" /\ conns[i].cancelled /\ Change(i, Gone(conns[i]))
  /\ UNCHANGED <<active, cmds, bridge, clicks>>

-----------------------------------------------------------------------------
(* The session, websocket::connect and sse::subscribe. *)
Running(c) == c.task = "session" /\ ~c.ended

(* After a close frame nothing more can be written. *)
Write(i) ==
  LET c == conns[i]
  IN /\ Running(c) /\ c.out # << >>
     /\ Change(i, IF Head(c.out) = "close" THEN [c EXCEPT !.shut = TRUE, !.out = Tail(@)]
                  ELSE [c EXCEPT !.arrived = @ + (IF c.shut THEN 0 ELSE 1), !.out = Tail(@)])
     /\ UNCHANGED <<active, cmds, bridge, clicks>>

Read(i) ==
  /\ Running(conns[i]) /\ conns[i].heard < MaxIn
  /\ Change(i, [conns[i] EXCEPT !.heard = @ + 1, !.events = Append(@, "message")])
  /\ UNCHANGED <<active, cmds, bridge, clicks>>

(* The peer ends the stream, or it breaks; an SSE session says closed also
   after an error. *)
LastWords(c, broken) ==
  IF ~broken THEN <<"closed">> ELSE IF c.protocol = "ws" THEN <<"error">> ELSE <<"error", "closed">>

End(i, broken) ==
  LET c == conns[i]
  IN /\ Running(c)
     /\ Change(i, [c EXCEPT !.ended = TRUE, !.events = @ \o LastWords(c, broken)])
     /\ UNCHANGED <<active, cmds, bridge, clicks>>

Next ==
  \/ \E p \in Protocols : Connect(p)
  \/ Disconnect \/ SendMessage \/ BridgeStep
  \/ \E i \in Ids :
       \/ Select(i) \/ HandleEvent(i) \/ Forward(i) \/ ForwarderStops(i) \/ Write(i) \/ Read(i)
       \/ \E b \in BOOLEAN : Handshake(i, b) \/ End(i, b)

-----------------------------------------------------------------------------
(* Properties. *)

Events == {"connected", "open", "message", "closed", "error"}
TypeOK ==
  /\ active \in 0 .. Len(conns) /\ Len(conns) <= MaxConnections
  /\ \A i \in Ids :
       /\ conns[i].status \in {"connecting", "open", "closed", "error"}
       /\ conns[i].task \in {"none", "connecting", "session", "gone"}
       /\ conns[i].events \in Seq(Events) /\ conns[i].ui \in Seq(Events)

(* The window offers to send only to a connection the bridge can find, until
   the news of its end is on the way (bridge.rs: the sender is registered
   before its first event is passed on). *)
Ending(c) == c.task = "gone" \/ c.ended
OpenIsKnown ==
  \A i \in Ids :
    LET c == conns[i]
    IN c.protocol = "ws" /\ c.status = "open" /\ ~Ending(c) => c.known

(* A message the window logs as sent reaches the peer, unless one side has
   begun to close. *)
Waiting(i) == Cardinality({k \in DOMAIN cmds : cmds[k].op = "send" /\ cmds[k].id = i})
Queued(c) == Cardinality({k \in DOMAIN c.out : c.out[k] = "text"})
SentArrives ==
  \A i \in Ids :
    LET c == conns[i]
    IN c.sent = Waiting(i) + Queued(c) + c.arrived \/ c.shut \/ Ending(c)

(* No connection outlives its task in the bridge's registries. *)
NothingLeftBehind == \A i \in Ids : conns[i].task = "gone" => ~conns[i].known

(* When nothing is under way the window shows that a connection is over.  One
   exception is in the code: an SSE connection the user ended, of which no
   closed event is passed on. *)
Settled(c) == c.task = "gone" /\ c.ui = << >>
EndIsShown ==
  \A i \in Ids :
    LET c == conns[i]
    IN Settled(c) /\ Live(c) => c.protocol = "sse" /\ c.asked # "no"

(* The end the user asks for takes effect.  One exception is in the code: a
   WebSocket that is still connecting, whose handshake goes on. *)
Shutting(c) == c.cancelled \/ c.shut \/ \E k \in DOMAIN c.out : c.out[k] = "close"
DisconnectActs ==
  \A i \in Ids :
    LET c == conns[i]
    IN c.asked # "no" => Shutting(c) \/ Ending(c) \/ (c.protocol = "ws" /\ c.asked = "early")
================================================================================
