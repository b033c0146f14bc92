-------------------------------- MODULE WsHub --------------------------------
(***************************************************************************)
(* The websocket hub, ws/hub.go, with the two pumps of every client,       *)
(* ws/client.go, and the goroutines that call BroadcastJSON, among them    *)
(* the order managers, which hold their mutex while they wait for the hub. *)
(*                                                                         *)
(* register, unregister, subscribe, unsubscribe and Broadcast are          *)
(* unbuffered: a sender waits until Run selects it, and the two make one   *)
(* step.  A client's send channel has a buffer.  A send on a closed        *)
(* channel, or a second close, panics and ends the process.                *)
(*                                                                         *)
(* Abstracted: payloads (only the number of queued messages), pings of the *)
(* server.  A connection is broken once its peer is gone, a pump has       *)
(* closed it or a deadline has passed; reads and writes then fail.         *)
(*                                                                         *)
(* The customary names carry the prefix Hub, so that a module can extend   *)
(* this one beside the specification of another component.                 *)
(***************************************************************************)
EXTENDS Naturals

CONSTANTS Client,   (* connections over the life of the process             *)
          Topic,    (* "symbol:interval" keys                               *)
          Caller,   (* goroutines that call BroadcastJSON                   *)
          Cap       (* size of a client's send buffer, 256 in the code      *)

ASSUME HubAssumption == Cap \in Nat \ {0} /\ "none" \notin Topic

VARIABLES reader,   (* where each client's readPump (or its ServeWs) is     *)
          asked,    (* the topic of the request the reader is sending       *)
          writer,   (* each client's writePump: "off", "on" or "done"       *)
          open,     (* the connections that work                            *)
          queue,    (* how many messages each send buffer holds             *)
          closed,   (* the clients whose send channel is closed             *)
          clients,  (* Hub.clients                                          *)
          subs,     (* Hub.subscriptions, as pairs                          *)
          slow,     (* slow clients a broadcast has yet to remove           *)
          call,     (* the topic each caller is broadcasting, or "none"     *)
          panic     (* "no", or what ended the process                      *)

hubState == <<clients, subs, slow>>
hubVars == <<reader, asked, writer, open, queue, closed, clients, subs, slow, call, panic>>

ReaderAt == {"absent", "register", "read", "subscribe", "unsubscribe", "pong", "unregister", "done"}

HubTypeOK ==
  /\ reader \in [Client -> ReaderAt]
  /\ asked \in [Client -> Topic \cup {"none"}]
  /\ writer \in [Client -> {"off", "on", "done"}]
  /\ open \in SUBSET Client
  /\ queue \in [Client -> 0 .. Cap]
  /\ closed \in SUBSET Client /\ clients \in SUBSET Client /\ slow \in SUBSET Client
  /\ subs \in SUBSET (Topic \X Client)
  /\ call \in [Caller -> Topic \cup {"none"}]
  /\ panic \in {"no", "send", "close"}

HubInit ==
  /\ reader = [c \in Client |-> "absent"]
  /\ asked = [c \in Client |-> "none"]
  /\ writer = [c \in Client |-> "off"]
  /\ open = {} /\ closed = {} /\ clients = {} /\ subs = {} /\ slow = {}
  /\ queue = [c \in Client |-> 0]
  /\ call = [b \in Caller |-> "none"]
  /\ panic = "no"
-----------------------------------------------------------------------------
Running == panic = "no"
Full(c) == queue[c] = Cap

(* Run is in its select. *)
Selecting == Running /\ slow = {}

(* ServeWs: the upgraded connection waits to be registered. *)
ServeWs(c) ==
  /\ Running /\ reader[c] = "absent"
  /\ reader' = [reader EXCEPT ![c] = "register"]
  /\ open' = open \cup {c}
  /\ UNCHANGED <<asked, writer, queue, closed, hubState, call, panic>>

(* The peer goes away or stops answering. *)
PeerGone(c) ==
  /\ Running /\ c \in open
  /\ open' = open \ {c}
  /\ UNCHANGED <<reader, asked, writer, queue, closed, hubState, call, panic>>

(* readPump takes a request from the connection. *)
ReadRequest(c, where, k) ==
  /\ Running /\ reader[c] = "read" /\ c \in open
  /\ reader' = [reader EXCEPT ![c] = where]
  /\ asked' = [asked EXCEPT ![c] = k]
  /\ UNCHANGED <<writer, open, queue, closed, hubState, call, panic>>

(* Mutant of SendPong: a send that does not wait for room. *)
SendPongAtOnce(c) ==
  /\ Running /\ reader[c] = "pong"
  /\ queue' = [queue EXCEPT ![c] = @ + 1]
  /\ reader' = [reader EXCEPT ![c] = "read"]
  /\ panic' = IF c \in closed THEN "send" ELSE panic
  /\ UNCHANGED <<asked, writer, open, closed, hubState, call>>

(* readPump answers a ping through the send channel, and waits while it is full. *)
SendPong(c) ==
  /\ Running /\ reader[c] = "pong"
  /\ \/ /\ c \in closed
        /\ panic' = "send"
        /\ UNCHANGED <<reader, queue>>
     \/ /\ c \notin closed /\ ~Full(c)
        /\ queue' = [queue EXCEPT ![c] = @ + 1]
        /\ reader' = [reader EXCEPT ![c] = "read"]
        /\ UNCHANGED panic
  /\ UNCHANGED <<asked, writer, open, closed, hubState, call>>

(* ReadMessage fails; the deferred call sends to unregister. *)
ReadFails(c) ==
  /\ Running /\ reader[c] = "read" /\ c \notin open
  /\ reader' = [reader EXCEPT ![c] = "unregister"]
  /\ UNCHANGED <<asked, writer, open, queue, closed, hubState, call, panic>>

(* writePump writes one message. *)
Write(c) ==
  /\ Running /\ writer[c] = "on" /\ queue[c] > 0 /\ c \in open
  /\ queue' = [queue EXCEPT ![c] = @ - 1]
  /\ UNCHANGED <<reader, asked, writer, open, closed, hubState, call, panic>>

(* writePump ends, after a failed write or ping or when the drained channel is
   closed, and closes the connection. *)
WriterEnds(c) ==
  /\ Running /\ writer[c] = "on"
  /\ c \notin open \/ (c \in closed /\ queue[c] = 0)
  /\ writer' = [writer EXCEPT ![c] = "done"]
  /\ open' = open \ {c}
  /\ UNCHANGED <<reader, asked, queue, closed, hubState, call, panic>>

(* BroadcastJSON: the caller waits for Run. *)
BroadcastJSON(b, k) ==
  /\ Running /\ call[b] = "none"
  /\ call' = [call EXCEPT ![b] = k]
  /\ UNCHANGED <<reader, asked, writer, open, queue, closed, hubState, panic>>
-----------------------------------------------------------------------------
(* Mutant of RemoveClient: a client that was removed before is closed again. *)
RemoveTwice(c) ==
  /\ panic' = IF c \in closed THEN "close" ELSE panic
  /\ clients' = clients \ {c}
  /\ closed' = closed \cup {c}
  /\ subs' = {p \in subs : p[2] # c}

(* removeClient: nothing for a client that is not registered. *)
RemoveClient(c) ==
  IF c \in clients
  THEN /\ panic' = IF c \in closed THEN "close" ELSE panic
       /\ clients' = clients \ {c}
       /\ closed' = closed \cup {c}
       /\ subs' = {p \in subs : p[2] # c}
  ELSE UNCHANGED <<clients, closed, subs, panic>>

(* Run, register; ServeWs then starts the pumps. *)
Register(c) ==
  /\ Selecting /\ reader[c] = "register"
  /\ clients' = clients \cup {c}
  /\ reader' = [reader EXCEPT ![c] = "read"]
  /\ writer' = [writer EXCEPT ![c] = "on"]
  /\ UNCHANGED <<asked, open, queue, closed, subs, slow, call, panic>>

(* Run, unregister; readPump then closes the connection and ends. *)
Unregister(c) ==
  /\ Selecting /\ reader[c] = "unregister"
  /\ RemoveClient(c)
  /\ reader' = [reader EXCEPT ![c] = "done"]
  /\ open' = open \ {c}
  /\ UNCHANGED <<asked, writer, queue, slow, call>>

(* Run, subscribe: whether or not the client is still registered. *)
Subscribe(c) ==
  /\ Selecting /\ reader[c] = "subscribe"
  /\ subs' = subs \cup {<<asked[c], c>>}
  /\ reader' = [reader EXCEPT ![c] = "read"]
  /\ asked' = [asked EXCEPT ![c] = "none"]
  /\ UNCHANGED <<writer, open, queue, closed, clients, slow, call, panic>>

Subscribers(k) == {c \in Client : <<k, c>> \in subs}

(* Run, Broadcast: under the read lock every subscriber with room gets the message,
   the others are noted.  A subscriber whose channel is closed panics. *)
Broadcast(b) ==
  LET to == Subscribers(call[b]) IN
  /\ Selecting /\ call[b] # "none"
  /\ IF to \cap closed # {}
     THEN panic' = "send" /\ UNCHANGED <<queue, slow>>
     ELSE /\ queue' = [c \in Client |-> IF c \in to /\ ~Full(c) THEN queue[c] + 1 ELSE queue[c]]
          /\ slow' = {c \in to : Full(c)}
          /\ UNCHANGED panic
  /\ call' = [call EXCEPT ![b] = "none"]
  /\ UNCHANGED <<reader, asked, writer, open, closed, clients, subs>>

(* Mutant of RemoveSlow: the read lock is still held, so Lock never returns. *)
RemoveSlowLocked(c) == Running /\ c \in slow /\ FALSE

(* Run, after the read lock: the slow clients are removed one by one. *)
RemoveSlow(c) ==
  /\ Running /\ c \in slow
  /\ RemoveClient(c)
  /\ slow' = slow \ {c}
  /\ UNCHANGED <<reader, asked, writer, open, queue, call>>

(* Stop, from App.Stop: closes every registered client; Run and the subscriptions
   stay as they are. *)
Stop ==
  /\ Running
  /\ panic' = IF clients \cap closed # {} THEN "close" ELSE panic
  /\ closed' = closed \cup clients
  /\ clients' = {}
  /\ UNCHANGED <<reader, asked, writer, open, queue, subs, slow, call>>
-----------------------------------------------------------------------------
HubNext ==
  \/ \E c \in Client :
       \/ ServeWs(c) \/ PeerGone(c)
       \/ ReadRequest(c, "pong", "none")
       \/ \E k \in Topic : ReadRequest(c, "subscribe", k) \/ ReadRequest(c, "unsubscribe", k)
       \/ SendPong(c) \/ ReadFails(c) \/ Write(c) \/ WriterEnds(c)
       \/ Register(c) \/ Unregister(c) \/ Subscribe(c) \/ RemoveSlow(c)
  \/ \E b \in Caller : Broadcast(b) \/ \E k \in Topic : BroadcastJSON(b, k)
  \/ Stop

(* The pumps run: a read or write on a broken connection fails, a write or ping of
   a working one returns before its deadline.  Go's select chooses among the ready
   cases at random and serves the senders of a channel in turn, so that a sender
   that is selectable again and again is selected. *)
HubFairness ==
  /\ \A c \in Client :
       /\ WF_hubVars(ReadFails(c) \/ SendPong(c))
       /\ WF_hubVars(Write(c) \/ WriterEnds(c))
       /\ SF_hubVars(Register(c) \/ Unregister(c) \/ Subscribe(c))
  /\ WF_hubVars(\E c \in Client : RemoveSlow(c))
  /\ \A b \in Caller : SF_hubVars(Broadcast(b))

HubSpec == HubInit /\ [][HubNext]_hubVars /\ HubFairness
-----------------------------------------------------------------------------
(* "Check if already removed to avoid double-closing": however a slow removal, a
   disconnect and Stop interleave, no send channel is closed twice; a registered
   client's channel is open. *)
ClosedOnce == panic # "close" /\ clients \cap closed = {}

(* A connection whose reader has ended is not left in the hub: it is unregistered
   and its send channel is closed, so that its writer ends too. *)
ConnectionsReleased ==
  \A c \in Client : reader[c] = "done" => c \notin clients /\ c \in closed

(* Both: a client is let go of once and completely. *)
ClientsReleased == ClosedOnce /\ ConnectionsReleased

(* The reader of a broken connection is stuck for ever: it waits for an unsubscribe
   that nobody receives, or for room in a buffer that nobody drains. *)
Stuck(c) ==
  \/ reader[c] = "unsubscribe"
  \/ reader[c] = "pong" /\ Full(c) /\ writer[c] = "done"

(* A goroutine in BroadcastJSON is let go, whatever the clients do: the order
   managers call it with their mutex held, and a broadcast that waited for one client
   would stop trading.  And once a client is gone, or the hub has dropped it for being
   slow, its goroutines end, except a reader that was already stuck: no other wait of a
   pump lasts. *)
HubServes ==
  /\ \A b \in Caller : call[b] # "none" ~> call[b] = "none" \/ ~Running
  /\ \A c \in Client :
       reader[c] # "absent" /\ (c \in closed \/ c \notin open) ~>
         \/ ~Running
         \/ (reader[c] = "done" \/ Stuck(c)) /\ writer[c] = "done"

=============================================================================
