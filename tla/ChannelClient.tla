---------------------------- MODULE ChannelClient ----------------------------
(***************************************************************************)
(* The message layer between the editor and a remote server.  Both ends    *)
(* run the same Rust type, ChannelClient (remote_client.rs): it numbers     *)
(* the envelopes it sends, keeps the ones that must survive a lost          *)
(* connection in `buffer' until the peer acknowledges them, and after a     *)
(* reconnect asks the peer to replay (FlushBufferedMessages) and replays    *)
(* its own buffer when the flush is acknowledged.                           *)
(*                                                                          *)
(* The two ends differ in what an outage does to their queues.  The client  *)
(* gets fresh channels for every connection (RemoteClient::reconnect); the  *)
(* server keeps one incoming and one outgoing queue for its whole life and  *)
(* pumps them through whichever connection is accepted (start_server).      *)
(***************************************************************************)
EXTENDS Naturals, Sequences, FiniteSets

CONSTANTS
    MaxSends,    \* bound: notifications and requests each peer may send
    MaxOutages,  \* bound: connections lost in a behaviour
    Background,  \* the peers that also send from a background thread
    None         \* an absent ack_id, responding_to or handshake

Peers == {"client", "server"}
Peer(p) == IF p = "client" THEN "server" ELSE "client"

ASSUME BoundsAssumption ==
    /\ MaxSends \in [Peers -> [{"notification", "request"} -> Nat]]
    /\ MaxOutages \in Nat
    /\ Background \subseteq Peers
    /\ None \notin Nat

VARIABLES
    nextMessageId,    \* next_message_id
    outgoing,         \* queued on outgoing_tx and not yet in the peer's inbox
    inbox,            \* incoming_rx
    buffer,           \* sent, not yet acknowledged
    maxReceived,      \* max_received
    responseChannels, \* the keys of response_channels
    handshakeId,      \* the RemoteStarted whose Ack the read task skips
    remoteStarted,    \* the remote_started signal
    running,          \* requests whose handler has not answered yet
    draft,            \* how far a background thread is inside send_dynamic
    link,             \* "up" or "down": whether a connection joins the queues
    resync,           \* the client's last resync(): its status, its flush id
    outages,          \* connections lost so far
    sent,             \* history: the envelopes pushed into the buffer
    received,         \* history: the ids stored in max_received
    answered          \* history: the requests that got their response

history == <<sent, received, answered>>
connection == <<link, resync, outages>>
vars == <<nextMessageId, outgoing, inbox, buffer, maxReceived, responseChannels,
          handshakeId, remoteStarted, running, draft, connection, history>>

Kinds == {"notification", "request", "response", "started", "ack", "flush"}

(* proto::Envelope; ack_id and responding_to are optional. *)
Envelopes ==
    [id : Nat, kind : Kinds, ack : Nat \cup {None}, re : Nat \cup {None}]
Envelope(id, kind, ack, re) == [id |-> id, kind |-> kind, ack |-> ack, re |-> re]
Elements(seq) == {seq[i] : i \in 1 .. Len(seq)}
Ids(seq) == {e.id : e \in Elements(seq)}

(* How far send_dynamic has come: id allocated, ack_id loaded, buffered. *)
Drafts ==
    [stage : {"idle", "numbered", "stamped", "buffered"}, envelope : Envelopes]
NoDraft == [stage |-> "idle", envelope |-> Envelope(0, "notification", None, None)]

(* Mutant: one id too many is dropped. *)
AckedPrefixOffByOne(buf, ack) ==
    CHOOSE n \in 0 .. Len(buf) :
        /\ \A i \in 1 .. n : buf[i].id <= ack + 1
        /\ n < Len(buf) => buf[n + 1].id > ack + 1

(* while buffer.front().is_some_and(|msg| msg.id <= ack_id) { pop_front } *)
AckedPrefix(buf, ack) ==
    CHOOSE n \in 0 .. Len(buf) :
        /\ \A i \in 1 .. n : buf[i].id <= ack
        /\ n < Len(buf) => buf[n + 1].id > ack
PopAcked(buf, ack) ==
    IF ack = None THEN buf
    ELSE SubSeq(buf, AckedPrefix(buf, ack) + 1, Len(buf))

Init ==
    /\ nextMessageId = [p \in Peers |-> 0]
    /\ outgoing = [p \in Peers |-> <<>>]
    /\ inbox = [p \in Peers |-> <<>>]
    /\ buffer = [p \in Peers |-> <<>>]
    /\ maxReceived = [p \in Peers |-> 0]
    /\ responseChannels = [p \in Peers |-> {}]
    /\ handshakeId = [p \in Peers |-> None]
    /\ remoteStarted = [p \in Peers |-> FALSE]
    /\ running = [p \in Peers |-> <<>>]
    /\ draft = [p \in Peers |-> NoDraft]
    /\ link = "up"
    /\ resync = [status |-> "idle", flush |-> None]
    /\ outages = 0
    /\ sent = [p \in Peers |-> {}]
    /\ received = [p \in Peers |-> {}]
    /\ answered = [p \in Peers |-> {}]

-----------------------------------------------------------------------------
(* Sending.  The main thread runs each of these without interruption.       *)

(* start_handling_messages: the read task announces itself, then reads. *)
StartHandlingMessages(p) ==
    /\ handshakeId[p] = None
    /\ handshakeId' = [handshakeId EXCEPT ![p] = nextMessageId[p]]
    /\ outgoing' = [outgoing EXCEPT ![p] =
                       Append(@, Envelope(nextMessageId[p], "started", None, None))]
    /\ nextMessageId' = [nextMessageId EXCEPT ![p] = @ + 1]
    /\ UNCHANGED <<inbox, buffer, maxReceived, responseChannels, remoteStarted,
                   running, draft, connection, history>>

(* send_dynamic and send_buffered: number it, stamp it with max_received,  *)
(* keep a copy, queue it.                                                  *)
SendBuffered(p, kind, re) ==
    LET e == Envelope(nextMessageId[p], kind, maxReceived[p], re) IN
    /\ nextMessageId' = [nextMessageId EXCEPT ![p] = @ + 1]
    /\ buffer' = [buffer EXCEPT ![p] = Append(@, e)]
    /\ outgoing' = [outgoing EXCEPT ![p] = Append(@, e)]
    /\ sent' = [sent EXCEPT ![p] = @ \cup {e}]

WithinBound(p, kind) ==
    Cardinality({e \in sent[p] : e.kind = kind}) < MaxSends[p][kind]

(* RemoteClient::new waits for remote_started, pings, and hands the client  *)
(* out when the ping is answered; start_server hands its own out at once.   *)
Established == answered["client"] # {}
MayPing == remoteStarted["client"] /\ sent["client"] = {}
GivenOut(p) == handshakeId[p] # None /\ (p = "client" => Established)

Send(p) ==
    /\ GivenOut(p)
    /\ WithinBound(p, "notification")
    /\ SendBuffered(p, "notification", None)
    /\ UNCHANGED <<inbox, maxReceived, responseChannels, handshakeId, remoteStarted,
                   running, draft, connection, received, answered>>

(* request_dynamic with use_buffer; a ping is such a request. *)
Request(p) ==
    /\ GivenOut(p) \/ (p = "client" /\ MayPing)
    /\ WithinBound(p, "request")
    /\ SendBuffered(p, "request", None)
    /\ responseChannels' =
          [responseChannels EXCEPT ![p] = @ \cup {nextMessageId[p]}]
    /\ UNCHANGED <<inbox, maxReceived, handshakeId, remoteStarted, running, draft,
                   connection, received, answered>>

(* A spawned handler finishes and sends its response; handlers finish in    *)
(* any order.  A request without a handler is answered at once by           *)
(* handle_message itself, one of these orders.                              *)
Respond(p) ==
    \E i \in 1 .. Len(running[p]) :
        /\ SendBuffered(p, "response", running[p][i])
        /\ running' = [running EXCEPT ![p] =
                          SubSeq(@, 1, i - 1) \o SubSeq(@, i + 1, Len(@))]
        /\ UNCHANGED <<inbox, maxReceived, responseChannels, handshakeId,
                       remoteStarted, draft, connection, received, answered>>

(* The same send from a background thread: the counters, the buffer and the *)
(* queue are accessed one after the other.                                   *)
BackgroundNumber(p) ==
    /\ p \in Background
    /\ draft[p].stage = "idle"
    /\ WithinBound(p, "notification")
    /\ p = "client" => Established
    /\ draft' = [draft EXCEPT ![p] =
          [stage |-> "numbered",
           envelope |-> Envelope(nextMessageId[p], "notification", None, None)]]
    /\ nextMessageId' = [nextMessageId EXCEPT ![p] = @ + 1]
    /\ UNCHANGED <<outgoing, inbox, buffer, maxReceived, responseChannels,
                   handshakeId, remoteStarted, running, connection, history>>

BackgroundStamp(p) ==
    /\ draft[p].stage = "numbered"
    /\ draft' = [draft EXCEPT ![p] =
          [stage |-> "stamped",
           envelope |-> [draft[p].envelope EXCEPT !.ack = maxReceived[p]]]]
    /\ UNCHANGED <<nextMessageId, outgoing, inbox, buffer, maxReceived,
                   responseChannels, handshakeId, remoteStarted, running,
                   connection, history>>

BackgroundBuffer(p) ==
    /\ draft[p].stage = "stamped"
    /\ draft' = [draft EXCEPT ![p].stage = "buffered"]
    /\ buffer' = [buffer EXCEPT ![p] = Append(@, draft[p].envelope)]
    /\ sent' = [sent EXCEPT ![p] = @ \cup {draft[p].envelope}]
    /\ UNCHANGED <<nextMessageId, outgoing, inbox, maxReceived, responseChannels,
                   handshakeId, remoteStarted, running, connection, received,
                   answered>>

BackgroundQueue(p) ==
    /\ draft[p].stage = "buffered"
    /\ outgoing' = [outgoing EXCEPT ![p] = Append(@, draft[p].envelope)]
    /\ draft' = [draft EXCEPT ![p] = NoDraft]
    /\ UNCHANGED <<nextMessageId, inbox, buffer, maxReceived, responseChannels,
                   handshakeId, remoteStarted, running, connection, history>>

-----------------------------------------------------------------------------
(* Receiving: read_messages takes one envelope at a time.                   *)

(* read_messages takes the next envelope off the queue. *)
Reads(p) ==
    /\ handshakeId[p] # None
    /\ inbox[p] # <<>>
    /\ inbox' = [inbox EXCEPT ![p] = Tail(@)]

IsHandshakeAck(p, m) == m.kind = "ack" /\ m.re = handshakeId[p]

(* The Ack of this end's own handshake trims nothing and is not counted. *)
SkipHandshakeAck(p) ==
    LET m == Head(inbox[p]) IN
    /\ Reads(p)
    /\ IsHandshakeAck(p, m)
    /\ UNCHANGED <<nextMessageId, outgoing, buffer, maxReceived,
                   responseChannels, handshakeId, remoteStarted, running,
                   draft, connection, history>>

(* The buffer after m's ack_id, if it has one. *)
Trimmed(p, m) == [buffer EXCEPT ![p] = PopAcked(@, m.ack)]

AckTo(p, m) == Envelope(nextMessageId[p], "ack", None, m.id)

(* Mutant: the flush is acknowledged and nothing replayed. *)
HandleFlushWithoutReplay(p) ==
    LET m == Head(inbox[p]) IN
    /\ Reads(p)
    /\ m.kind = "flush"
    /\ buffer' = Trimmed(p, m)
    /\ outgoing' = [outgoing EXCEPT ![p] = Append(@, AckTo(p, m))]
    /\ nextMessageId' = [nextMessageId EXCEPT ![p] = @ + 1]
    /\ UNCHANGED <<maxReceived, responseChannels, handshakeId, remoteStarted,
                   running, draft, connection, history>>

(* Mutant: the Ack overtakes the replay. *)
HandleFlushAckFirst(p) ==
    LET m == Head(inbox[p]) IN
    /\ Reads(p)
    /\ m.kind = "flush"
    /\ buffer' = Trimmed(p, m)
    /\ outgoing' = [outgoing EXCEPT ![p] = Append(@, AckTo(p, m)) \o buffer'[p]]
    /\ nextMessageId' = [nextMessageId EXCEPT ![p] = @ + 1]
    /\ UNCHANGED <<maxReceived, responseChannels, handshakeId, remoteStarted,
                   running, draft, connection, history>>

(* FlushBufferedMessages: replay what is left of the buffer, then Ack. *)
HandleFlush(p) ==
    LET m == Head(inbox[p]) IN
    /\ Reads(p)
    /\ m.kind = "flush"
    /\ buffer' = Trimmed(p, m)
    /\ outgoing' = [outgoing EXCEPT ![p] =
                       @ \o Append(buffer'[p], AckTo(p, m))]
    /\ nextMessageId' = [nextMessageId EXCEPT ![p] = @ + 1]
    /\ UNCHANGED <<maxReceived, responseChannels, handshakeId, remoteStarted,
                   running, draft, connection, history>>

(* RemoteStarted: signal it and Ack. *)
HandleRemoteStarted(p) ==
    LET m == Head(inbox[p]) IN
    /\ Reads(p)
    /\ m.kind = "started"
    /\ buffer' = Trimmed(p, m)
    /\ remoteStarted' = [remoteStarted EXCEPT ![p] = TRUE]
    /\ outgoing' = [outgoing EXCEPT ![p] = Append(@, AckTo(p, m))]
    /\ nextMessageId' = [nextMessageId EXCEPT ![p] = @ + 1]
    /\ UNCHANGED <<maxReceived, responseChannels, handshakeId, running, draft,
                   connection, history>>

(* Mutant: the sender's ack_id is stored instead of its id. *)
CountsAckId(p, m) ==
    /\ maxReceived' = [maxReceived EXCEPT ![p] = m.ack]
    /\ received' = [received EXCEPT ![p] = @ \cup {m.id}]

(* max_received.store(incoming.id): a store, whatever was there before. *)
Counts(p, m) ==
    /\ maxReceived' = [maxReceived EXCEPT ![p] = m.id]
    /\ received' = [received EXCEPT ![p] = @ \cup {m.id}]

(* A notification or a request: its handler is spawned.  A replayed request *)
(* spawns another one.                                                      *)
HandleIncoming(p) ==
    LET m == Head(inbox[p]) IN
    /\ Reads(p)
    /\ m.kind \in {"notification", "request"}
    /\ buffer' = Trimmed(p, m)
    /\ Counts(p, m)
    /\ running' = [running EXCEPT ![p] =
                      IF m.kind = "request" THEN Append(@, m.id) ELSE @]
    /\ UNCHANGED <<nextMessageId, outgoing, responseChannels, handshakeId,
                   remoteStarted, draft, connection, sent, answered>>

AwaitsResync(p, m) ==
    p = "client" /\ resync.status = "waiting" /\ resync.flush = m.re

(* A response goes to the requester still registered for it, if any. *)
HandleResponse(p) ==
    LET m == Head(inbox[p]) IN
    /\ Reads(p)
    /\ m.kind \in {"response", "ack"}
    /\ ~ IsHandshakeAck(p, m)
    /\ ~ AwaitsResync(p, m)
    /\ buffer' = Trimmed(p, m)
    /\ Counts(p, m)
    /\ responseChannels' = [responseChannels EXCEPT ![p] = @ \ {m.re}]
    /\ answered' = [answered EXCEPT ![p] =
                       @ \cup (responseChannels[p] \cap {m.re})]
    /\ UNCHANGED <<nextMessageId, outgoing, handshakeId, remoteStarted,
                   running, draft, connection, sent>>

(* Mutant: the client forgets its half of the replay. *)
CompleteResyncWithoutReplay ==
    LET p == "client" IN
    LET m == Head(inbox[p]) IN
    /\ Reads(p)
    /\ m.kind \in {"response", "ack"}
    /\ ~ IsHandshakeAck(p, m)
    /\ AwaitsResync(p, m)
    /\ buffer' = Trimmed(p, m)
    /\ Counts(p, m)
    /\ responseChannels' = [responseChannels EXCEPT ![p] = @ \ {m.re}]
    /\ answered' = [answered EXCEPT ![p] =
                       @ \cup (responseChannels[p] \cap {m.re})]
    /\ resync' = [resync EXCEPT !.status = "done"]
    /\ UNCHANGED <<nextMessageId, outgoing, handshakeId, remoteStarted, running, draft,
                   link, outages, sent>>

(* The response resync() awaits: before the read task goes on (it waits for *)
(* the barrier the requester holds), the whole buffer is queued again.      *)
CompleteResync ==
    LET p == "client" IN
    LET m == Head(inbox[p]) IN
    /\ Reads(p)
    /\ m.kind \in {"response", "ack"}
    /\ ~ IsHandshakeAck(p, m)
    /\ AwaitsResync(p, m)
    /\ buffer' = Trimmed(p, m)
    /\ Counts(p, m)
    /\ responseChannels' = [responseChannels EXCEPT ![p] = @ \ {m.re}]
    /\ answered' = [answered EXCEPT ![p] =
                       @ \cup (responseChannels[p] \cap {m.re})]
    /\ outgoing' = [outgoing EXCEPT ![p] = @ \o buffer'[p]]
    /\ resync' = [resync EXCEPT !.status = "done"]
    /\ UNCHANGED <<nextMessageId, handshakeId, remoteStarted, running, draft,
                   link, outages, sent>>

-----------------------------------------------------------------------------
(* The connection.                                                          *)

(* The pumps on both sides: outgoing_rx to the proxy to incoming_tx. *)
Transmit(p) ==
    /\ link = "up"
    /\ outgoing[p] # <<>>
    /\ inbox' = [inbox EXCEPT ![Peer(p)] = Append(@, Head(outgoing[p]))]
    /\ outgoing' = [outgoing EXCEPT ![p] = Tail(@)]
    /\ UNCHANGED <<nextMessageId, buffer, maxReceived, responseChannels,
                   handshakeId, remoteStarted, running, draft, connection, history>>

(* The connection dies.  What the server had taken off its queue but the    *)
(* client never read, the first n envelopes, is gone; the rest stays queued *)
(* for the next connection.  The client's queue is a dead end from now on.  *)
(* (A connection lost before the first ping is answered makes               *)
(* RemoteClient::new fail: there is no client to reconnect.)                *)
Lose(n) ==
    /\ link = "up"
    /\ outages < MaxOutages
    /\ outages' = outages + 1
    /\ link' = "down"
    /\ outgoing' = [outgoing EXCEPT !["server"] = SubSeq(@, n + 1, Len(@))]

DropConnection ==
    /\ Established
    /\ \E n \in 0 .. Len(outgoing["server"]) : Lose(n)
    /\ UNCHANGED <<nextMessageId, inbox, buffer, maxReceived, responseChannels,
                   handshakeId, remoteStarted, running, draft, resync, history>>

(* RECONNECT_HANDSHAKE_TIMEOUT or RESYNC_TIMEOUT: the attempt has failed    *)
(* and its proxy is dropped with it.                                        *)
ResyncTimeout ==
    /\ resync.status = "waiting"
    /\ resync' = [resync EXCEPT !.status = "failed"]
    /\ \/ \E n \in 0 .. Len(outgoing["server"]) : Lose(n)
       \/ link = "down" /\ UNCHANGED <<link, outages, outgoing>>
    /\ UNCHANGED <<nextMessageId, inbox, buffer, maxReceived, responseChannels,
                   handshakeId, remoteStarted, running, draft, history>>

(* RemoteClient::reconnect with a new connection: ChannelClient::reconnect  *)
(* swaps the queues and sends the handshake, resync() queues the flush,     *)
(* stamped with max_received, right behind it.  A resync that completed     *)
(* from a connection already dead is followed by another attempt if the     *)
(* monitor wakes after State::Connected was set, and by none otherwise      *)
(* (RemoteClient): a step that may, but need not, happen.                   *)
Reconnect ==
    LET id == nextMessageId["client"] IN
    /\ link = "down"
    /\ resync.status # "waiting"
    /\ link' = "up"
    /\ handshakeId' = [handshakeId EXCEPT !["client"] = id]
    /\ inbox' = [inbox EXCEPT !["client"] = <<>>]
    /\ outgoing' = [outgoing EXCEPT !["client"] =
           <<Envelope(id, "started", None, None),
             Envelope(id + 1, "flush", maxReceived["client"], None)>>]
    /\ nextMessageId' = [nextMessageId EXCEPT !["client"] = id + 2]
    /\ responseChannels' =
          [responseChannels EXCEPT !["client"] = @ \cup {id + 1}]
    /\ resync' = [status |-> "waiting", flush |-> id + 1]
    /\ UNCHANGED <<buffer, maxReceived, remoteStarted, running, draft, outages,
                   history>>

-----------------------------------------------------------------------------
SendStep(p) == Send(p) \/ Request(p) \/ Respond(p)
BackgroundStep(p) ==
    \/ BackgroundNumber(p) \/ BackgroundStamp(p)
    \/ BackgroundBuffer(p) \/ BackgroundQueue(p)
ReadStep(p) ==
    \/ SkipHandshakeAck(p) \/ HandleFlush(p) \/ HandleRemoteStarted(p)
    \/ HandleIncoming(p) \/ HandleResponse(p)

Next ==
    \/ \E p \in Peers :
          \/ StartHandlingMessages(p)
          \/ SendStep(p)
          \/ BackgroundStep(p)
          \/ ReadStep(p)
          \/ Transmit(p)
    \/ CompleteResync
    \/ DropConnection
    \/ ResyncTimeout
    \/ Reconnect

Spec == Init /\ [][Next]_vars

(* The executors run every ready task and the pumps move what is queued;    *)
(* nothing is assumed about new sends, the handlers, outages or reconnects. *)
Fairness ==
    /\ \A p \in Peers :
          /\ WF_vars(StartHandlingMessages(p))
          /\ WF_vars(ReadStep(p))
          /\ WF_vars(Transmit(p))
          /\ WF_vars(BackgroundStamp(p) \/ BackgroundBuffer(p) \/ BackgroundQueue(p))
    /\ WF_vars(CompleteResync)

FairSpec == Spec /\ Fairness

-----------------------------------------------------------------------------
(* Every variable has its type. *)
TypeOK ==
    /\ nextMessageId \in [Peers -> Nat]
    /\ outgoing \in [Peers -> Seq(Envelopes)]
    /\ inbox \in [Peers -> Seq(Envelopes)]
    /\ buffer \in [Peers -> Seq(Envelopes)]
    /\ maxReceived \in [Peers -> Nat]
    /\ responseChannels \in [Peers -> SUBSET Nat]
    /\ handshakeId \in [Peers -> Nat \cup {None}]
    /\ remoteStarted \in [Peers -> BOOLEAN]
    /\ running \in [Peers -> Seq(Nat)]
    /\ draft \in [Peers -> Drafts]
    /\ link \in {"up", "down"}
    /\ resync \in [status : {"idle", "waiting", "done", "failed"},
                   flush : Nat \cup {None}]
    /\ outages \in Nat
    /\ sent \in [Peers -> SUBSET Envelopes]
    /\ received \in [Peers -> SUBSET Nat]
    /\ answered \in [Peers -> SUBSET Nat]

(* A message leaves its sender's buffer only after the peer has handled it  *)
(* or one numbered after it (0 is where max_received starts): acknowledging *)
(* is sound whatever is lost, replayed or reordered.                        *)
DiscardedWhenOvertaken ==
    \A p \in Peers : \A e \in sent[p] :
        e.id \notin Ids(buffer[p]) =>
            \E n \in received[Peer(p)] \cup {0} : e.id <= n

(* The envelopes of p that can still reach its peer, or be made to. *)
InFlight(p) ==
    Elements(outgoing[p]) \cup Elements(inbox[Peer(p)]) \cup Elements(buffer[p])
        \cup {draft[p].envelope}

(* What makes the above inductive: an ack_id on its way from p, and the one *)
(* p would stamp next, names a message p has really handled.                *)
AckedWasReceived ==
    \A p \in Peers :
        /\ maxReceived[p] \in received[p] \cup {0}
        /\ \A e \in InFlight(p) : e.ack # None => e.ack \in received[p] \cup {0}

(* No message is ever forgotten: until the peer has handled it, it is in    *)
(* the sender's buffer or still on its way.                                 *)
NothingLost ==
    \A p \in Peers : \A e \in sent[p] :
        \/ e.id \in received[Peer(p)]
        \/ e.id \in Ids(buffer[p]) \cup Ids(outgoing[p]) \cup Ids(inbox[Peer(p)])

(* Whenever the client is not in the middle of a resync, its max_received  *)
(* leaves no gap: whatever the server still holds up to it was handled, so  *)
(* the replay that ended the resync was complete.                           *)
WatermarkHonest ==
    resync.status \in {"idle", "done"} =>
        \A e \in Elements(buffer["server"]) :
            e.id \in received["client"] \/ e.id > maxReceived["client"]

(* Once the connection stays up and is resynced, every message arrives. *)
EventuallyHandled ==
    <>[](link = "up" /\ resync.status \in {"idle", "done"}) =>
        []<>(\A p \in Peers : \A e \in sent[p] : e.id \in received[Peer(p)])
=============================================================================
