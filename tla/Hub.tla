-------------------------------- MODULE Hub --------------------------------
(***************************************************************************)
(* Live updates: the browser's socket and its subscriptions (ws.ts), the   *)
(* connections and channels of the orchestrator (ws_hub.py, routers/ws.py) *)
(* and what is published on them (ws_pollers.py, runtime_snapshot.py,      *)
(* set_progress).                                                          *)
(*                                                                         *)
(* The state of a torrent is a number that grows.  A polled channel is     *)
(* published again and again by two publishers, each of which reads first  *)
(* and publishes later; a pushed channel (migrate:id) is published at the  *)
(* change and never again.  One browser is modelled; each of its           *)
(* connections is a client of the hub of its own.                          *)
(***************************************************************************)
EXTENDS Naturals, Sequences, FiniteSets

CONSTANTS Conns,          \* the connections of the browser, in order
          Polled, Pushed, \* the channels
          Publishers,     \* snapshot_once and _poll_torrents
          MaxWorld,       \* bound on changes of a channel's state
          MaxToggles      \* bound on what the user opens and closes

ASSUME HubAssumption ==
    /\ Conns \subseteq Nat \ {0} /\ IsFiniteSet(Conns)
    /\ Polled \cap Pushed = {} /\ "no" \notin Polled \union Pushed
    /\ MaxWorld \in Nat /\ MaxToggles \in Nat

VARIABLES
    world,     \* the present state of what each channel shows
    tab,       \* the browser: its connection, subscriptions and what it shows
    inbox,     \* [Conns -> sequence of subscribe and unsubscribe messages]
    conn,      \* [Conns -> WsClient and ws_endpoint]
    pub,       \* what a publisher has read and not published
    last,      \* history: the pushed channels whose last push was offered to this page
    toggles

hubVars == <<world, tab, inbox, conn, pub, last, toggles>>

Channels == Polled \union Pushed
None == MaxWorld + 1                        \* no message, nothing shown
Empty == [c \in Channels |-> None]

NewConn == [st |-> "new", subs |-> {}, pend |-> Empty, out |-> Empty, wake |-> FALSE,
            ask |-> "no", snap |-> None, closed |-> FALSE]

HubInit ==
    /\ world = [c \in Channels |-> 0]
    /\ tab = [at |-> 0, want |-> {}, shown |-> Empty, refused |-> FALSE]
    /\ inbox = [i \in Conns |-> <<>>]
    /\ conn = [i \in Conns |-> NewConn]
    /\ pub = [p \in Publishers |-> Empty]
    /\ last = {}
    /\ toggles = 0

-----------------------------------------------------------------------------
(* WsClient.offer: the last message of a channel wins; a closed client     *)
(* takes none.                                                             *)
Offered(k, c, v) ==
    IF k.closed THEN k ELSE [k EXCEPT !.pend[c] = v, !.wake = TRUE]

Subscribers(c) == {i \in Conns : c \in conn[i].subs}
Published(c, v) ==
    [i \in Conns |-> IF i \in Subscribers(c) THEN Offered(conn[i], c, v) ELSE conn[i]]

(* run_writer: woken up, it takes what is pending and sends it.            *)
WriterSwap(i) ==
    /\ conn[i].st = "open" /\ ~conn[i].closed
    /\ conn[i].wake /\ conn[i].out = Empty
    /\ conn' = [conn EXCEPT ![i].wake = FALSE, ![i].out = conn[i].pend, ![i].pend = Empty]
    /\ UNCHANGED <<world, tab, inbox, pub, last, toggles>>

(* Mutant of WriterSend: an offer that came while messages were sent is    *)
(* forgotten by the wake-up that is cleared at the end.                    *)
SendAndClear(i, c) ==
    /\ conn[i].st = "open" /\ conn[i].out[c] # None /\ tab.at = i
    /\ conn' = [conn EXCEPT ![i].out[c] = None, ![i].wake = FALSE]
    /\ tab' = [tab EXCEPT !.shown[c] = IF c \in tab.want THEN conn[i].out[c] ELSE @]
    /\ UNCHANGED <<world, inbox, pub, last, toggles>>

(* A message is sent, received and handed to the listeners of its channel. *)
WriterSend(i, c) ==
    /\ conn[i].st = "open" /\ conn[i].out[c] # None /\ tab.at = i
    /\ conn' = [conn EXCEPT ![i].out[c] = None]
    /\ tab' = [tab EXCEPT !.shown[c] = IF c \in tab.want THEN conn[i].out[c] ELSE @]
    /\ UNCHANGED <<world, inbox, pub, last, toggles>>

(* A send on a socket that is gone ends the writer.                        *)
WriterFails(i) ==
    /\ conn[i].st = "open" /\ conn[i].out # Empty /\ tab.at # i
    /\ conn' = [conn EXCEPT ![i].out = Empty, ![i].closed = TRUE]
    /\ UNCHANGED <<world, tab, inbox, pub, last, toggles>>

-----------------------------------------------------------------------------
(* ws_endpoint takes one message after the other; while it collects the    *)
(* first snapshot of a channel, the next ones wait and events go out.      *)
Busy(i) == conn[i].ask # "no"

TakeSubscribe(i) ==
    /\ conn[i].st = "open" /\ ~Busy(i) /\ inbox[i] # <<>> /\ Head(inbox[i]).sub
    /\ LET c == Head(inbox[i]).ch
       IN  conn' = [conn EXCEPT ![i].subs = @ \union {c}, ![i].ask = c]
    /\ inbox' = [inbox EXCEPT ![i] = Tail(@)]
    /\ UNCHANGED <<world, tab, pub, last, toggles>>

TakeUnsubscribe(i) ==
    /\ conn[i].st = "open" /\ ~Busy(i) /\ inbox[i] # <<>> /\ ~Head(inbox[i]).sub
    /\ conn' = [conn EXCEPT ![i].subs = @ \ {Head(inbox[i]).ch}]
    /\ inbox' = [inbox EXCEPT ![i] = Tail(@)]
    /\ UNCHANGED <<world, tab, pub, last, toggles>>

(* initial_snapshot of a polled channel; there is none of a pushed one.    *)
SnapshotCollect(i) ==
    /\ conn[i].st = "open" /\ conn[i].ask \in Polled /\ conn[i].snap = None
    /\ conn' = [conn EXCEPT ![i].snap = world[conn[i].ask]]
    /\ UNCHANGED <<world, tab, inbox, pub, last, toggles>>

SnapshotSend(i) ==
    /\ conn[i].st = "open" /\ Busy(i)
    /\ LET k == [conn[i] EXCEPT !.ask = "no", !.snap = None]
       IN  conn' = [conn EXCEPT ![i] = IF conn[i].snap = None THEN k
                                       ELSE Offered(k, conn[i].ask, conn[i].snap)]
    /\ UNCHANGED <<world, tab, inbox, pub, last, toggles>>

(* The handshake, accepted or refused (session over, feature off).         *)
Accept(i) ==
    /\ conn[i].st = "new" /\ tab.at = i
    /\ conn' = [conn EXCEPT ![i].st = "open"]
    /\ \E order \in [1..Cardinality(tab.want) -> tab.want] :
          /\ {order[n] : n \in DOMAIN order} = tab.want
          /\ inbox' = [inbox EXCEPT ![i] =
                          [n \in DOMAIN order |-> [sub |-> TRUE, ch |-> order[n]]]]
    /\ UNCHANGED <<world, tab, pub, last, toggles>>

Refuse(i) ==
    /\ conn[i].st = "new" /\ tab.at = i
    /\ conn' = [conn EXCEPT ![i].st = "gone"]
    /\ tab' = [tab EXCEPT !.at = 0, !.refused = TRUE]
    /\ UNCHANGED <<world, inbox, pub, last, toggles>>

(* The finally of ws_endpoint, once the socket is gone: unregister.        *)
HangUp(i) ==
    /\ conn[i].st = "open" /\ tab.at # i
    /\ conn' = [conn EXCEPT ![i] = [NewConn EXCEPT !.st = "gone", !.closed = TRUE]]
    /\ inbox' = [inbox EXCEPT ![i] = <<>>]
    /\ UNCHANGED <<world, tab, pub, last, toggles>>

-----------------------------------------------------------------------------
(* The browser: ensureSocket opens a socket when something is subscribed,  *)
(* at once or after a while.                                               *)
Fresh == {i \in Conns : conn[i].st = "new"}

Connect ==
    /\ tab.at = 0 /\ ~tab.refused /\ tab.want # {}
    /\ \E i \in Fresh : /\ \A j \in Fresh : i <= j
                        /\ tab' = [tab EXCEPT !.at = i]
    /\ UNCHANGED <<world, inbox, conn, pub, last, toggles>>

Drop ==
    /\ tab.at # 0 /\ \E i \in Fresh : i # tab.at
    /\ conn' = [conn EXCEPT ![tab.at].st = IF @ = "new" THEN "gone" ELSE @]
    /\ tab' = [tab EXCEPT !.at = 0]
    /\ last' = {}
    /\ UNCHANGED <<world, inbox, pub, toggles>>

Tell(sub, c) ==
    inbox' = IF tab.at # 0 /\ conn[tab.at].st = "open"
             THEN [inbox EXCEPT ![tab.at] = Append(@, [sub |-> sub, ch |-> c])]
             ELSE inbox

(* wsSubscribe, by a first or a further listener, and its return value.    *)
Listen(c) ==
    /\ toggles < MaxToggles
    /\ tab' = [tab EXCEPT !.want = @ \union {c}]
    /\ Tell(TRUE, c)
    /\ toggles' = toggles + 1
    /\ UNCHANGED <<world, conn, pub, last>>

Leave(c) ==
    /\ toggles < MaxToggles /\ c \in tab.want
    /\ tab' = [tab EXCEPT !.want = @ \ {c}, !.shown[c] = None]
    /\ Tell(FALSE, c)
    /\ toggles' = toggles + 1
    /\ last' = last \ {c}
    /\ UNCHANGED <<world, conn, pub>>

-----------------------------------------------------------------------------
(* The state of a torrent changes on its engine.                           *)
Change(c) ==
    /\ c \in Polled /\ world[c] < MaxWorld
    /\ world' = [world EXCEPT ![c] = @ + 1]
    /\ UNCHANGED <<tab, inbox, conn, pub, last, toggles>>

(* set_progress: a step within a phase may be throttled, the last is not.  *)
Push(c) ==
    /\ c \in Pushed /\ world[c] < MaxWorld
    /\ world' = [world EXCEPT ![c] = @ + 1]
    /\ \/ /\ conn' = Published(c, world[c] + 1)
          /\ last' = IF world[c] + 1 = MaxWorld /\ tab.at \in Subscribers(c) /\ c \in tab.want
                     THEN last \union {c} ELSE last
       \/ world[c] + 1 < MaxWorld /\ UNCHANGED <<conn, last>>
    /\ UNCHANGED <<tab, inbox, pub, toggles>>

(* A publisher reads for a channel that has subscribers, and publishes to  *)
(* those it has then.                                                      *)
PublisherRead(p, c) ==
    /\ c \in Polled /\ Subscribers(c) # {} /\ pub[p][c] = None
    /\ pub' = [pub EXCEPT ![p][c] = world[c]]
    /\ UNCHANGED <<world, tab, inbox, conn, last, toggles>>

Publish(p, c) ==
    /\ pub[p][c] # None
    /\ conn' = Published(c, pub[p][c])
    /\ pub' = [pub EXCEPT ![p][c] = None]
    /\ UNCHANGED <<world, tab, inbox, last, toggles>>

ConnStep(i) ==
    \/ WriterSwap(i) \/ (\E c \in Channels : WriterSend(i, c)) \/ WriterFails(i)
    \/ TakeSubscribe(i) \/ TakeUnsubscribe(i) \/ SnapshotCollect(i) \/ SnapshotSend(i)
    \/ Accept(i) \/ HangUp(i)

PublisherStep(p, c) == PublisherRead(p, c) \/ Publish(p, c)

HubNext ==
    \/ \E i \in Conns : ConnStep(i) \/ Refuse(i)
    \/ Connect \/ Drop
    \/ \E c \in Channels :
          Listen(c) \/ Leave(c) \/ Change(c) \/ Push(c) \/ \E p \in Publishers : PublisherStep(p, c)

(* Writers, endpoints and publishers go on; a socket is opened again.      *)
HubFairness ==
    /\ WF_hubVars(Connect)
    /\ \A i \in Conns :
          /\ WF_hubVars(WriterSwap(i)) /\ WF_hubVars(Accept(i))
          /\ WF_hubVars(TakeSubscribe(i) \/ TakeUnsubscribe(i) \/ SnapshotSend(i))
          /\ \A c \in Channels : WF_hubVars(WriterSend(i, c))
    /\ \A p \in Publishers, c \in Polled : WF_hubVars(PublisherRead(p, c)) /\ WF_hubVars(Publish(p, c))

HubSpec == HubInit /\ [][HubNext]_hubVars /\ HubFairness

-----------------------------------------------------------------------------
Values == 0..None
HubTypeOK ==
    /\ world \in [Channels -> 0..MaxWorld]
    /\ tab \in [at : Conns \union {0}, want : SUBSET Channels, shown : [Channels -> Values],
                refused : BOOLEAN]
    /\ inbox \in [Conns -> Seq([sub : BOOLEAN, ch : Channels])]
    /\ conn \in [Conns -> [st : {"new", "open", "gone"}, subs : SUBSET Channels,
                           pend : [Channels -> Values], out : [Channels -> Values],
                           wake : BOOLEAN, ask : Channels \union {"no"}, snap : Values,
                           closed : BOOLEAN]]
    /\ pub \in [Publishers -> [Channels -> Values]]
    /\ last \in SUBSET Pushed /\ toggles \in 0..MaxToggles

(* The end of a transfer that was offered to this page is on its way: it   *)
(* waits for a writer that is woken up, or is being sent, or is shown.  No *)
(* older message comes after it, and no wake-up is lost.                   *)
EndOnItsWay ==
    \A c \in last :
        LET k == conn[tab.at]
        IN  \/ k.pend[c] = MaxWorld /\ k.wake
            \/ k.pend[c] = None /\ k.out[c] = MaxWorld
            \/ k.pend[c] = None /\ k.out[c] = None /\ tab.shown[c] = MaxWorld

(* A page that stays open ends up showing the present state of the         *)
(* torrent, whatever older messages the two publishers and the first       *)
(* snapshot bring, and through every lost connection.  The end of a        *)
(* transfer, which is sent only once, is shown on a page it was offered    *)
(* to, unless the connection breaks or the page is left first.             *)
Delivered ==
    /\ \A c \in Polled : <>[](c \in tab.want /\ ~tab.refused => tab.shown[c] = world[c])
    /\ \A c \in Pushed : c \in last ~> (c \in last => tab.shown[c] = MaxWorld)
=============================================================================
