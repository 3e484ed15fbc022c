------------------------------- MODULE PubSub -------------------------------
(***************************************************************************)
(* Publish/subscribe of the Go mini-redis server                           *)
(* (src/redis/impl/go-1/pubsub.go), composed over the output path of each  *)
(* connection.                                                             *)
(*                                                                         *)
(* The registry is kept twice, in pubsub.chans and in each client's subs.  *)
(* SUBSCRIBE, UNSUBSCRIBE and cleanup change it under the write side of    *)
(* pubsub.mu; PUBLISH holds the read side while it locks one subscriber    *)
(* after another.  A connection's output appears here as OutStream         *)
(* promises it (AsyncOutput implements that): a queue the peer empties in  *)
(* order, dropped as a whole when the connection breaks.                   *)
(***************************************************************************)
EXTENDS Naturals, Sequences, FiniteSets

CONSTANTS
  Clients,      \* the connections
  Channels,     \* the channel names
  MaxPending,   \* limit of c.pending, in items
  MaxCmds,      \* commands executed in all; bounds the model
  MaxArgs       \* channels named by one SUBSCRIBE or UNSUBSCRIBE

ASSUME FiniteAssumption == IsFiniteSet(Clients) /\ IsFiniteSet(Channels)
ASSUME LimitAssumption ==
  MaxPending \in Nat \ {0} /\ MaxCmds \in Nat /\ MaxArgs \in Nat \ {0}

VARIABLES
  pc,        \* where the goroutine of a connection is
  todo,      \* channels the current SUBSCRIBE has still to register
  cmds,      \* commands executed so far, by all
  async,     \* c.async
  subs,      \* c.subs
  chans,     \* pubsub.chans
  pub,       \* the PUBLISH in progress: its message, and who is still to get it
  npub,      \* messages a client has published to a channel
  out,       \* replies in c.out, not pushed yet
  dead,      \* c.dead
  queue,     \* output accepted and not yet received by the peer
  broken,    \* the connection is broken: its queue is lost
  received   \* everything the peer has received

registry == <<subs, chans>>
output   == <<dead, queue, broken>>
vars == <<pc, todo, cmds, async, registry, pub, npub, out, output, received>>

SubAck(t, ch, n)  == [t |-> t, ch |-> ch, n |-> n]
PublishReply(n)   == [t |-> "reply", n |-> n]
Message(p, ch, i) == [t |-> "msg", ch |-> ch, from |-> p, id |-> i]

NoChannel == "none"   \* the null of UNSUBSCRIBE's answer without subscriptions
Replies  == [t : {"sub", "unsub"}, ch : Channels \cup {NoChannel}, n : Nat]
              \cup [t : {"reply"}, n : Nat]
Messages == [t : {"msg"}, ch : Channels, from : Clients, id : Nat]

\* The argument lists of SUBSCRIBE and UNSUBSCRIBE.
ArgLists == UNION {[1..n -> Channels] : n \in 1..MaxArgs}
Elems(s) == {s[i] : i \in DOMAIN s}

-----------------------------------------------------------------------------
(***************************************************************************)
(* deliverLocked.  The limit is on c.pending; up to as much again may      *)
(* already be in the writer's hands, so that a queue longer than           *)
(* MaxPending may, and one longer than twice that must, be cut.            *)
(***************************************************************************)
Deliver(c, b) ==
  \/ (dead[c] \/ broken[c]) /\ UNCHANGED output
  \/ /\ ~dead[c] /\ ~broken[c]
     /\ Len(queue[c] \o b) <= 2 * MaxPending
     /\ queue' = [queue EXCEPT ![c] = @ \o b]
     /\ UNCHANGED <<dead, broken>>
  \/ /\ ~dead[c] /\ ~broken[c]
     /\ Len(queue[c] \o b) > MaxPending
     /\ dead' = [dead EXCEPT ![c] = TRUE]
     /\ broken' = [broken EXCEPT ![c] = TRUE]
     /\ queue' = [queue EXCEPT ![c] = <<>>]

\* Fault: PUBLISH does not take pubsub.mu.
RegistryUnlocked == TRUE

\* The write side of pubsub.mu is free: no PUBLISH holds the read side.
RegistryFree == \A p \in Clients : pc[p] # "publish"

\* Fault: pubsub.chans keeps the client.
UnsubHalf(c, S) ==
  /\ subs' = [subs EXCEPT ![c] = @ \ S]
  /\ UNCHANGED chans

\* unsubOne for every channel of S.
UnsubEach(c, S) ==
  /\ subs' = [subs EXCEPT ![c] = @ \ S]
  /\ chans' = [ch \in Channels |-> IF ch \in S THEN chans[ch] \ {c} ELSE chans[ch]]

NoPublish == [msg |-> <<>>, left |-> {}, n |-> 0]

StartCommand(c, next) ==
  /\ pc[c] = "exec"
  /\ cmds < MaxCmds
  /\ cmds' = cmds + 1
  /\ pc' = [pc EXCEPT ![c] = next]

-----------------------------------------------------------------------------
\* startAsync: from now on all output goes through deliverLocked.
Subscribe(c, chs) ==
  /\ StartCommand(c, "subscribe")
  /\ todo' = [todo EXCEPT ![c] = chs]
  /\ async' = [async EXCEPT ![c] = TRUE]
  /\ UNCHANGED <<registry, pub, npub, out, output, received>>

\* One iteration of cmdSubscribe: the registration and the delivery of its
\* acknowledgement are one section of pubsub.mu.
SubscribeOne(c) ==
  /\ pc[c] = "subscribe"
  /\ RegistryFree
  /\ LET ch == Head(todo[c])
         after == subs[c] \cup {ch}
     IN  /\ subs' = [subs EXCEPT ![c] = after]
         /\ chans' = [chans EXCEPT ![ch] = @ \cup {c}]
         /\ Deliver(c, <<SubAck("sub", ch, Cardinality(after))>>)
  /\ todo' = [todo EXCEPT ![c] = Tail(@)]
  /\ pc' = [pc EXCEPT ![c] = IF Len(todo[c]) = 1 THEN "exec" ELSE @]
  /\ UNCHANGED <<cmds, async, pub, npub, out, received>>

\* The acknowledgements of an UNSUBSCRIBE, each with the number of
\* subscriptions left.
UnsubAcks(c, chs) ==
  [i \in DOMAIN chs |->
     SubAck("unsub", chs[i], Cardinality(subs[c] \ {chs[j] : j \in 1..i}))]

\* UNSUBSCRIBE of the channels given.  The acknowledgements go to c.out and
\* are pushed after pubsub.mu is released.
Unsubscribe(c, chs) ==
  /\ StartCommand(c, "push")
  /\ RegistryFree
  /\ UnsubEach(c, Elems(chs))
  /\ out' = [out EXCEPT ![c] = UnsubAcks(c, chs)]
  /\ UNCHANGED <<todo, async, pub, npub, output, received>>

\* UNSUBSCRIBE without arguments: everything, in the map's order.
UnsubscribeAll(c) ==
  /\ subs[c] # {}
  /\ \E chs \in [1..Cardinality(subs[c]) -> subs[c]] :
       Elems(chs) = subs[c] /\ Unsubscribe(c, chs)

UnsubscribeNone(c) ==
  /\ subs[c] = {}
  /\ StartCommand(c, "push")
  /\ out' = [out EXCEPT ![c] = <<SubAck("unsub", NoChannel, 0)>>]
  /\ UNCHANGED <<todo, async, registry, pub, npub, output, received>>

\* pushAsync at the end of exec.
Push(c) ==
  /\ pc[c] = "push" /\ async[c]
  /\ Deliver(c, out[c])
  /\ out' = [out EXCEPT ![c] = <<>>]
  /\ pc' = [pc EXCEPT ![c] = "exec"]
  /\ UNCHANGED <<todo, cmds, async, registry, pub, npub, received>>

\* flush of a connection that never subscribed: it waits for its peer, and a
\* write that fails ends the connection.
Flush(c) ==
  /\ pc[c] = "push" /\ ~async[c]
  /\ \/ /\ ~broken[c] /\ Len(queue[c]) < MaxPending
        /\ queue' = [queue EXCEPT ![c] = @ \o out[c]]
        /\ pc' = [pc EXCEPT ![c] = "exec"]
     \/ /\ broken[c]
        /\ pc' = [pc EXCEPT ![c] = "unsub"]
        /\ UNCHANGED queue
  /\ out' = [out EXCEPT ![c] = <<>>]
  /\ UNCHANGED <<todo, cmds, async, registry, pub, npub, dead, broken, received>>

\* PUBLISH, refused by exec while the client has subscriptions.
Publish(c, ch) ==
  /\ subs[c] = {}
  /\ StartCommand(c, "publish")
  /\ npub' = [npub EXCEPT ![c][ch] = @ + 1]
  /\ pub' = [pub EXCEPT ![c] = [msg  |-> Message(c, ch, npub[c][ch] + 1),
                                left |-> chans[ch],
                                n    |-> Cardinality(chans[ch])]]
  /\ UNCHANGED <<todo, async, registry, out, output, received>>

\* Fault: the publisher waits for a subscriber whose buffer is full.
PublishWaits(c, s) ==
  /\ pc[c] = "publish"
  /\ s \in pub[c].left
  /\ Len(queue[s]) < MaxPending
  /\ Deliver(s, <<pub[c].msg>>)
  /\ pub' = [pub EXCEPT ![c].left = @ \ {s}]
  /\ UNCHANGED <<pc, todo, cmds, async, npub, registry, out, received>>

\* Fault: the subscriber stays in the loop, and gets the message again.
PublishTwice(c, s) ==
  /\ pc[c] = "publish"
  /\ s \in pub[c].left
  /\ Deliver(s, <<pub[c].msg, pub[c].msg>>)
  /\ pub' = [pub EXCEPT ![c].left = @ \ {s}]
  /\ UNCHANGED <<pc, todo, cmds, async, npub, registry, out, received>>

\* The loop over the subscribers, in the map's order.
PublishDeliver(c, s) ==
  /\ pc[c] = "publish"
  /\ s \in pub[c].left
  /\ Deliver(s, <<pub[c].msg>>)
  /\ pub' = [pub EXCEPT ![c].left = @ \ {s}]
  /\ UNCHANGED <<pc, todo, cmds, async, npub, registry, out, received>>

\* The read lock is released; the reply is the number of subscribers.
PublishEnd(c) ==
  /\ pc[c] = "publish"
  /\ pub[c].left = {}
  /\ pc' = [pc EXCEPT ![c] = "push"]
  /\ out' = [out EXCEPT ![c] = <<PublishReply(pub[c].n)>>]
  /\ pub' = [pub EXCEPT ![c] = NoPublish]
  /\ UNCHANGED <<todo, cmds, async, registry, npub, output, received>>

\* QUIT, or a failed read.
Disconnect(c) ==
  /\ pc[c] = "exec"
  /\ pc' = [pc EXCEPT ![c] = "unsub"]
  /\ UNCHANGED <<todo, cmds, async, registry, pub, npub, out, output, received>>

CleanupUnsub(c) ==
  /\ pc[c] = "unsub"
  /\ IF subs[c] = {} THEN UNCHANGED registry
     ELSE RegistryFree /\ UnsubEach(c, subs[c])
  /\ pc' = [pc EXCEPT ![c] = "close"]
  /\ UNCHANGED <<todo, cmds, async, pub, npub, out, output, received>>

CleanupClose(c) ==
  /\ pc[c] = "close"
  /\ pc' = [pc EXCEPT ![c] = "done"]
  /\ dead' = [dead EXCEPT ![c] = TRUE]
  /\ UNCHANGED <<todo, cmds, async, registry, pub, npub, out, queue, broken, received>>

\* The peer receives the next item, or leaves.
Receive(c) ==
  /\ queue[c] # <<>>
  /\ received' = [received EXCEPT ![c] = Append(@, Head(queue[c]))]
  /\ queue' = [queue EXCEPT ![c] = Tail(@)]
  /\ UNCHANGED <<pc, todo, cmds, async, registry, pub, npub, out, dead, broken>>

Break(c) ==
  /\ ~broken[c]
  /\ broken' = [broken EXCEPT ![c] = TRUE]
  /\ queue' = [queue EXCEPT ![c] = <<>>]
  /\ UNCHANGED <<pc, todo, cmds, async, registry, pub, npub, out, dead, received>>

-----------------------------------------------------------------------------
Init ==
  /\ pc = [c \in Clients |-> "exec"]
  /\ todo = [c \in Clients |-> <<>>]
  /\ cmds = 0
  /\ async = [c \in Clients |-> FALSE]
  /\ subs = [c \in Clients |-> {}]
  /\ chans = [ch \in Channels |-> {}]
  /\ pub = [c \in Clients |-> NoPublish]
  /\ npub = [c \in Clients |-> [ch \in Channels |-> 0]]
  /\ out = [c \in Clients |-> <<>>]
  /\ dead = [c \in Clients |-> FALSE]
  /\ queue = [c \in Clients |-> <<>>]
  /\ broken = [c \in Clients |-> FALSE]
  /\ received = [c \in Clients |-> <<>>]

\* A command arrives at c.
Command(c) ==
  \/ \E chs \in ArgLists : Subscribe(c, chs)
  \/ \E chs \in ArgLists : Unsubscribe(c, chs)
  \/ UnsubscribeAll(c)
  \/ UnsubscribeNone(c)
  \/ \E ch \in Channels : Publish(c, ch)

\* c's goroutine goes on without its peer; a broken connection fails its read.
Run(c) ==
  \/ SubscribeOne(c)
  \/ Push(c)
  \/ Flush(c)
  \/ \E s \in Clients : PublishDeliver(c, s)
  \/ PublishEnd(c)
  \/ CleanupUnsub(c)
  \/ CleanupClose(c)

Next == \E c \in Clients : Command(c) \/ Run(c) \/ Disconnect(c) \/ Receive(c) \/ Break(c)

Spec == Init /\ [][Next]_vars

\* The goroutines run; nothing is assumed of the peers.  A goroutine that
\* waits for the write side of pubsub.mu gets it although PUBLISH commands
\* keep coming (sync.RWMutex lets no new reader pass a waiting writer).
FairSpec == Spec /\ \A c \in Clients :
  SF_vars(Run(c)) /\ WF_vars(broken[c] /\ Disconnect(c))

-----------------------------------------------------------------------------
TypeOK ==
  /\ pc \in [Clients -> {"exec", "subscribe", "push", "publish", "unsub", "close", "done"}]
  /\ todo \in [Clients -> Seq(Channels)]
  /\ \A c \in Clients : pc[c] = "subscribe" <=> todo[c] # <<>>
  /\ cmds \in 0..MaxCmds
  /\ async \in [Clients -> BOOLEAN]
  /\ subs \in [Clients -> SUBSET Channels]
  /\ chans \in [Channels -> SUBSET Clients]
  /\ pub \in [Clients -> [msg : Messages \cup {<<>>}, left : SUBSET Clients, n : Nat]]
  /\ npub \in [Clients -> [Channels -> Nat]]
  /\ out \in [Clients -> Seq(Replies)]
  /\ dead \in [Clients -> BOOLEAN]
  /\ queue \in [Clients -> Seq(Replies \cup Messages)]
  /\ broken \in [Clients -> BOOLEAN]
  /\ received \in [Clients -> Seq(Replies \cup Messages)]

\* c.subs and pubsub.chans, kept by cmdSubscribe, unsubOne and cleanup, are two
\* copies of one relation, and no finished connection is left in it.
RegistryConsistent ==
  /\ \A ch \in Channels : chans[ch] = {c \in Clients : ch \in subs[c]}
  /\ \A c \in Clients : pc[c] \in {"close", "done"} => subs[c] = {}

\* The registry and the goroutines that use it (pubsub.go:8): types and the relation above.
RegistrySound == TypeOK /\ RegistryConsistent

\* The peer's view: after the first n items it received, it is subscribed to ch.
SubscribedAt(c, ch, n) ==
  \E i \in 1..n :
    /\ received[c][i].t = "sub" /\ received[c][i].ch = ch
    /\ \A j \in i..n : ~(received[c][j].t = "unsub" /\ received[c][j].ch = ch)

\* A peer sees a channel's messages only between the acknowledgement of its
\* subscription and that of its unsubscription, although cmdUnsubscribe
\* pushes its replies after it has released pubsub.mu.
AcksBracketMessages ==
  \A c \in Clients : \A i \in DOMAIN received[c] :
    received[c][i].t = "msg" => SubscribedAt(c, received[c][i].ch, i - 1)

\* The count in every acknowledgement is the number of channels the peer is
\* subscribed to at that point of what it has received.
AckCountsMatch ==
  \A c \in Clients : \A i \in DOMAIN received[c] :
    received[c][i].t \in {"sub", "unsub"} =>
      received[c][i].n = Cardinality({ch \in Channels : SubscribedAt(c, ch, i)})

\* cmdSubscribe and cmdUnsubscribe (pubsub.go:28, 68): acknowledgements stand where they
\* should among the messages, and their counts are right.
AcksRight == AcksBracketMessages /\ AckCountsMatch

\* What one client publishes to a channel arrives in publish order, each
\* message once, and without a gap while the subscription lasts.
PublishOrder ==
  \A c, p \in Clients, ch \in Channels :
    LET Ours == {i \in DOMAIN received[c] :
                   /\ received[c][i].t = "msg"
                   /\ received[c][i].from = p
                   /\ received[c][i].ch = ch}
        Left(i, j) == \E k \in i..j : received[c][k].t = "unsub" /\ received[c][k].ch = ch
    IN  \A i, j \in Ours : i < j =>
          /\ received[c][i].id < received[c][j].id
          /\ Left(i, j) \/ (\E k \in Ours : i < k /\ k < j)
               \/ received[c][j].id = received[c][i].id + 1

\* A slow subscriber does not block a publisher: PUBLISH ends even if no peer
\* ever takes a byte from its socket.
PublishEnds == \A c \in Clients : pc[c] = "publish" ~> pc[c] # "publish"

\* A broken connection, cut for its full buffer or left by its peer, leaves
\* the registry for good.
BrokenLeaves ==
  \A c \in Clients : broken[c] ~> [](\A ch \in Channels : c \notin chans[ch])

\* cmdPublish and cleanup (pubsub.go:100, main.go:220) come to their end, with nothing
\* assumed of the peers.
LiveWithoutPeers == PublishEnds /\ BrokenLeaves
=============================================================================
