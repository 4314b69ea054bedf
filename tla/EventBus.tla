------------------------------- MODULE EventBus -------------------------------
(***************************************************************************)
(* The event "file uploaded" of CH-Api-Drive, from the commit of a direct  *)
(* upload in handlers/files.rs over services/event_publisher_mqtt.rs to    *)
(* the MQTT broker.                                                        *)
(*                                                                         *)
(* Publishing only puts the event into the bounded channel of the MQTT     *)
(* client; a task of its own, the loop, connects, sends, and tries again   *)
(* a second after each error.  Between the end of the last await of an     *)
(* upload and its answer there is none, so publishing and answering are    *)
(* one step.                                                               *)
(*                                                                         *)
(* Channel, event loop and broker are rumqttc and a service; they are      *)
(* modelled from what this code uses of them.  In particular the client    *)
(* may keep or forget, when it connects again, what it had not delivered.  *)
(*                                                                         *)
(* Everything an upload does before its commit is in DriveTree.            *)
(***************************************************************************)
EXTENDS Integers, Sequences, SequencesExt

CONSTANTS
    Uploads,      \* direct uploads that get as far as their commit
    Images,       \* those that are classified as images
    Capacity,     \* CLIENT_CHANNEL_CAPACITY
    MaxBreaks     \* bound: how often the connection breaks

ASSUME UploadsAssumption == Images \subseteq Uploads
ASSUME CapacityAssumption == Capacity \in Nat \ {0}
ASSUME BreaksAssumption == MaxBreaks \in Nat

(***************************************************************************)
(* STATE                                                                   *)
(***************************************************************************)
VARIABLES
    pc,          \* [Uploads -> Labels]
    committed,   \* uploads whose node is in the database
    topic_ok,    \* topic_template has both placeholders
    channel,     \* requests between the handlers and the loop
    loop,        \* what the loop awaits
    pending,     \* what the loop kept of an earlier connection
    inflight,    \* written to the connection and not acknowledged
    received,    \* how many of inflight, from its head, the broker has received
    delivered,   \* [Uploads -> Nat], how often the broker received an event
    lost,        \* uploads whose event the client or a crash forgot
    breaks

handlerVars == <<pc, committed, topic_ok>>
clientVars == <<channel, loop, pending, inflight, received>>
brokerVars == <<delivered, lost, breaks>>
vars == <<handlerVars, clientVars, brokerVars>>

\* "answered": 201.  "cut": the connection of the client closed, or the process died.
Labels == {"idle", "commit", "thumbnail", "answered", "cut"}
LoopStates == {"connecting", "connected", "sleeping"}

Init ==
    /\ pc = [u \in Uploads |-> "idle"]
    /\ committed = {}
    /\ topic_ok \in BOOLEAN
    /\ channel = <<>>
    /\ loop = "connecting"
    /\ pending = <<>>
    /\ inflight = <<>>
    /\ received = 0
    /\ delivered = [u \in Uploads |-> 0]
    /\ lost = {}
    /\ breaks = 0

Goto(u, label) == pc' = [pc EXCEPT ![u] = label]

(***************************************************************************)
(* THE UPLOAD                                                              *)
(***************************************************************************)
\* The upload awaits its commit.
Arrive(u) ==
    /\ pc[u] = "idle"
    /\ Goto(u, "commit")
    /\ UNCHANGED <<committed, topic_ok, clientVars, brokerVars>>

\* Mutant: publish instead of try_publish, which waits for room.
try_publish_waiting(u) == Len(channel) < Capacity /\ channel' = Append(channel, u)

\* A full channel refuses the event at once.
try_publish(u) == channel' = IF Len(channel) < Capacity THEN Append(channel, u) ELSE channel

\* resolve_topic; its error and that of try_publish are logged and no more.
publish_file_uploaded(u) == IF topic_ok THEN try_publish(u) ELSE UNCHANGED channel

PublishAndAnswer(u) ==
    /\ publish_file_uploaded(u)
    /\ Goto(u, "answered")

\* Mutant: the event of an image goes out before its thumbnail, and after it.
Commit_published_twice(u) ==
    /\ pc[u] = "commit"
    /\ committed' = committed \cup {u}
    /\ publish_file_uploaded(u)
    /\ Goto(u, IF u \in Images THEN "thumbnail" ELSE "answered")
    /\ UNCHANGED <<topic_ok, loop, pending, inflight, received, brokerVars>>

\* The commit returns.
Commit(u) ==
    /\ pc[u] = "commit"
    /\ committed' = committed \cup {u}
    /\ IF u \in Images THEN Goto(u, "thumbnail") /\ UNCHANGED channel ELSE PublishAndAnswer(u)
    /\ UNCHANGED <<topic_ok, loop, pending, inflight, received, brokerVars>>

\* Mutant: the event goes out in the error branch too.
CommitFails_published(u) ==
    /\ pc[u] = "commit"
    /\ PublishAndAnswer(u)
    /\ UNCHANGED <<committed, topic_ok, loop, pending, inflight, received, brokerVars>>

\* An error comes back, and the upload answers it.  When it was the answer of the
\* database that got lost, the node is there all the same.
CommitFails(u) ==
    /\ pc[u] = "commit"
    /\ committed' \in {committed, committed \cup {u}}
    /\ Goto(u, "answered")
    /\ UNCHANGED <<topic_ok, clientVars, brokerVars>>

\* generate_thumbnail ends, with or without a thumbnail.
ThumbnailEnds(u) ==
    /\ pc[u] = "thumbnail"
    /\ PublishAndAnswer(u)
    /\ UNCHANGED <<committed, topic_ok, loop, pending, inflight, received, brokerVars>>

\* The client disconnects.  A commit that was sent may have taken place.
Drop(u) ==
    /\ pc[u] \in {"commit", "thumbnail"}
    /\ \/ pc[u] = "commit" /\ committed' = committed \cup {u}
       \/ UNCHANGED committed
    /\ Goto(u, "cut")
    /\ UNCHANGED <<topic_ok, clientVars, brokerVars>>

(***************************************************************************)
(* THE LOOP, THE CLIENT AND THE BROKER                                     *)
(***************************************************************************)
Unsent == ToSet(channel) \cup ToSet(pending) \cup ToSet(inflight)

\* poll connects.  What is pending stays so, or is forgotten with the old session.
Connect ==
    /\ loop = "connecting"
    /\ loop' = "connected"
    /\ \/ UNCHANGED <<pending, lost>>
       \/ pending' = <<>> /\ lost' = lost \cup ToSet(pending)
    /\ UNCHANGED <<handlerVars, channel, inflight, received, delivered, breaks>>

ConnectFails ==
    /\ loop = "connecting"
    /\ loop' = "sleeping"
    /\ UNCHANGED <<handlerVars, channel, pending, inflight, received, brokerVars>>

\* Mutant: the loop ends with the first error.
Wake_ended == loop = "sleeping" /\ UNCHANGED vars

\* After an error the loop sleeps for a second, and polls again.
Wake ==
    /\ loop = "sleeping"
    /\ loop' = "connecting"
    /\ UNCHANGED <<handlerVars, channel, pending, inflight, received, brokerVars>>

\* poll writes one request, the pending ones first.
Send ==
    /\ loop = "connected"
    /\ \/ /\ pending # <<>>
          /\ inflight' = Append(inflight, Head(pending))
          /\ pending' = Tail(pending)
          /\ UNCHANGED channel
       \/ /\ pending = <<>> /\ channel # <<>>
          /\ inflight' = Append(inflight, Head(channel))
          /\ channel' = Tail(channel)
          /\ UNCHANGED pending
    /\ UNCHANGED <<handlerVars, loop, received, brokerVars>>

\* The broker receives what was written, in order.
Deliver ==
    /\ received < Len(inflight)
    /\ received' = received + 1
    /\ delivered' = [delivered EXCEPT ![inflight[received + 1]] = @ + 1]
    /\ UNCHANGED <<handlerVars, channel, loop, pending, inflight, lost, breaks>>

\* QoS 1: poll reads an acknowledgement.
Acknowledge ==
    /\ received > 0
    /\ received' = received - 1
    /\ inflight' = Tail(inflight)
    /\ UNCHANGED <<handlerVars, channel, loop, pending, brokerVars>>

\* poll returns an error: the client keeps what was not acknowledged, and empties
\* the channel behind it.
Break ==
    /\ loop = "connected"
    /\ breaks < MaxBreaks
    /\ breaks' = breaks + 1
    /\ loop' = "sleeping"
    /\ pending' = pending \o inflight \o channel
    /\ channel' = <<>>
    /\ inflight' = <<>>
    /\ received' = 0
    /\ UNCHANGED <<handlerVars, delivered, lost>>

\* The process dies and restarts: nothing of the events is on disk, and the
\* environment is read again.
Crash ==
    /\ pc' = [u \in Uploads |-> IF pc[u] \in {"commit", "thumbnail"} THEN "cut" ELSE pc[u]]
    /\ channel' = <<>>
    /\ loop' = "connecting"
    /\ pending' = <<>>
    /\ inflight' = <<>>
    /\ received' = 0
    /\ lost' = lost \cup Unsent
    /\ topic_ok' \in BOOLEAN
    /\ UNCHANGED <<committed, delivered, breaks>>

(***************************************************************************)
(* SPECIFICATION                                                           *)
(***************************************************************************)
HandlerStep(u) == Commit(u) \/ CommitFails(u) \/ ThumbnailEnds(u)

Next ==
    \/ \E u \in Uploads : Arrive(u) \/ HandlerStep(u) \/ Drop(u)
    \/ Connect \/ ConnectFails \/ Wake \/ Send \/ Deliver \/ Acknowledge \/ Break
    \/ Crash

Spec == Init /\ [][Next]_vars

\* The runtime keeps polling an upload.  Nothing is assumed of the broker.
HandlerFairness == \A u \in Uploads : WF_vars(HandlerStep(u))

FairSpec == Spec /\ HandlerFairness

\* A broker that can be reached again and again, and a loop that is polled.
BusFairness ==
    SF_vars(Connect) /\ WF_vars(Wake) /\ WF_vars(Send) /\ WF_vars(Deliver)

(***************************************************************************)
(* PROPERTIES                                                              *)
(***************************************************************************)
\* Type invariant; the channel stays within its capacity.
TypeOK ==
    /\ pc \in [Uploads -> Labels]
    /\ committed \subseteq Uploads
    /\ topic_ok \in BOOLEAN
    /\ channel \in Seq(Uploads) /\ Len(channel) <= Capacity
    /\ loop \in LoopStates
    /\ pending \in Seq(Uploads)
    /\ inflight \in Seq(Uploads)
    /\ received \in 0 .. Len(inflight)
    /\ delivered \in [Uploads -> Nat]
    /\ lost \subseteq Uploads
    /\ breaks \in 0 .. MaxBreaks

\* Whoever hears of a file finds it: no event is on its way or at the broker for
\* an upload that was not committed, failed and dropped uploads included.
EventMeansFile ==
    Unsent \cup {u \in Uploads : delivered[u] > 0} \subseteq committed

\* An upload is announced once; only a connection that broke before the
\* acknowledgement repeats an event, once for each break (QoS 1).
OneEventPerUpload == \A u \in Uploads : delivered[u] <= 1 + breaks

\* An upload is answered whatever becomes of its event: with a full channel and
\* a broker that is never reached as well (try_publish).
UploadsAreAnswered == \A u \in Uploads : pc[u] # "idle" ~> pc[u] \in {"answered", "cut"}

\* What was put into the channel goes out as soon as the broker can be reached, or
\* is lost with a session of the client: no error makes the loop give up.
EventsGoOut ==
    BusFairness => \A u \in Uploads : u \in Unsent ~> (delivered[u] > 0 \/ u \in lost)

=============================================================================
