---------------------------- MODULE EventBusProofs ----------------------------
(***************************************************************************)
(* Proofs about EventBus, for any number of uploads, any capacity and any  *)
(* number of broken connections.                                           *)
(***************************************************************************)
EXTENDS EventBus, SequenceTheorems, TLAPS

(***************************************************************************)
(* SEQUENCES OF EVENTS: which events they hold, and that each is in them   *)
(* once.                                                                   *)
(***************************************************************************)
\* The elements of a sequence by their index, for the provers.
LEMMA Indexed ==
    ASSUME NEW S, NEW s \in Seq(S)
    PROVE  /\ Len(s) \in Nat /\ DOMAIN s = 1 .. Len(s)
           /\ ToSet(s) = {s[i] : i \in 1 .. Len(s)} /\ ToSet(s) \subseteq S
           /\ IsInjective(s) <=> \A i, j \in 1 .. Len(s) : s[i] = s[j] => i = j
BY LenProperties, ElementOfSeq DEF ToSet, IsInjective

\* Putting an event at the end.
LEMMA AppendEvent ==
    ASSUME NEW S, NEW s \in Seq(S), NEW u \in S
    PROVE  /\ Append(s, u) \in Seq(S) /\ Len(Append(s, u)) = Len(s) + 1
           /\ ToSet(Append(s, u)) = ToSet(s) \cup {u}
           /\ IsInjective(s) /\ u \notin ToSet(s) => IsInjective(Append(s, u))
<1> DEFINE t == Append(s, u)
           n == Len(s)
<1>1. /\ t \in Seq(S) /\ Len(t) = n + 1 /\ n \in Nat
      /\ \A i \in 1 .. n : t[i] = s[i]
      /\ t[n + 1] = u
  BY AppendProperties, LenProperties
<1>2. /\ ToSet(s) = {s[i] : i \in 1 .. n}
      /\ IsInjective(s) <=> \A i, j \in 1 .. n : s[i] = s[j] => i = j
  BY Indexed
<1>3. /\ ToSet(t) = {t[i] : i \in 1 .. n + 1}
      /\ IsInjective(t) <=> \A i, j \in 1 .. n + 1 : t[i] = t[j] => i = j
  BY <1>1, Indexed
<1> HIDE DEF t, n
<1>4. ToSet(t) = ToSet(s) \cup {u}
  BY <1>1, <1>2, <1>3
<1>5. ASSUME IsInjective(s), u \notin ToSet(s)
      PROVE  IsInjective(t)
  BY <1>1, <1>2, <1>3, <1>5
<1>6. QED
  BY <1>1, <1>4, <1>5 DEF t, n

\* Taking an event from the head.
LEMMA TakeEvent ==
    ASSUME NEW S, NEW s \in Seq(S), s # <<>>
    PROVE  /\ Tail(s) \in Seq(S) /\ Len(Tail(s)) = Len(s) - 1 /\ Len(s) \in Nat \ {0}
           /\ Head(s) \in S /\ Head(s) = s[1]
           /\ \A i \in 1 .. Len(s) - 1 : Tail(s)[i] = s[i + 1]
           /\ Head(s) \in ToSet(s) /\ ToSet(Tail(s)) \subseteq ToSet(s)
           /\ IsInjective(s) => IsInjective(Tail(s)) /\ Head(s) \notin ToSet(Tail(s))
<1> DEFINE t == Tail(s)
           n == Len(s)
           u == Head(s)
<1>1. /\ t \in Seq(S) /\ Len(t) = n - 1 /\ u \in S
      /\ \A i \in 1 .. n - 1 : t[i] = s[i + 1]
      /\ u = s[1] /\ n \in Nat \ {0}
  BY HeadTailProperties, EmptySeq, LenProperties
<1>2. /\ ToSet(s) = {s[i] : i \in 1 .. n}
      /\ IsInjective(s) <=> \A i, j \in 1 .. n : s[i] = s[j] => i = j
  BY Indexed
<1>3. /\ ToSet(t) = {t[i] : i \in 1 .. n - 1}
      /\ IsInjective(t) <=> \A i, j \in 1 .. n - 1 : t[i] = t[j] => i = j
  <2>1. t \in Seq(S) /\ Len(t) = n - 1
    BY <1>1
  <2>2. /\ ToSet(t) = {t[i] : i \in 1 .. Len(t)}
        /\ IsInjective(t) <=> \A i, j \in 1 .. Len(t) : t[i] = t[j] => i = j
    BY <2>1, Indexed
  <2> HIDE DEF t, n
  <2>3. QED
    BY <2>1, <2>2
<1> HIDE DEF t, n, u
<1>4. u \in ToSet(s) /\ ToSet(t) \subseteq ToSet(s)
  BY <1>1, <1>2, <1>3
<1>5. ASSUME IsInjective(s)
      PROVE  IsInjective(t) /\ u \notin ToSet(t)
  <2>1. \A i \in 1 .. n - 1 : i + 1 \in 1 .. n /\ i + 1 # 1 /\ t[i] = s[i + 1]
    BY <1>1
  <2>2. IsInjective(t)
    BY <1>1, <1>2, <1>3, <1>5, <2>1
  <2>3. \A i \in 1 .. n - 1 : t[i] # u
    BY <1>1, <1>2, <1>5, <2>1
  <2>4. QED
    BY <1>3, <2>2, <2>3
<1>6. QED
  BY <1>1, <1>4, <1>5 DEF t, n, u

\* Putting one sequence behind another.
LEMMA JoinEvents ==
    ASSUME NEW S, NEW s \in Seq(S), NEW t \in Seq(S)
    PROVE  /\ s \o t \in Seq(S)
           /\ ToSet(s \o t) = ToSet(s) \cup ToSet(t)
           /\ IsInjective(s) /\ IsInjective(t) /\ ToSet(s) \cap ToSet(t) = {}
              => IsInjective(s \o t)
<1> DEFINE c == s \o t
           m == Len(s)
           n == Len(t)
<1>1. /\ c \in Seq(S) /\ Len(c) = m + n /\ m \in Nat /\ n \in Nat
      /\ \A i \in 1 .. m + n : c[i] = IF i <= m THEN s[i] ELSE t[i - m]
  BY ConcatProperties, LenProperties
<1>2. /\ ToSet(s) = {s[i] : i \in 1 .. m}
      /\ IsInjective(s) <=> \A i, j \in 1 .. m : s[i] = s[j] => i = j
  BY Indexed
<1>3. /\ ToSet(t) = {t[i] : i \in 1 .. n}
      /\ IsInjective(t) <=> \A i, j \in 1 .. n : t[i] = t[j] => i = j
  BY Indexed
<1>4. /\ ToSet(c) = {c[i] : i \in 1 .. m + n}
      /\ IsInjective(c) <=> \A i, j \in 1 .. m + n : c[i] = c[j] => i = j
  BY <1>1, Indexed
<1> HIDE DEF c, m, n
<1>5. \A i \in 1 .. m : i \in 1 .. m + n /\ c[i] = s[i]
  BY <1>1
<1>6. \A j \in 1 .. n : m + j \in 1 .. m + n /\ c[m + j] = t[j]
  BY <1>1
<1>7. \A i \in 1 .. m + n : i > m => i - m \in 1 .. n /\ c[i] = t[i - m]
  BY <1>1
<1>8. ToSet(c) = ToSet(s) \cup ToSet(t)
  <2>1. ToSet(c) \subseteq ToSet(s) \cup ToSet(t)
    BY <1>1, <1>2, <1>3, <1>4, <1>7
  <2>2. ToSet(s) \subseteq ToSet(c)
    BY <1>2, <1>4, <1>5
  <2>3. ToSet(t) \subseteq ToSet(c)
    BY <1>3, <1>4, <1>6
  <2>4. QED
    BY <2>1, <2>2, <2>3
<1>9. ASSUME IsInjective(s), IsInjective(t), ToSet(s) \cap ToSet(t) = {}
      PROVE  IsInjective(c)
  <2>1. SUFFICES ASSUME NEW i \in 1 .. m + n, NEW j \in 1 .. m + n, c[i] = c[j]
                 PROVE  i = j
    BY <1>4
  <2>2. CASE i <= m /\ j <= m
    BY <1>1, <1>2, <1>9, <2>1, <2>2
  <2>3. CASE i > m /\ j > m
    <3>1. i - m \in 1 .. n /\ j - m \in 1 .. n /\ t[i - m] = t[j - m]
      BY <1>7, <2>1, <2>3
    <3>2. i - m = j - m
      BY <1>3, <1>9, <3>1
    <3>3. QED
      BY <1>1, <3>2
  <2>4. ASSUME NEW a \in 1 .. m + n, NEW b \in 1 .. m + n, a <= m, b > m
        PROVE  c[a] # c[b]
    <3>1. c[a] \in ToSet(s)
      BY <1>1, <1>2, <2>4
    <3>2. c[b] \in ToSet(t)
      BY <1>3, <1>7, <2>4
    <3>3. QED
      BY <1>9, <3>1, <3>2
  <2>5. QED
    BY <1>1, <2>1, <2>2, <2>3, <2>4
<1>10. QED
  BY <1>1, <1>8, <1>9 DEF c

\* The empty sequence.
LEMMA NoEvents ==
    /\ ToSet(<<>>) = {} /\ IsInjective(<<>>) /\ Len(<<>>) = 0
    /\ \A S : <<>> \in Seq(S)
BY DEF ToSet, IsInjective

(***************************************************************************)
(* TYPES                                                                   *)
(***************************************************************************)
LEMMA TypingInit == Init => TypeOK
BY NoEvents, CapacityAssumption, BreaksAssumption DEF Init, TypeOK, Labels, LoopStates

\* Publishing keeps the channel within its capacity.
LEMMA PublishTypes ==
    ASSUME TypeOK, NEW u \in Uploads, publish_file_uploaded(u)
    PROVE  channel' \in Seq(Uploads) /\ Len(channel') <= Capacity
<1>1. channel \in Seq(Uploads) /\ Len(channel) <= Capacity /\ Len(channel) \in Nat
  BY LenProperties DEF TypeOK
<1>2. CASE channel' = Append(channel, u) /\ Len(channel) < Capacity
  BY <1>1, <1>2, AppendEvent, CapacityAssumption
<1>3. CASE channel' = channel
  BY <1>1, <1>3
<1>4. QED
  BY <1>2, <1>3 DEF publish_file_uploaded, try_publish

LEMMA TypingStep == TypeOK /\ [Next]_vars => TypeOK'
<1> SUFFICES ASSUME TypeOK, [Next]_vars PROVE TypeOK'
  OBVIOUS
<1> USE DEF TypeOK, Labels, LoopStates, Goto
<1>0. /\ Len(channel) \in Nat /\ Len(inflight) \in Nat /\ Len(pending) \in Nat
      /\ received \in Nat
  BY LenProperties
<1>1. ASSUME NEW u \in Uploads, Arrive(u) PROVE TypeOK'
  BY <1>1 DEF Arrive, clientVars, brokerVars
<1>2. ASSUME NEW u \in Uploads, Commit(u) PROVE TypeOK'
  <2>1. CASE u \in Images
    BY <1>2, <2>1 DEF Commit, brokerVars
  <2>2. CASE u \notin Images
    BY <1>2, <2>2, PublishTypes DEF Commit, PublishAndAnswer, brokerVars
  <2>3. QED
    BY <2>1, <2>2
<1>3. ASSUME NEW u \in Uploads, CommitFails(u) PROVE TypeOK'
  BY <1>3 DEF CommitFails, clientVars, brokerVars
<1>4. ASSUME NEW u \in Uploads, ThumbnailEnds(u) PROVE TypeOK'
  BY <1>4, PublishTypes DEF ThumbnailEnds, PublishAndAnswer, brokerVars
<1>5. ASSUME NEW u \in Uploads, Drop(u) PROVE TypeOK'
  BY <1>5 DEF Drop, clientVars, brokerVars
<1>6. CASE Connect
  <2>1. ToSet(pending) \subseteq Uploads /\ <<>> \in Seq(Uploads)
    BY Indexed, NoEvents
  <2>2. QED
    BY <1>6, <2>1 DEF Connect, handlerVars
<1>7. CASE ConnectFails
  BY <1>7 DEF ConnectFails, handlerVars, brokerVars
<1>8. CASE Wake
  BY <1>8 DEF Wake, handlerVars, brokerVars
<1>9. CASE Send
  <2>1. CASE pending # <<>> /\ inflight' = Append(inflight, Head(pending))
             /\ pending' = Tail(pending) /\ UNCHANGED channel
    <3>1. Head(pending) \in Uploads /\ Tail(pending) \in Seq(Uploads)
      BY <2>1, TakeEvent
    <3>2. inflight' \in Seq(Uploads) /\ Len(inflight') = Len(inflight) + 1
      BY <2>1, <3>1, AppendEvent
    <3>3. QED
      BY <1>0, <1>9, <2>1, <3>1, <3>2 DEF Send, handlerVars, brokerVars
  <2>2. CASE pending = <<>> /\ channel # <<>> /\ inflight' = Append(inflight, Head(channel))
             /\ channel' = Tail(channel) /\ UNCHANGED pending
    <3>1. /\ Head(channel) \in Uploads /\ Tail(channel) \in Seq(Uploads)
          /\ Len(Tail(channel)) = Len(channel) - 1
      BY <2>2, TakeEvent
    <3>2. inflight' \in Seq(Uploads) /\ Len(inflight') = Len(inflight) + 1
      BY <2>2, <3>1, AppendEvent
    <3>3. QED
      BY <1>0, <1>9, <2>2, <3>1, <3>2, CapacityAssumption DEF Send, handlerVars, brokerVars
  <2>3. QED
    BY <1>9, <2>1, <2>2 DEF Send
<1>10. CASE Deliver
  <2>1. received + 1 \in 1 .. Len(inflight) /\ inflight[received + 1] \in Uploads
    BY <1>0, <1>10, ElementOfSeq DEF Deliver
  <2>2. QED
    BY <1>0, <1>10, <2>1 DEF Deliver, handlerVars
<1>11. CASE Acknowledge
  <2>1. inflight # <<>>
    BY <1>0, <1>11, NoEvents DEF Acknowledge
  <2>2. Tail(inflight) \in Seq(Uploads) /\ Len(Tail(inflight)) = Len(inflight) - 1
    BY <2>1, TakeEvent
  <2>3. QED
    BY <1>0, <1>11, <2>2 DEF Acknowledge, handlerVars, brokerVars
<1>12. CASE Break
  <2>1. pending \o inflight \in Seq(Uploads)
    BY JoinEvents
  <2>2. pending \o inflight \o channel \in Seq(Uploads)
    BY <2>1, JoinEvents
  <2>3. QED
    BY <1>12, <2>2, NoEvents, CapacityAssumption, BreaksAssumption DEF Break, handlerVars
<1>13. CASE Crash
  <2>1. Unsent \subseteq Uploads
    BY Indexed DEF Unsent
  <2>2. QED
    BY <1>13, <2>1, NoEvents, CapacityAssumption DEF Crash
<1>14. CASE UNCHANGED vars
  BY <1>14 DEF vars, handlerVars, clientVars, brokerVars
<1>15. QED
  BY <1>1, <1>2, <1>3, <1>4, <1>5, <1>6, <1>7, <1>8, <1>9, <1>10, <1>11, <1>12, <1>13, <1>14
  DEF Next, HandlerStep

\* The type invariant: whatever happens to the connection and to the process, the
\* channel stays within CLIENT_CHANNEL_CAPACITY and the broker is never ahead of
\* what was written to it.
THEOREM Typing == Spec => []TypeOK
BY TypingInit, TypingStep, PTL DEF Spec

(***************************************************************************)
(* AN EVENT MEANS A FILE                                                   *)
(***************************************************************************)
\* An upload that is making its thumbnail is committed.
PastCommit == \A u \in Uploads : pc[u] = "thumbnail" => u \in committed

EventInv == PastCommit /\ EventMeansFile

LEMMA EventInit == Init => EventInv
BY NoEvents DEF Init, EventInv, PastCommit, EventMeansFile, Unsent

\* Publishing adds the event of that upload to the channel, and no other.
LEMMA PublishAdds ==
    ASSUME TypeOK, NEW u \in Uploads, publish_file_uploaded(u)
    PROVE  \/ channel' = channel
           \/ channel' = Append(channel, u) /\ ToSet(channel') = ToSet(channel) \cup {u}
<1>1. channel \in Seq(Uploads)
  BY DEF TypeOK
<1>2. ToSet(Append(channel, u)) = ToSet(channel) \cup {u}
  BY <1>1, AppendEvent
<1>3. QED
  BY <1>2 DEF publish_file_uploaded, try_publish

LEMMA EventStep == TypeOK /\ EventInv /\ [Next]_vars => EventInv'
<1> SUFFICES ASSUME TypeOK, EventInv, [Next]_vars PROVE EventInv'
  OBVIOUS
<1> USE DEF EventInv, PastCommit, EventMeansFile, Unsent, Goto
<1>0. /\ pc \in [Uploads -> Labels] /\ delivered \in [Uploads -> Nat]
      /\ channel \in Seq(Uploads) /\ pending \in Seq(Uploads) /\ inflight \in Seq(Uploads)
  BY DEF TypeOK
<1>1. ASSUME NEW u \in Uploads, Arrive(u) PROVE EventInv'
  BY <1>0, <1>1 DEF Arrive, clientVars, brokerVars
<1>2. ASSUME NEW u \in Uploads, Commit(u) PROVE EventInv'
  <2>1. ToSet(channel') \subseteq ToSet(channel) \cup {u}
    BY <1>2, PublishAdds DEF Commit, PublishAndAnswer
  <2>2. QED
    BY <1>0, <1>2, <2>1 DEF Commit, PublishAndAnswer, brokerVars
<1>3. ASSUME NEW u \in Uploads, CommitFails(u) PROVE EventInv'
  BY <1>0, <1>3 DEF CommitFails, clientVars, brokerVars
<1>4. ASSUME NEW u \in Uploads, ThumbnailEnds(u) PROVE EventInv'
  <2>1. ToSet(channel') \subseteq ToSet(channel) \cup {u} /\ u \in committed
    BY <1>4, PublishAdds DEF ThumbnailEnds, PublishAndAnswer
  <2>2. QED
    BY <1>0, <1>4, <2>1 DEF ThumbnailEnds, PublishAndAnswer, brokerVars
<1>5. ASSUME NEW u \in Uploads, Drop(u) PROVE EventInv'
  BY <1>0, <1>5 DEF Drop, clientVars, brokerVars
<1>6. CASE Connect
  BY <1>0, <1>6, NoEvents DEF Connect, handlerVars
<1>7. CASE ConnectFails \/ Wake
  BY <1>7 DEF ConnectFails, Wake, handlerVars, brokerVars
<1>8. CASE Send
  <2>1. ASSUME NEW q \in Seq(Uploads), q # <<>>
        PROVE  /\ ToSet(Tail(q)) \subseteq ToSet(q)
               /\ ToSet(Append(inflight, Head(q))) \subseteq ToSet(inflight) \cup ToSet(q)
    <3>1. Head(q) \in Uploads /\ Head(q) \in ToSet(q) /\ ToSet(Tail(q)) \subseteq ToSet(q)
      BY <2>1, TakeEvent
    <3>2. ToSet(Append(inflight, Head(q))) = ToSet(inflight) \cup {Head(q)}
      BY <1>0, <3>1, AppendEvent
    <3>3. QED
      BY <3>1, <3>2
  <2>2. Unsent' \subseteq Unsent
    BY <1>0, <1>8, <2>1 DEF Send
  <2>3. UNCHANGED <<pc, committed, delivered>>
    BY <1>8 DEF Send, handlerVars, brokerVars
  <2>4. QED
    BY <2>2, <2>3
<1>9. CASE Deliver
  <2>1. inflight[received + 1] \in ToSet(inflight)
    <3>1. received + 1 \in 1 .. Len(inflight)
      BY <1>0, <1>9, LenProperties DEF Deliver, TypeOK
    <3>2. QED
      BY <1>0, <3>1, Indexed
  <2>2. QED
    BY <1>0, <1>9, <2>1 DEF Deliver, handlerVars
<1>10. CASE Acknowledge
  <2>1. inflight # <<>>
    BY <1>0, <1>10, NoEvents DEF Acknowledge, TypeOK
  <2>2. ToSet(Tail(inflight)) \subseteq ToSet(inflight)
    BY <1>0, <2>1, TakeEvent
  <2>3. QED
    BY <1>10, <2>2 DEF Acknowledge, handlerVars, brokerVars
<1>11. CASE Break
  <2> DEFINE kept == pending \o inflight
  <2>1. kept \in Seq(Uploads) /\ ToSet(kept) = ToSet(pending) \cup ToSet(inflight)
    BY <1>0, JoinEvents
  <2>2. pending' = kept \o channel
    BY <1>11 DEF Break
  <2> HIDE DEF kept
  <2>3. ToSet(kept \o channel) = ToSet(kept) \cup ToSet(channel)
    BY <1>0, <2>1, JoinEvents
  <2>4. Unsent' = Unsent
    BY <1>11, <2>1, <2>2, <2>3, NoEvents DEF Break
  <2>5. QED
    BY <1>11, <2>4 DEF Break, handlerVars
<1>12. CASE Crash
  <2>1. Unsent' = {}
    BY <1>12, NoEvents DEF Crash
  <2>2. \A u \in Uploads : pc'[u] # "thumbnail"
    BY <1>0, <1>12 DEF Crash
  <2>3. QED
    BY <1>12, <2>1, <2>2 DEF Crash
<1>13. CASE UNCHANGED vars
  BY <1>13 DEF vars, handlerVars, clientVars, brokerVars
<1>14. QED
  BY <1>1, <1>2, <1>3, <1>4, <1>5, <1>6, <1>7, <1>8, <1>9, <1>10, <1>11, <1>12, <1>13
  DEF Next, HandlerStep

\* Whoever hears of a file finds it: only committed uploads are announced, with
\* any number of uploads that fail, are dropped or die with the process.
THEOREM EventSafety == Spec => []EventMeansFile
<1>1. TypeOK /\ EventInv /\ [Next]_vars => (TypeOK /\ EventInv)'
  BY TypingStep, EventStep
<1>2. Spec => [](TypeOK /\ EventInv)
  BY <1>1, TypingInit, EventInit, PTL DEF Spec
<1>3. EventInv => EventMeansFile
  BY DEF EventInv
<1>4. QED
  BY <1>2, <1>3, PTL

(***************************************************************************)
(* ONE EVENT PER UPLOAD                                                    *)
(***************************************************************************)
\* An upload that has not been answered has no event.
NotYet == \A u \in Uploads :
             pc[u] \in {"idle", "commit", "thumbnail"} => u \notin Unsent /\ delivered[u] = 0

\* An event is in one place, once.
InOnePlace ==
    /\ IsInjective(channel) /\ IsInjective(pending) /\ IsInjective(inflight)
    /\ ToSet(channel) \cap ToSet(pending) = {}
    /\ ToSet(channel) \cap ToSet(inflight) = {}
    /\ ToSet(pending) \cap ToSet(inflight) = {}

\* What the broker has yet to receive, it received at most once per break.
Behind ==
    /\ \A u \in ToSet(channel) \cup ToSet(pending) : delivered[u] <= breaks
    /\ \A i \in 1 .. Len(inflight) : i > received => delivered[inflight[i]] <= breaks

OnceInv == NotYet /\ InOnePlace /\ Behind /\ OneEventPerUpload

LEMMA OnceInit == Init => OnceInv
BY NoEvents DEF Init, OnceInv, NotYet, InOnePlace, Behind, OneEventPerUpload, Unsent

\* An upload that publishes and answers at once.
LEMMA PublishOnce ==
    ASSUME TypeOK, OnceInv, NEW u \in Uploads, pc[u] \in {"commit", "thumbnail"},
           PublishAndAnswer(u), UNCHANGED <<pending, inflight, received, delivered, breaks>>
    PROVE  OnceInv'
<1> USE DEF OnceInv
<1>0. /\ pc \in [Uploads -> Labels] /\ channel \in Seq(Uploads) /\ breaks \in Nat
      /\ delivered \in [Uploads -> Nat]
  BY BreaksAssumption DEF TypeOK
<1>1. u \notin Unsent /\ delivered[u] = 0
  BY DEF NotYet
<1>2. IsInjective(channel') /\ ToSet(channel') \subseteq ToSet(channel) \cup {u}
  <2>1. IsInjective(Append(channel, u)) /\ ToSet(Append(channel, u)) = ToSet(channel) \cup {u}
    BY <1>0, <1>1, AppendEvent DEF InOnePlace, Unsent
  <2>2. QED
    BY <2>1, PublishAdds DEF PublishAndAnswer, InOnePlace
<1>3. NotYet'
  BY <1>0, <1>2 DEF NotYet, Unsent, PublishAndAnswer, Goto
<1>4. InOnePlace'
  BY <1>1, <1>2 DEF InOnePlace, Unsent
<1>5. Behind'
  BY <1>0, <1>1, <1>2 DEF Behind
<1>6. OneEventPerUpload'
  BY DEF OneEventPerUpload
<1>7. QED
  BY <1>3, <1>4, <1>5, <1>6

LEMMA OnceStep == TypeOK /\ OnceInv /\ [Next]_vars => OnceInv'
<1> SUFFICES ASSUME TypeOK, OnceInv, [Next]_vars PROVE OnceInv'
  OBVIOUS
<1> USE DEF OnceInv
<1>0. /\ pc \in [Uploads -> Labels] /\ delivered \in [Uploads -> Nat]
      /\ channel \in Seq(Uploads) /\ pending \in Seq(Uploads) /\ inflight \in Seq(Uploads)
      /\ Len(inflight) \in Nat /\ received \in 0 .. Len(inflight) /\ breaks \in Nat
  BY LenProperties, BreaksAssumption DEF TypeOK
<1>a. ASSUME NEW u \in Uploads, Goto(u, "cut") \/ Goto(u, "answered") \/ Goto(u, "commit")
                                \/ Goto(u, "thumbnail"),
             pc[u] \in {"idle", "commit", "thumbnail"}, UNCHANGED <<clientVars, brokerVars>>
      PROVE  OnceInv'
  <2>1. NotYet'
    BY <1>0, <1>a DEF NotYet, Unsent, Goto, clientVars, brokerVars
  <2>2. (InOnePlace /\ Behind /\ OneEventPerUpload)'
    BY <1>a DEF InOnePlace, Behind, OneEventPerUpload, clientVars, brokerVars
  <2>3. QED
    BY <2>1, <2>2
<1>1. ASSUME NEW u \in Uploads, Arrive(u) \/ CommitFails(u) \/ Drop(u) PROVE OnceInv'
  BY <1>1, <1>a DEF Arrive, CommitFails, Drop
<1>2. ASSUME NEW u \in Uploads, Commit(u) PROVE OnceInv'
  <2>1. CASE u \in Images
    BY <1>2, <1>a, <2>1 DEF Commit, clientVars, brokerVars
  <2>2. CASE u \notin Images
    BY <1>2, <2>2, PublishOnce DEF Commit, brokerVars
  <2>3. QED
    BY <2>1, <2>2
<1>3. ASSUME NEW u \in Uploads, ThumbnailEnds(u) PROVE OnceInv'
  BY <1>3, PublishOnce DEF ThumbnailEnds, brokerVars
<1>4. CASE Connect
  <2>1. /\ pending' \in {pending, <<>>}
        /\ UNCHANGED <<pc, channel, inflight, received, delivered, breaks>>
    BY <1>4 DEF Connect, handlerVars
  <2>2. QED
    BY <2>1, NoEvents DEF NotYet, InOnePlace, Behind, OneEventPerUpload, Unsent
<1>5. CASE ConnectFails \/ Wake
  BY <1>5 DEF ConnectFails, Wake, handlerVars, brokerVars, NotYet, InOnePlace, Behind,
              OneEventPerUpload, Unsent
<1>6. CASE Send
  <2>0. UNCHANGED <<pc, received, delivered, breaks>>
    BY <1>6 DEF Send, handlerVars, brokerVars
  <2>1. ASSUME NEW q \in Seq(Uploads), q # <<>>, IsInjective(q),
               ToSet(q) \cap ToSet(inflight) = {}, \A u \in ToSet(q) : delivered[u] <= breaks,
               inflight' = Append(inflight, Head(q))
        PROVE  /\ ToSet(Tail(q)) \subseteq ToSet(q) /\ IsInjective(Tail(q))
               /\ ToSet(Tail(q)) \cap ToSet(inflight') = {} /\ IsInjective(inflight')
               /\ ToSet(inflight') = ToSet(inflight) \cup {Head(q)} /\ Head(q) \in ToSet(q)
               /\ \A i \in 1 .. Len(inflight') : i > received => delivered[inflight'[i]] <= breaks
    <3>1. /\ Head(q) \in Uploads /\ Head(q) \in ToSet(q) /\ ToSet(Tail(q)) \subseteq ToSet(q)
          /\ IsInjective(Tail(q)) /\ Head(q) \notin ToSet(Tail(q))
      BY <2>1, TakeEvent
    <3>2. /\ ToSet(inflight') = ToSet(inflight) \cup {Head(q)} /\ IsInjective(inflight')
          /\ Len(inflight') = Len(inflight) + 1
      BY <1>0, <2>1, <3>1, AppendEvent DEF InOnePlace
    <3>3. /\ \A i \in 1 .. Len(inflight) : inflight'[i] = inflight[i]
          /\ inflight'[Len(inflight) + 1] = Head(q)
      BY <1>0, <2>1, <3>1, AppendProperties
    <3>4. \A i \in 1 .. Len(inflight') : i > received => delivered[inflight'[i]] <= breaks
      BY <1>0, <2>1, <3>1, <3>2, <3>3 DEF Behind
    <3>5. QED
      BY <2>1, <3>1, <3>2, <3>4
  <2>2. CASE pending # <<>> /\ inflight' = Append(inflight, Head(pending))
             /\ pending' = Tail(pending) /\ UNCHANGED channel
    <3>1. /\ ToSet(pending') \subseteq ToSet(pending) /\ IsInjective(pending')
          /\ ToSet(pending') \cap ToSet(inflight') = {} /\ IsInjective(inflight')
          /\ ToSet(inflight') = ToSet(inflight) \cup {Head(pending)}
          /\ Head(pending) \in ToSet(pending)
          /\ \A i \in 1 .. Len(inflight') : i > received => delivered[inflight'[i]] <= breaks
      BY <1>0, <2>1, <2>2 DEF InOnePlace, Behind
    <3>2. QED
      BY <2>0, <2>2, <3>1 DEF NotYet, InOnePlace, Behind, OneEventPerUpload, Unsent
  <2>3. CASE pending = <<>> /\ channel # <<>> /\ inflight' = Append(inflight, Head(channel))
             /\ channel' = Tail(channel) /\ UNCHANGED pending
    <3>1. /\ ToSet(channel') \subseteq ToSet(channel) /\ IsInjective(channel')
          /\ ToSet(channel') \cap ToSet(inflight') = {} /\ IsInjective(inflight')
          /\ ToSet(inflight') = ToSet(inflight) \cup {Head(channel)}
          /\ Head(channel) \in ToSet(channel)
          /\ \A i \in 1 .. Len(inflight') : i > received => delivered[inflight'[i]] <= breaks
      BY <1>0, <2>1, <2>3 DEF InOnePlace, Behind
    <3>2. QED
      BY <2>0, <2>3, <3>1 DEF NotYet, InOnePlace, Behind, OneEventPerUpload, Unsent
  <2>4. QED
    BY <1>6, <2>2, <2>3 DEF Send
<1>7. CASE Deliver
  <2> DEFINE u == inflight[received + 1]
  <2>1. received + 1 \in 1 .. Len(inflight) /\ u \in Uploads /\ u \in ToSet(inflight)
    <3>1. received + 1 \in 1 .. Len(inflight)
      BY <1>0, <1>7 DEF Deliver
    <3>2. QED
      BY <1>0, <3>1, Indexed
  <2>2. /\ delivered' = [delivered EXCEPT ![u] = @ + 1] /\ received' = received + 1
        /\ UNCHANGED <<pc, channel, pending, inflight, breaks>>
    BY <1>7 DEF Deliver, handlerVars
  <2>3. delivered[u] <= breaks
    BY <1>0, <2>1 DEF Behind
  <2>4. \A i \in 1 .. Len(inflight) : i > received + 1 => inflight[i] # u
    <3>1. \A i, j \in 1 .. Len(inflight) : inflight[i] = inflight[j] => i = j
      BY <1>0, Indexed DEF InOnePlace
    <3>2. QED
      BY <1>0, <2>1, <3>1
  <2>5. \A i \in 1 .. Len(inflight) : inflight[i] \in Uploads
    BY <1>0, ElementOfSeq
  <2> HIDE DEF u
  <2>6. NotYet'
    BY <1>0, <2>1, <2>2 DEF NotYet, Unsent
  <2>7. Behind'
    <3>1. u \notin ToSet(channel) \cup ToSet(pending)
      BY <2>1 DEF InOnePlace
    <3>2. ToSet(channel) \cup ToSet(pending) \subseteq Uploads
      BY <1>0, Indexed
    <3>3. QED
      BY <1>0, <2>1, <2>2, <2>4, <2>5, <3>1, <3>2 DEF Behind
  <2>8. InOnePlace' /\ OneEventPerUpload'
    BY <1>0, <2>1, <2>2, <2>3 DEF InOnePlace, OneEventPerUpload
  <2>9. QED
    BY <2>6, <2>7, <2>8
<1>8. CASE Acknowledge
  <2>1. inflight # <<>>
    BY <1>0, <1>8, NoEvents DEF Acknowledge
  <2>2. /\ IsInjective(Tail(inflight)) /\ ToSet(Tail(inflight)) \subseteq ToSet(inflight)
        /\ Len(Tail(inflight)) = Len(inflight) - 1
        /\ \A i \in 1 .. Len(inflight) - 1 : Tail(inflight)[i] = inflight[i + 1]
    BY <1>0, <2>1, TakeEvent DEF InOnePlace
  <2>3. /\ inflight' = Tail(inflight) /\ received' = received - 1 /\ received > 0
        /\ UNCHANGED <<pc, channel, pending, delivered, breaks>>
    BY <1>8 DEF Acknowledge, handlerVars, brokerVars
  <2>4. \A i \in 1 .. Len(inflight) - 1 : i > received - 1 => delivered[inflight[i + 1]] <= breaks
    BY <1>0 DEF Behind
  <2>5. Behind'
    BY <1>0, <2>2, <2>3, <2>4 DEF Behind
  <2>6. QED
    BY <2>2, <2>3, <2>5 DEF NotYet, InOnePlace, OneEventPerUpload, Unsent
<1>9. CASE Break
  <2> DEFINE kept == pending \o inflight
  <2>1. /\ kept \in Seq(Uploads) /\ ToSet(kept) = ToSet(pending) \cup ToSet(inflight)
        /\ IsInjective(kept)
    BY <1>0, JoinEvents DEF InOnePlace
  <2>2. /\ pending' = kept \o channel /\ channel' = <<>> /\ inflight' = <<>>
        /\ breaks' = breaks + 1 /\ UNCHANGED <<pc, delivered>>
    BY <1>9 DEF Break, handlerVars
  <2> HIDE DEF kept
  <2>3. /\ ToSet(pending') = ToSet(kept) \cup ToSet(channel) /\ IsInjective(pending')
    BY <1>0, <2>1, <2>2, JoinEvents DEF InOnePlace
  <2>4. ToSet(pending') \subseteq Uploads
    BY <1>0, <2>1, <2>3, Indexed
  <2>5. NotYet' /\ InOnePlace'
    BY <2>1, <2>2, <2>3, NoEvents DEF NotYet, InOnePlace, Unsent
  <2>6. Behind' /\ OneEventPerUpload'
    BY <1>0, <2>2, <2>4, NoEvents DEF Behind, OneEventPerUpload
  <2>7. QED
    BY <2>5, <2>6
<1>10. CASE Crash
  <2>1. \A u \in Uploads : pc'[u] \in {"idle", "commit", "thumbnail"} => pc[u] = "idle"
    BY <1>0, <1>10 DEF Crash
  <2>2. QED
    BY <1>10, <2>1, NoEvents DEF Crash, NotYet, InOnePlace, Behind, OneEventPerUpload, Unsent
<1>11. CASE UNCHANGED vars
  BY <1>11 DEF vars, handlerVars, clientVars, brokerVars, NotYet, InOnePlace, Behind,
               OneEventPerUpload, Unsent
<1>12. QED
  BY <1>1, <1>2, <1>3, <1>4, <1>5, <1>6, <1>7, <1>8, <1>9, <1>10, <1>11
  DEF Next, HandlerStep

\* An upload is announced once: the broker receives its event again only after a
\* connection that broke before the acknowledgement, once for each break.
THEOREM OnceSafety == Spec => []OneEventPerUpload
<1>1. TypeOK /\ OnceInv /\ [Next]_vars => (TypeOK /\ OnceInv)'
  BY TypingStep, OnceStep
<1>2. Spec => [](TypeOK /\ OnceInv)
  BY <1>1, TypingInit, OnceInit, PTL DEF Spec
<1>3. OnceInv => OneEventPerUpload
  BY DEF OnceInv
<1>4. QED
  BY <1>2, <1>3, PTL
=============================================================================
