---------------------------- MODULE MoshPane_proofs ----------------------------
(***************************************************************************)
(* The invariants of MoshPane, for any number of sessions, any bounds and  *)
(* whatever situations a run leaves out.                                   *)
(*                                                                         *)
(* What a session does by itself is a step of its record alone: each       *)
(* operator of MoshSession has a lemma saying that it keeps SessionInv and *)
(* what the pane relies on (Evolves).  What the pane does has a lemma per  *)
(* action.                                                                 *)
(***************************************************************************)
EXTENDS MoshPane, FiniteSetTheorems, TLAPS

-----------------------------------------------------------------------------
(* The invariant.                                                           *)

End == {"close", "failure"}

\* Output of the session still on its way to the pane.
DataAt(q) == {i \in 1..Len(q) : q[i] = "data"}
Underway(n) == Cardinality(DataAt(n.transport))

\* The frames the library took and those it will take are 1, 2, 3 and so on.
Numbered(n) ==
    /\ \A i \in 1..Len(n.sent) : n.sent[i] = i
    /\ \A i \in 1..Len(n.written) : n.written[i] = Len(n.sent) + i

\* The end of a session is its last event, and a clean end follows all output.
EndInv(n) ==
    /\ n.phase = "stopping" => n.failing
    /\ \A i \in 1..Len(n.transport) :
         n.transport[i] \in End => n.phase = "ended" /\ i = Len(n.transport)
    /\ \A i \in 1..Len(n.transport) : n.transport[i] = "close" => n.handed = n.produced

SessionInv(n) ==
    /\ Numbered(n)
    /\ n.graceful => n.written = <<>>
    /\ EndInv(n)

Fits(n) == Len(n.written) <= WriteQueue /\ Len(n.transport) <= EventQueue

\* A client that may still be typed into has counted every frame, and nothing
\* has asked its session to close.
TypingInv(n, c) ==
    /\ c.connected => c.open /\ ~c.disconnecting
    /\ c.open /\ ~c.disconnecting =>
         c.typed = Len(n.sent) + Len(n.written) /\ ~n.disconnect /\ ~n.graceful

\* What the user was told stays true: the client shows nothing more, and the
\* session has nothing more.
ToldInv(n, c) ==
    /\ c.ending \in {"closed", "rejected"} =>
         ~c.open /\ n.phase = "ended" /\ c.shown = n.handed
    /\ c.ending = "closed" => n.handed = n.produced

\* While the pane listens to a session, what was handed over is shown or on
\* its way.
Heard(n, c) == c.open /\ c.shown + Underway(n) = n.handed

\* A pane is at its prompt when it has no client, and then it owns nothing.
PromptInv(p) ==
    /\ p.mode = "IDLE" <=> p.client = NoneYet
    /\ p.client = NoneYet => ~p.page /\ ~p.accepting

SessionsInv ==
    \A s \in Session :
        /\ SessionInv(native[s])
        /\ TypingInv(native[s], clients[s])
        /\ ToldInv(native[s], clients[s])
        /\ pane.client = s /\ pane.accepting => Heard(native[s], clients[s])

IInv == TypeOK /\ SessionsInv /\ PromptInv(pane)

-----------------------------------------------------------------------------
(* Output on its way, counted.                                              *)

LEMMA DataFinite ==
    ASSUME NEW q, Len(q) \in Nat
    PROVE  IsFiniteSet(DataAt(q)) /\ Cardinality(DataAt(q)) \in Nat
  <1>1. IsFiniteSet(1..Len(q))
    BY FS_Interval
  <1>2. DataAt(q) \subseteq 1..Len(q)
    BY DEF DataAt
  <1>3. IsFiniteSet(DataAt(q))
    BY <1>1, <1>2, FS_Subset
  <1> QED
    BY <1>3, FS_CardinalityType

LEMMA DataAppended ==
    ASSUME NEW S, NEW q \in Seq(S), NEW e \in S
    PROVE  Cardinality(DataAt(Append(q, e)))
             = Cardinality(DataAt(q)) + (IF e = "data" THEN 1 ELSE 0)
  <1>1. /\ Len(q) \in Nat /\ Len(Append(q, e)) = Len(q) + 1
        /\ \A i \in 1..Len(q) : Append(q, e)[i] = q[i]
        /\ Append(q, e)[Len(q) + 1] = e
    OBVIOUS
  <1>2. DataAt(Append(q, e)) = DataAt(q) \cup (IF e = "data" THEN {Len(q) + 1} ELSE {})
    BY <1>1 DEF DataAt
  <1>3. IsFiniteSet(DataAt(q)) /\ Len(q) + 1 \notin DataAt(q) /\ Cardinality(DataAt(q)) \in Nat
    BY <1>1, DataFinite DEF DataAt
  <1>4. CASE e = "data"
    <2>1. Cardinality(DataAt(q) \cup {Len(q) + 1}) = Cardinality(DataAt(q)) + 1
      BY <1>3, FS_AddElement
    <2> QED
      BY <2>1, <1>2, <1>4
  <1>5. CASE e # "data"
    BY <1>2, <1>3, <1>5
  <1> QED
    BY <1>4, <1>5

LEMMA DataTaken ==
    ASSUME NEW S, NEW q \in Seq(S), q # <<>>
    PROVE  Cardinality(DataAt(q))
             = Cardinality(DataAt(Tail(q))) + (IF Head(q) = "data" THEN 1 ELSE 0)
  <1> DEFINE t == Tail(q)
             rest == DataAt(q) \ {1}
             f == [i \in DataAt(t) |-> i + 1]
  <1>1. /\ Len(q) \in Nat /\ Len(q) # 0 /\ Len(t) = Len(q) - 1 /\ Head(q) = q[1]
        /\ \A i \in 1..Len(t) : t[i] = q[i + 1]
    OBVIOUS
  <1>2. IsFiniteSet(DataAt(t)) /\ IsFiniteSet(DataAt(q)) /\ Cardinality(DataAt(t)) \in Nat
    BY <1>1, DataFinite
  <1> HIDE DEF t
  <1>3. f \in Bijection(DataAt(t), rest)
    <2>1. \A i \in DataAt(t) : i + 1 \in rest
      BY <1>1 DEF DataAt
    <2>2. \A j \in rest : j - 1 \in DataAt(t) /\ (j - 1) + 1 = j
      BY <1>1 DEF DataAt
    <2>3. f \in [DataAt(t) -> rest]
      BY <2>1
    <2>4. \A i, j \in DataAt(t) : f[i] = f[j] => i = j
      BY <1>1 DEF DataAt
    <2>5. \A j \in rest : \E i \in DataAt(t) : f[i] = j
      BY <2>2
    <2> QED
      BY <2>3, <2>4, <2>5 DEF Bijection, Injection, Surjection, IsInjective
  <1>4. Cardinality(rest) = Cardinality(DataAt(t)) /\ IsFiniteSet(rest)
    BY <1>2, <1>3, FS_Bijection DEF ExistsBijection
  <1>5. CASE Head(q) = "data"
    <2>1. DataAt(q) = rest \cup {1} /\ 1 \notin rest
      BY <1>1, <1>5 DEF DataAt
    <2>2. Cardinality(rest \cup {1}) = Cardinality(rest) + 1
      BY <2>1, <1>4, FS_AddElement
    <2> QED
      BY <2>1, <2>2, <1>4, <1>5 DEF t
  <1>6. CASE Head(q) # "data"
    <2>1. DataAt(q) = rest
      BY <1>1, <1>6 DEF DataAt
    <2>2. Cardinality(DataAt(q)) = Cardinality(DataAt(t))
      BY <2>1, <1>4
    <2>3. Cardinality(DataAt(q)) = Cardinality(DataAt(t)) + 0
      BY <2>2, <1>2
    <2> QED
      BY <2>3, <1>6 DEF t
  <1> QED
    BY <1>5, <1>6

-----------------------------------------------------------------------------
(* What the operators of a session do to its record.                        *)

LEMMA Unfold ==
    /\ MaxSessions \in Nat /\ MaxInput \in Nat /\ MaxOutput \in Nat
    /\ WriteQueue \in Nat \ {0} /\ EventQueue \in Nat \ {0}
    /\ NoneYet \notin Session
    /\ \A s \in Session : s \in Nat /\ s # NoneYet
  BY MoshAssumption DEF Session, NoneYet

LEMMA RecordFields ==
    ASSUME NEW n \in Record
    PROVE  /\ n.phase \in Phase /\ n.active \in BOOLEAN /\ n.reach \in Reachability
           /\ n.produced \in 0..MaxOutput /\ n.result \in {None, "closed", "failed"}
           /\ n.reported \in BOOLEAN /\ n.handed \in 0..MaxOutput
           /\ n.paused \in BOOLEAN /\ n.graceful \in BOOLEAN /\ n.failing \in BOOLEAN
           /\ n.written \in Seq(1..MaxInput) /\ n.sent \in Seq(1..MaxInput)
           /\ n.disconnect \in BOOLEAN
           /\ n.transport \in Seq(TransportEvent) /\ n.control \in Seq(ControlEvent)
           /\ Len(n.written) \in Nat /\ Len(n.sent) \in Nat /\ Len(n.transport) \in Nat
           /\ Underway(n) \in Nat
  <1>1. n.transport \in Seq(TransportEvent) /\ Len(n.transport) \in Nat
    BY DEF Record
  <1>2. Underway(n) \in Nat
    BY <1>1, DataFinite DEF Underway
  <1> QED
    BY <1>1, <1>2 DEF Record

LEMMA TellFields ==
    ASSUME NEW n \in Record, NEW event \in TransportEvent
    PROVE  /\ Tell(n, event) \in Record
           /\ Tell(n, event).transport = Append(n.transport, event)
           /\ Tell(n, event).phase = n.phase /\ Tell(n, event).active = n.active
           /\ Tell(n, event).reach = n.reach /\ Tell(n, event).produced = n.produced
           /\ Tell(n, event).result = n.result /\ Tell(n, event).reported = n.reported
           /\ Tell(n, event).handed = n.handed /\ Tell(n, event).paused = n.paused
           /\ Tell(n, event).graceful = n.graceful /\ Tell(n, event).failing = n.failing
           /\ Tell(n, event).written = n.written /\ Tell(n, event).sent = n.sent
           /\ Tell(n, event).disconnect = n.disconnect /\ Tell(n, event).control = n.control
  <1> DEFINE q == Append(n.transport, event)
             m == [n EXCEPT !.transport = q]
  <1>1. q \in Seq(TransportEvent)
    BY RecordFields
  <1>2. Tell(n, event) = m /\ q = Append(n.transport, event)
    BY DEF Tell
  <1> HIDE DEF q
  <1>3. m \in Record
    BY <1>1 DEF Record
  <1>4. /\ m.transport = q /\ m.phase = n.phase /\ m.active = n.active
        /\ m.reach = n.reach /\ m.produced = n.produced
        /\ m.result = n.result /\ m.reported = n.reported
        /\ m.handed = n.handed /\ m.paused = n.paused
        /\ m.graceful = n.graceful /\ m.failing = n.failing
        /\ m.written = n.written /\ m.sent = n.sent
        /\ m.disconnect = n.disconnect /\ m.control = n.control
    BY <1>1 DEF Record
  <1> HIDE DEF m
  <1> QED
    BY <1>2, <1>3, <1>4

LEMMA TellControlFields ==
    ASSUME NEW n \in Record, NEW event \in ControlEvent
    PROVE  /\ TellControl(n, event) \in Record
           /\ TellControl(n, event).transport = n.transport
           /\ TellControl(n, event).phase = n.phase
           /\ TellControl(n, event).produced = n.produced
           /\ TellControl(n, event).handed = n.handed
           /\ TellControl(n, event).graceful = n.graceful
           /\ TellControl(n, event).failing = n.failing
           /\ TellControl(n, event).written = n.written
           /\ TellControl(n, event).sent = n.sent
           /\ TellControl(n, event).disconnect = n.disconnect
  <1> DEFINE q == Append(n.control, event)
             m == [n EXCEPT !.control = q]
  <1>1. q \in Seq(ControlEvent)
    BY RecordFields
  <1>2. TellControl(n, event) = m
    BY DEF TellControl
  <1> HIDE DEF q
  <1>3. m \in Record
    BY <1>1 DEF Record
  <1>4. /\ m.transport = n.transport /\ m.phase = n.phase /\ m.produced = n.produced
        /\ m.handed = n.handed /\ m.graceful = n.graceful /\ m.failing = n.failing
        /\ m.written = n.written /\ m.sent = n.sent /\ m.disconnect = n.disconnect
    BY <1>1 DEF Record
  <1> HIDE DEF m
  <1> QED
    BY <1>2, <1>3, <1>4

LEMMA NoSessionTyped == NoSession \in Record
  <1>1. <<>> \in Seq(1..MaxInput) /\ <<>> \in Seq(TransportEvent) /\ <<>> \in Seq(ControlEvent)
    OBVIOUS
  <1>2. 0 \in 0..MaxOutput
    BY Unfold
  <1> QED
    BY <1>1, <1>2 DEF NoSession, Record, Phase, Reachability

LEMMA GoneFields ==
    ASSUME NEW n \in Record
    PROVE  /\ Gone(n) \in Record
           /\ Gone(n).phase = "ended" /\ Gone(n).produced = n.produced
           /\ Gone(n).handed = n.handed /\ Gone(n).sent = n.sent
           /\ Gone(n).graceful = n.graceful /\ Gone(n).written = n.written
           /\ Gone(n).transport = n.transport /\ Gone(n).control = n.control
           /\ ~Gone(n).disconnect
  <1> DEFINE m == Gone(n)
  <1>1. NoSession \in Record
    BY NoSessionTyped
  <1>2. m \in Record
    BY <1>1, RecordFields DEF Gone, Record, Phase
  <1>3. /\ m.phase = "ended" /\ m.produced = n.produced
        /\ m.handed = n.handed /\ m.sent = n.sent
        /\ m.graceful = n.graceful /\ m.written = n.written
        /\ m.transport = n.transport /\ m.control = n.control
        /\ ~m.disconnect
    BY <1>1, RecordFields DEF Gone, Record, NoSession
  <1> QED
    BY <1>2, <1>3

-----------------------------------------------------------------------------
(* What a session may become by itself.                                     *)

Sound(n) == n \in Record /\ Fits(n) /\ SessionInv(n)

\* Nothing typed is lost, a session closes for a reason, output is handed over
\* by putting it on its way, and what has ended stays as it is.
Evolves(n, m) ==
    /\ Sound(m)
    /\ Len(m.sent) + Len(m.written) = Len(n.sent) + Len(n.written)
    /\ m.disconnect => n.disconnect
    /\ m.graceful => n.graceful \/ n.disconnect
    /\ m.handed + Underway(n) = n.handed + Underway(m)
    /\ n.phase = "ended" => m.phase = "ended" /\ m.handed = n.handed /\ m.produced = n.produced

NoEnd(q) == \A i \in 1..Len(q) : q[i] \notin End

LEMMA StillGoing ==
    ASSUME NEW n, Sound(n), n.phase # "ended"
    PROVE  /\ n \in Record /\ NoEnd(n.transport)
           /\ Len(n.written) <= WriteQueue /\ Len(n.transport) <= EventQueue
  BY DEF Sound, Fits, SessionInv, EndInv, NoEnd

\* A step that leaves input alone.
LEMMA GoesOn ==
    ASSUME NEW n, Sound(n), n.phase # "ended",
           NEW m \in Record, m.written = n.written, m.sent = n.sent,
           m.graceful = n.graceful, m.disconnect => n.disconnect,
           NoEnd(m.transport), Len(m.transport) <= EventQueue,
           m.handed + Underway(n) = n.handed + Underway(m),
           m.phase = "stopping" => m.failing
    PROVE  Evolves(n, m)
  <1>1. EndInv(m)
    BY DEF EndInv, NoEnd, End
  <1>2. Numbered(m) /\ (m.graceful => m.written = <<>>) /\ Fits(m)
    BY DEF Sound, SessionInv, Numbered, Fits
  <1>3. Sound(m)
    BY <1>1, <1>2 DEF Sound, SessionInv
  <1> QED
    BY <1>3 DEF Evolves

\* A step that leaves the queue of output alone as well.
LEMMA GoesOnSilently ==
    ASSUME NEW n, Sound(n), n.phase # "ended",
           NEW m \in Record, m.written = n.written, m.sent = n.sent,
           m.graceful = n.graceful, m.disconnect => n.disconnect,
           m.transport = n.transport, m.handed = n.handed,
           m.phase = "stopping" => m.failing
    PROVE  Evolves(n, m)
  <1>1. NoEnd(m.transport) /\ Len(m.transport) <= EventQueue
    BY StillGoing
  <1>2. m.handed + Underway(n) = n.handed + Underway(m)
    BY DEF Underway
  <1> QED
    BY <1>1, <1>2, GoesOn

LEMMA NoEndAppended ==
    ASSUME NEW q \in Seq(TransportEvent), NEW event \in TransportEvent \ End, NoEnd(q)
    PROVE  NoEnd(Append(q, event))
  BY DEF NoEnd

LEMMA UnderwayTold ==
    ASSUME NEW n \in Record, NEW event \in TransportEvent
    PROVE  Underway(Tell(n, event)) = Underway(n) + (IF event = "data" THEN 1 ELSE 0)
  <1>1. n.transport \in Seq(TransportEvent) /\ Tell(n, event).transport = Append(n.transport, event)
    BY RecordFields, TellFields
  <1>2. Cardinality(DataAt(Append(n.transport, event)))
          = Cardinality(DataAt(n.transport)) + (IF event = "data" THEN 1 ELSE 0)
    BY <1>1, DataAppended
  <1> QED
    BY <1>1, <1>2 DEF Underway

\* The session ends; o is n, or n with a control event more.
LEMMA EndsSilently ==
    ASSUME NEW n, Sound(n), n.phase # "ended",
           NEW o \in Record, o.written = n.written, o.sent = n.sent, o.graceful = n.graceful,
           o.transport = n.transport, o.handed = n.handed, o.produced = n.produced
    PROVE  Evolves(n, Gone(o))
  <1> DEFINE m == Gone(o)
  <1>1. /\ m \in Record /\ m.phase = "ended" /\ ~m.disconnect
        /\ m.written = n.written /\ m.sent = n.sent /\ m.graceful = n.graceful
        /\ m.transport = n.transport /\ m.handed = n.handed /\ m.produced = n.produced
    BY GoneFields
  <1>2. NoEnd(m.transport) /\ Len(m.transport) <= EventQueue
    BY <1>1, StillGoing
  <1>3. m.handed + Underway(n) = n.handed + Underway(m)
    BY <1>1 DEF Underway
  <1> HIDE DEF m
  <1>4. m.disconnect => n.disconnect
    BY <1>1
  <1>5. m.phase = "stopping" => m.failing
    BY <1>1
  <1>6. Evolves(n, m)
    BY <1>1, <1>2, <1>3, <1>4, <1>5, GoesOn
  <1> QED
    BY <1>6 DEF m

LEMMA EndsWith ==
    ASSUME NEW n, Sound(n), n.phase # "ended", HasRoom(n),
           NEW o \in Record, o.written = n.written, o.sent = n.sent, o.graceful = n.graceful,
           o.transport = n.transport, o.handed = n.handed, o.produced = n.produced,
           NEW event \in End, event = "close" => n.handed = n.produced
    PROVE  Evolves(n, Gone(Tell(o, event)))
  <1> DEFINE t == Tell(o, event)
             m == Gone(t)
  <1>0. event \in TransportEvent /\ event # "data"
    BY DEF End, TransportEvent
  <1>1. /\ t \in Record /\ t.transport = Append(n.transport, event)
        /\ t.written = n.written /\ t.sent = n.sent /\ t.graceful = n.graceful
        /\ t.handed = n.handed /\ t.produced = n.produced
    BY <1>0, TellFields
  <1>2. Underway(t) = Underway(n)
    BY <1>0, UnderwayTold, RecordFields DEF Underway
  <1> HIDE DEF t
  <1>3. /\ m \in Record /\ m.phase = "ended" /\ ~m.disconnect
        /\ m.written = n.written /\ m.sent = n.sent /\ m.graceful = n.graceful
        /\ m.transport = Append(n.transport, event)
        /\ m.handed = n.handed /\ m.produced = n.produced
    BY <1>1, GoneFields
  <1>4. Underway(m) = Underway(n)
    BY <1>1, <1>2, <1>3 DEF Underway
  <1> HIDE DEF m
  <1>5. /\ n.transport \in Seq(TransportEvent) /\ Len(n.transport) \in Nat
        /\ NoEnd(n.transport) /\ Len(n.transport) < EventQueue
    BY StillGoing, RecordFields DEF HasRoom
  <1>6. /\ Len(m.transport) = Len(n.transport) + 1
        /\ \A i \in 1..Len(n.transport) : m.transport[i] = n.transport[i]
        /\ m.transport[Len(n.transport) + 1] = event
    BY <1>3, <1>5, <1>0
  <1>7. EndInv(m)
    BY <1>3, <1>5, <1>6 DEF EndInv, NoEnd, End
  <1>8. Numbered(m) /\ (m.graceful => m.written = <<>>)
    BY <1>3 DEF Sound, SessionInv, Numbered
  <1>9. Fits(m)
    BY <1>3, <1>5, <1>6, Unfold DEF Sound, Fits
  <1>10. Sound(m)
    BY <1>3, <1>7, <1>8, <1>9 DEF Sound, SessionInv
  <1>11. Evolves(n, m)
    BY <1>3, <1>4, <1>10 DEF Evolves
  <1> QED
    BY <1>11 DEF m, t

-----------------------------------------------------------------------------
(* Each thing a session does.                                               *)

\* Of a session that tells something, and of one that hands over output.
LEMMA TellEvolves ==
    ASSUME NEW n, Sound(n), n.phase \notin {"ended", "stopping"}, HasRoom(n),
           NEW event \in TransportEvent \ End,
           NEW m \in Record,
           m.transport = Tell(n, event).transport,
           m.handed = n.handed + (IF event = "data" THEN 1 ELSE 0),
           m.written = n.written, m.sent = n.sent, m.graceful = n.graceful,
           m.disconnect = n.disconnect, m.phase # "stopping"
    PROVE  Evolves(n, m)
  <1>1. n \in Record /\ n.transport \in Seq(TransportEvent) /\ NoEnd(n.transport)
    BY StillGoing, RecordFields
  <1>2. m.transport = Append(n.transport, event)
    BY <1>1, TellFields
  <1>3. NoEnd(m.transport)
    BY <1>1, <1>2, NoEndAppended
  <1>4. Len(m.transport) <= EventQueue
    BY <1>1, <1>2, Unfold DEF HasRoom
  <1>5. Underway(m) = Underway(Tell(n, event))
    BY DEF Underway
  <1>6. Underway(m) = Underway(n) + (IF event = "data" THEN 1 ELSE 0)
    BY <1>1, <1>5, UnderwayTold
  <1>7. n.handed \in Nat /\ Underway(n) \in Nat
    BY <1>1, RecordFields, Unfold
  <1>8. m.handed + Underway(n) = n.handed + Underway(m)
    BY <1>6, <1>7
  <1> QED
    BY <1>3, <1>4, <1>8, GoesOn

LEMMA BootstrapEvolves ==
    ASSUME NEW n, Sound(n), NEW m \in Bootstrap(n) \cup BootstrapCancelled(n)
    PROVE  Evolves(n, m)
  <1>1. n \in Record /\ n.phase # "ended"
    BY DEF Sound, Bootstrap, BootstrapCancelled
  <1>2. CASE m = [n EXCEPT !.phase = "udp"]
    <2>1. m \in Record
      BY <1>1, <1>2 DEF Record, Phase
    <2>2. /\ m.written = n.written /\ m.sent = n.sent /\ m.graceful = n.graceful
          /\ m.disconnect = n.disconnect /\ m.transport = n.transport
          /\ m.handed = n.handed /\ m.phase = "udp"
      BY <1>1, <1>2 DEF Record
    <2> QED
      BY <1>1, <2>1, <2>2, GoesOnSilently
  <1>3. CASE m = Gone(TellControl(n, "error"))
    BY <1>1, <1>3, TellControlFields, EndsSilently DEF ControlEvent
  <1>4. CASE m = Gone(n)
    BY <1>1, <1>4, EndsSilently
  <1> QED
    BY <1>2, <1>3, <1>4 DEF Bootstrap, BootstrapCancelled

LEMMA ConnectEvolves ==
    ASSUME NEW n, Sound(n), NEW m \in Connect(n)
    PROVE  Evolves(n, m)
  <1>1. n \in Record /\ n.phase = "udp" /\ HasRoom(n)
    BY DEF Sound, Connect
  <1>2. n.reach \in TransportEvent \ End /\ n.reach # "data" /\ n.handed \in Nat
    BY <1>1, RecordFields DEF Reachability, TransportEvent, End
  <1>3. CASE m = [Tell(n, n.reach) EXCEPT !.phase = "running"]
    <2> DEFINE t == Tell(n, n.reach)
    <2>1. /\ t \in Record /\ t.handed = n.handed
          /\ t.written = n.written /\ t.sent = n.sent /\ t.graceful = n.graceful
          /\ t.disconnect = n.disconnect
      BY <1>1, <1>2, TellFields
    <2>2. m = [t EXCEPT !.phase = "running"] /\ t.transport = Tell(n, n.reach).transport
      BY <1>3
    <2> HIDE DEF t
    <2>3. m \in Record
      BY <2>1, <2>2 DEF Record, Phase
    <2>4. /\ m.transport = Tell(n, n.reach).transport /\ m.handed = n.handed
          /\ m.written = n.written /\ m.sent = n.sent /\ m.graceful = n.graceful
          /\ m.disconnect = n.disconnect /\ m.phase = "running"
      BY <2>1, <2>2 DEF Record
    <2>5. m.handed = n.handed + (IF n.reach = "data" THEN 1 ELSE 0)
      BY <2>4, <1>2
    <2> QED
      BY <1>1, <1>2, <2>3, <2>4, <2>5, TellEvolves
  <1>4. CASE m = Gone(Tell(TellControl(n, "error"), "failure"))
    <2> DEFINE o == TellControl(n, "error")
    <2>1. /\ o \in Record /\ o.written = n.written /\ o.sent = n.sent
          /\ o.graceful = n.graceful /\ o.transport = n.transport
          /\ o.handed = n.handed /\ o.produced = n.produced
      BY <1>1, TellControlFields DEF ControlEvent
    <2>2. m = Gone(Tell(o, "failure"))
      BY <1>4
    <2> HIDE DEF o
    <2> QED
      BY <1>1, <2>1, <2>2, EndsWith DEF End
  <1> QED
    BY <1>1, <1>3, <1>4 DEF Connect

LEMMA ReportConnectedEvolves ==
    ASSUME NEW n, Sound(n), n.phase = "running", NEW m \in ReportConnected(n)
    PROVE  Evolves(n, m)
  <1> DEFINE t == TellControl(n, "connected")
  <1>1. /\ n \in Record /\ t \in Record /\ t.handed = n.handed /\ t.phase = n.phase
        /\ t.written = n.written /\ t.sent = n.sent /\ t.graceful = n.graceful
        /\ t.disconnect = n.disconnect /\ t.transport = n.transport
    BY TellControlFields DEF Sound, ControlEvent
  <1>2. m = [t EXCEPT !.reported = TRUE]
    BY DEF ReportConnected
  <1> HIDE DEF t
  <1>3. m \in Record
    BY <1>1, <1>2 DEF Record
  <1>4. /\ m.transport = n.transport /\ m.handed = n.handed
        /\ m.written = n.written /\ m.sent = n.sent /\ m.graceful = n.graceful
        /\ m.disconnect = n.disconnect /\ m.phase = "running"
    BY <1>1, <1>2 DEF Record
  <1> QED
    BY <1>3, <1>4, GoesOnSilently

\* The loop hands over output, and so does the drain after it.
LEMMA HandOverEvolves ==
    ASSUME NEW n, Sound(n), n.phase \in {"running", "draining"}, HasRoom(n),
           n.handed < n.produced
    PROVE  Evolves(n, [Tell(n, "data") EXCEPT !.handed = @ + 1])
  <1> DEFINE t == Tell(n, "data")
             h == n.handed + 1
             m == [t EXCEPT !.handed = h]
  <1>1. n \in Record /\ "data" \in TransportEvent \ End
    BY DEF Sound, TransportEvent, End
  <1>2. /\ t \in Record /\ t.handed = n.handed /\ t.phase = n.phase
        /\ t.written = n.written /\ t.sent = n.sent /\ t.graceful = n.graceful
        /\ t.disconnect = n.disconnect /\ t.transport = Tell(n, "data").transport
    BY <1>1, TellFields
  <1>3. h \in 0..MaxOutput
    BY <1>1, RecordFields, Unfold
  <1>4. h = n.handed + 1
    OBVIOUS
  <1>5. [Tell(n, "data") EXCEPT !.handed = @ + 1] = m
    BY <1>2
  <1> HIDE DEF t, h
  <1>6. m \in Record
    BY <1>2, <1>3 DEF Record
  <1>7. /\ m.transport = Tell(n, "data").transport /\ m.handed = h
        /\ m.written = n.written /\ m.sent = n.sent /\ m.graceful = n.graceful
        /\ m.disconnect = n.disconnect /\ m.phase = n.phase
    BY <1>2, <1>3 DEF Record
  <1> HIDE DEF m
  <1>8. m.handed = n.handed + (IF "data" = "data" THEN 1 ELSE 0)
    BY <1>4, <1>7
  <1>9. Evolves(n, m)
    BY <1>1, <1>6, <1>7, <1>8, TellEvolves
  <1> QED
    BY <1>5, <1>9

LEMMA FailedEvolves ==
    ASSUME NEW n, Sound(n), n.phase = "running"
    PROVE  Evolves(n, Failed(n))
  <1> DEFINE m == Failed(n)
  <1>1. n \in Record
    BY DEF Sound
  <1>2. m \in Record
    BY <1>1 DEF Failed, Record, Phase
  <1>3. /\ m.transport = n.transport /\ m.handed = n.handed
        /\ m.written = n.written /\ m.sent = n.sent /\ m.graceful = n.graceful
        /\ m.disconnect = n.disconnect /\ m.failing
    BY <1>1 DEF Failed, Record
  <1> HIDE DEF m
  <1>4. Evolves(n, m)
    BY <1>2, <1>3, GoesOnSilently
  <1> QED
    BY <1>4 DEF m

LEMMA TaskEndedEvolves ==
    ASSUME NEW n, Sound(n), n.phase = "running", NEW m \in TaskEnded(n)
    PROVE  Evolves(n, m)
  <1> DEFINE f == n.result = "failed"
  <1>1. n \in Record /\ f \in BOOLEAN
    BY DEF Sound
  <1>2. m = [n EXCEPT !.phase = "draining", !.failing = f]
    BY DEF TaskEnded
  <1> HIDE DEF f
  <1>3. m \in Record
    BY <1>1, <1>2 DEF Record, Phase
  <1>4. /\ m.transport = n.transport /\ m.handed = n.handed
        /\ m.written = n.written /\ m.sent = n.sent /\ m.graceful = n.graceful
        /\ m.disconnect = n.disconnect /\ m.phase = "draining"
    BY <1>1, <1>2 DEF Record
  <1> QED
    BY <1>3, <1>4, GoesOnSilently

\* A step that moves input from the queue to the library.
LEMMA InputMoves ==
    ASSUME NEW n, Sound(n), n.phase = "running",
           NEW m \in Record, m.transport = n.transport, m.handed = n.handed,
           m.phase = "running", m.disconnect => n.disconnect,
           m.graceful => n.graceful \/ n.disconnect, m.graceful => m.written = <<>>,
           Len(m.sent) + Len(m.written) = Len(n.sent) + Len(n.written),
           Len(m.written) <= Len(n.written), Numbered(m)
    PROVE  Evolves(n, m)
  <1>1. NoEnd(m.transport) /\ Len(m.transport) <= EventQueue
    BY StillGoing
  <1>2. EndInv(m)
    BY <1>1 DEF EndInv, NoEnd, End
  <1>3. Len(m.written) <= WriteQueue
    BY RecordFields, Unfold DEF Sound, Fits
  <1>4. Sound(m)
    BY <1>1, <1>2, <1>3 DEF Sound, SessionInv, Fits
  <1>5. m.handed + Underway(n) = n.handed + Underway(m)
    BY DEF Underway
  <1> QED
    BY <1>4, <1>5 DEF Evolves

\* The next one typed goes to the library.
LEMMA OneMoved ==
    ASSUME NEW S, NEW sent \in Seq(S), NEW written \in Seq(S), written # <<>>,
           \A i \in 1..Len(sent) : sent[i] = i,
           \A i \in 1..Len(written) : written[i] = Len(sent) + i
    PROVE  LET a == Append(sent, Head(written))
               t == Tail(written)
           IN  /\ a \in Seq(S) /\ t \in Seq(S)
               /\ \A i \in 1..Len(a) : a[i] = i
               /\ \A i \in 1..Len(t) : t[i] = Len(a) + i
               /\ Len(a) + Len(t) = Len(sent) + Len(written) /\ Len(t) <= Len(written)
  <1> DEFINE a == Append(sent, Head(written))
             t == Tail(written)
  <1>1. Len(sent) \in Nat /\ Len(written) \in Nat /\ Len(written) >= 1
    OBVIOUS
  <1>2. Head(written) = written[1] /\ written[1] \in S
    BY <1>1
  <1>3. a \in Seq(S) /\ Len(a) = Len(sent) + 1
    BY <1>2
  <1>4. \A i \in 1..Len(sent) : a[i] = sent[i]
    BY <1>1, <1>2
  <1>5. a[Len(sent) + 1] = written[1]
    BY <1>1, <1>2
  <1>6. t \in Seq(S) /\ Len(t) = Len(written) - 1 /\ \A i \in 1..Len(t) : t[i] = written[i + 1]
    BY <1>1
  <1> HIDE DEF a, t
  <1>7. \A i \in 1..Len(a) : a[i] = i
    <2> TAKE i \in 1..Len(a)
    <2>1. CASE i \in 1..Len(sent)
      BY <1>4, <2>1
    <2>2. CASE i = Len(sent) + 1
      <3>1. written[1] = Len(sent) + 1
        BY <1>1
      <3> QED
        BY <1>5, <2>2, <3>1
    <2> QED
      BY <1>1, <1>3, <2>1, <2>2
  <1>8. \A i \in 1..Len(t) : t[i] = Len(a) + i
    <2> TAKE i \in 1..Len(t)
    <2>1. i + 1 \in 1..Len(written) /\ t[i] = written[i + 1]
      BY <1>1, <1>6
    <2>2. written[i + 1] = Len(sent) + (i + 1)
      BY <2>1
    <2>3. Len(sent) + (i + 1) = Len(a) + i
      BY <1>1, <1>3
    <2> QED
      BY <2>1, <2>2, <2>3
  <1>9. Len(a) + Len(t) = Len(sent) + Len(written) /\ Len(t) <= Len(written)
    BY <1>1, <1>3, <1>6
  <1> QED
    BY <1>3, <1>6, <1>7, <1>8, <1>9 DEF a, t

\* All that was typed goes to the library.
LEMMA AllMoved ==
    ASSUME NEW S, NEW sent \in Seq(S), NEW written \in Seq(S),
           NEW a, a = sent \o written,
           \A i \in 1..Len(sent) : sent[i] = i,
           \A i \in 1..Len(written) : written[i] = Len(sent) + i
    PROVE  /\ a \in Seq(S)
           /\ \A i \in 1..Len(a) : a[i] = i
           /\ Len(a) = Len(sent) + Len(written)
  <1>1. Len(sent) \in Nat /\ Len(written) \in Nat
    OBVIOUS
  <1>2. a \in Seq(S) /\ Len(a) = Len(sent) + Len(written)
    OBVIOUS
  <1>3. \A i \in 1..Len(sent) : a[i] = sent[i]
    BY <1>1
  <1>4. \A j \in 1..Len(written) : a[Len(sent) + j] = written[j]
    BY <1>1
  <1>5. \A i \in 1..Len(a) : a[i] = i
    <2> TAKE i \in 1..Len(a)
    <2>1. CASE i \in 1..Len(sent)
      BY <1>3, <2>1
    <2>2. CASE i \notin 1..Len(sent)
      <3> DEFINE j == i - Len(sent)
      <3>1. j \in 1..Len(written) /\ Len(sent) + j = i
        BY <1>1, <1>2, <2>2
      <3> HIDE DEF j
      <3>2. a[Len(sent) + j] = Len(sent) + j
        BY <1>4, <3>1
      <3> QED
        BY <3>1, <3>2
    <2> QED
      BY <2>1, <2>2
  <1> QED
    BY <1>2, <1>5

LEMMA TakeInputEvolves ==
    ASSUME NEW n, Sound(n), n.phase = "running", NEW m \in TakeInput(n)
    PROVE  Evolves(n, m)
  <1> DEFINE a == Append(n.sent, Head(n.written))
             t == Tail(n.written)
  <1>1. n \in Record /\ ~n.graceful /\ n.written # <<>> /\ Numbered(n)
    BY DEF Sound, SessionInv, TakeInput
  <1>2. m = Failed(n) \/ m = [n EXCEPT !.sent = a, !.written = t]
    BY <1>1 DEF TakeInput
  <1>3. CASE m = [n EXCEPT !.sent = a, !.written = t]
    <2>1. /\ n.sent \in Seq(1..MaxInput) /\ n.written \in Seq(1..MaxInput)
          /\ Len(n.sent) \in Nat /\ Len(n.written) \in Nat
      BY <1>1, RecordFields
    <2>2. /\ a \in Seq(1..MaxInput) /\ t \in Seq(1..MaxInput)
          /\ \A i \in 1..Len(a) : a[i] = i
          /\ \A i \in 1..Len(t) : t[i] = Len(a) + i
          /\ Len(a) + Len(t) = Len(n.sent) + Len(n.written) /\ Len(t) <= Len(n.written)
      BY <1>1, <2>1, OneMoved DEF Numbered
    <2> HIDE DEF a, t
    <2>4. m \in Record
      BY <1>1, <1>3, <2>2 DEF Record
    <2>5. /\ m.transport = n.transport /\ m.handed = n.handed /\ m.phase = "running"
          /\ m.disconnect = n.disconnect /\ m.graceful = n.graceful
      BY <1>1, <1>3 DEF Record
    <2>6. m.sent = a /\ m.written = t
      BY <1>1, <1>3 DEF Record
    <2>7. /\ Numbered(m)
          /\ Len(m.sent) + Len(m.written) = Len(n.sent) + Len(n.written)
          /\ Len(m.written) <= Len(n.written)
      BY <2>2, <2>6 DEF Numbered
    <2> QED
      BY <1>1, <2>4, <2>5, <2>7, InputMoves
  <1> QED
    BY <1>2, <1>3, FailedEvolves

LEMMA TakeDisconnectEvolves ==
    ASSUME NEW n, Sound(n), n.phase = "running", NEW m \in TakeDisconnect(n)
    PROVE  Evolves(n, m)
  <1> DEFINE a == n.sent \o n.written
             t == <<>>
  <1>1. n \in Record /\ n.disconnect /\ ~n.graceful /\ Numbered(n)
    BY DEF Sound, SessionInv, TakeDisconnect
  <1>2. \/ m = Failed(n)
        \/ m = [n EXCEPT !.disconnect = FALSE, !.sent = a, !.written = t,
                         !.paused = FALSE, !.graceful = TRUE]
    BY <1>1 DEF TakeDisconnect
  <1>3. CASE m = [n EXCEPT !.disconnect = FALSE, !.sent = a, !.written = t,
                           !.paused = FALSE, !.graceful = TRUE]
    <2>1. /\ n.sent \in Seq(1..MaxInput) /\ n.written \in Seq(1..MaxInput)
          /\ Len(n.sent) \in Nat /\ Len(n.written) \in Nat
      BY <1>1, RecordFields
    <2>2. /\ a \in Seq(1..MaxInput)
          /\ \A i \in 1..Len(a) : a[i] = i
          /\ Len(a) = Len(n.sent) + Len(n.written)
      <3> DEFINE S == 1..MaxInput
                 sent == n.sent
                 written == n.written
      <3>1. /\ \A i \in 1..Len(sent) : sent[i] = i
            /\ \A i \in 1..Len(written) : written[i] = Len(sent) + i
        BY <1>1 DEF Numbered
      <3>2. a = sent \o written /\ sent \in Seq(S) /\ written \in Seq(S)
        BY <2>1
      <3> HIDE DEF a, S, sent, written
      <3>3. /\ a \in Seq(S)
            /\ \A i \in 1..Len(a) : a[i] = i
            /\ Len(a) = Len(sent) + Len(written)
        BY <3>1, <3>2, AllMoved
      <3> QED
        BY <3>3 DEF S, sent, written
    <2>3. t \in Seq(1..MaxInput) /\ Len(t) = 0
      OBVIOUS
    <2>4. t = <<>>
      OBVIOUS
    <2> HIDE DEF a, t
    <2>5. m \in Record
      BY <1>1, <1>3, <2>2, <2>3, ZenonT(60) DEF Record
    <2>6. /\ m.transport = n.transport /\ m.handed = n.handed /\ m.phase = "running"
          /\ ~m.disconnect
      BY <1>1, <1>3 DEF Record
    <2>7. m.sent = a /\ m.written = t
      BY <1>1, <1>3 DEF Record
    <2>8. /\ Numbered(m)
          /\ Len(m.sent) + Len(m.written) = Len(n.sent) + Len(n.written)
          /\ Len(m.written) <= Len(n.written)
      <3>1. \A i \in 1..Len(m.written) : m.written[i] = Len(m.sent) + i
        BY <2>3, <2>7
      <3>2. \A i \in 1..Len(m.sent) : m.sent[i] = i
        BY <2>2, <2>7
      <3>3. Numbered(m)
        BY <3>1, <3>2 DEF Numbered
      <3>4. Len(m.sent) = Len(n.sent) + Len(n.written) /\ Len(m.written) = 0
        BY <2>2, <2>3, <2>7
      <3> QED
        BY <2>1, <3>3, <3>4
    <2> QED
      BY <1>1, <2>4, <2>5, <2>6, <2>7, <2>8, InputMoves
  <1> QED
    BY <1>2, <1>3, FailedEvolves

LEMMA LoopEvolves ==
    ASSUME NEW n, Sound(n), NEW m \in Loop(n)
    PROVE  Evolves(n, m)
  <1>1. n.phase = "running"
    BY DEF Loop
  <1>2. CASE m \in HandOutput(n)
    BY <1>1, <1>2, HandOverEvolves DEF HandOutput
  <1> QED
    BY <1>1, <1>2, ReportConnectedEvolves, TakeInputEvolves, TakeDisconnectEvolves,
       TaskEndedEvolves DEF Loop

LEMMA FinishEvolves ==
    ASSUME NEW n, Sound(n), NEW m \in Finish(n)
    PROVE  Evolves(n, m)
  <1> DEFINE o == IF n.failing THEN TellControl(n, "error") ELSE n
             event == IF n.failing THEN "failure" ELSE "close"
  <1>1. /\ n \in Record /\ HasRoom(n)
        /\ n.phase = "stopping" \/ (n.phase = "draining" /\ n.handed = n.produced)
    BY DEF Sound, Finish
  <1>2. m = Gone(Tell(o, event))
    BY DEF Finish
  <1>3. /\ o \in Record /\ o.written = n.written /\ o.sent = n.sent
        /\ o.graceful = n.graceful /\ o.transport = n.transport
        /\ o.handed = n.handed /\ o.produced = n.produced
    BY <1>1, TellControlFields DEF ControlEvent
  <1>4. event \in End /\ (event = "close" => n.handed = n.produced)
    BY <1>1 DEF End, Sound, SessionInv, EndInv
  <1> HIDE DEF o, event
  <1>5. n.phase # "ended"
    BY <1>1
  <1> QED
    BY <1>1, <1>2, <1>3, <1>4, <1>5, EndsWith

LEMMA NativeStepEvolves ==
    ASSUME NEW n, Sound(n), NEW m \in Steps(n)
    PROVE  Evolves(n, m)
  <1>1. CASE m \in Drain(n)
    BY <1>1, HandOverEvolves DEF Drain
  <1> QED
    BY <1>1, ConnectEvolves, LoopEvolves, FinishEvolves DEF Steps

-----------------------------------------------------------------------------
(* The library.                                                             *)

LEMMA PeerEvolves ==
    ASSUME NEW n, Sound(n), NEW m \in BecomeActive(n) \cup ReachabilityChanges(n)
    PROVE  Evolves(n, m)
  <1>1. n \in Record /\ n.phase = "running" /\ HasRoom(n) /\ n.handed \in Nat
    BY RecordFields, Unfold DEF Sound, BecomeActive, ReachabilityChanges
  <1>2. PICK event \in {"responsive", "interrupted"}, active \in BOOLEAN :
           m = [Tell(n, event) EXCEPT !.active = active, !.reach = event]
    <2>1. CASE m \in BecomeActive(n)
      BY <2>1 DEF BecomeActive
    <2>2. CASE m \in ReachabilityChanges(n)
      <3> DEFINE event == IF n.reach = "responsive" THEN "interrupted" ELSE "responsive"
                 t == Tell(n, event)
      <3>1. event \in {"responsive", "interrupted"} /\ event \in TransportEvent
        BY DEF TransportEvent, Reachability
      <3>2. m = [t EXCEPT !.reach = event] /\ n.active
        BY <2>2 DEF ReachabilityChanges
      <3> HIDE DEF event
      <3>3. t \in Record /\ t.active
        BY <1>1, <3>1, <3>2, TellFields
      <3> HIDE DEF t
      <3>4. [t EXCEPT !.reach = event] = [t EXCEPT !.active = TRUE, !.reach = event]
        BY <3>3 DEF Record
      <3> QED
        BY <3>1, <3>2, <3>4 DEF t
    <2> QED
      BY <2>1, <2>2
  <1> DEFINE t == Tell(n, event)
  <1>3. event \in TransportEvent \ End /\ event # "data" /\ event \in Reachability
    BY DEF TransportEvent, Reachability, End
  <1>4. /\ t \in Record /\ t.handed = n.handed /\ t.phase = n.phase
        /\ t.written = n.written /\ t.sent = n.sent /\ t.graceful = n.graceful
        /\ t.disconnect = n.disconnect /\ t.transport = Tell(n, event).transport
    BY <1>1, <1>3, TellFields
  <1>5. m = [t EXCEPT !.active = active, !.reach = event]
    BY <1>2
  <1> HIDE DEF t
  <1>6. m \in Record
    BY <1>3, <1>4, <1>5 DEF Record
  <1>7. /\ m.transport = Tell(n, event).transport /\ m.handed = n.handed
        /\ m.written = n.written /\ m.sent = n.sent /\ m.graceful = n.graceful
        /\ m.disconnect = n.disconnect /\ m.phase = n.phase
    BY <1>4, <1>5 DEF Record
  <1>8. m.handed = n.handed + (IF event = "data" THEN 1 ELSE 0)
    BY <1>1, <1>3, <1>7
  <1> QED
    BY <1>1, <1>3, <1>6, <1>7, <1>8, TellEvolves

LEMMA ProduceEvolves ==
    ASSUME NEW n, Sound(n), NEW m \in Produce(n)
    PROVE  Evolves(n, m)
  <1> DEFINE k == n.produced + 1
  <1>1. n \in Record /\ n.phase = "running" /\ n.produced < MaxOutput
    BY DEF Sound, Produce
  <1>2. k \in 0..MaxOutput
    BY <1>1, RecordFields, Unfold
  <1>3. m = [n EXCEPT !.produced = k]
    BY DEF Produce
  <1> HIDE DEF k
  <1>4. m \in Record
    BY <1>1, <1>2, <1>3 DEF Record
  <1>5. /\ m.transport = n.transport /\ m.handed = n.handed
        /\ m.written = n.written /\ m.sent = n.sent /\ m.graceful = n.graceful
        /\ m.disconnect = n.disconnect /\ m.phase = "running"
    BY <1>1, <1>3 DEF Record
  <1> QED
    BY <1>1, <1>4, <1>5, GoesOnSilently

LEMMA TaskEndsEvolves ==
    ASSUME NEW n, Sound(n), NEW m \in TaskEnds(n)
    PROVE  Evolves(n, m)
  <1>1. n \in Record /\ n.phase = "running"
    BY DEF Sound, TaskEnds
  <1>2. PICK r \in {"failed", "closed"} : m = [n EXCEPT !.result = r]
    BY DEF TaskEnds
  <1>3. m \in Record
    BY <1>1, <1>2 DEF Record
  <1>4. /\ m.transport = n.transport /\ m.handed = n.handed
        /\ m.written = n.written /\ m.sent = n.sent /\ m.graceful = n.graceful
        /\ m.disconnect = n.disconnect /\ m.phase = "running"
    BY <1>1, <1>2 DEF Record
  <1> QED
    BY <1>1, <1>3, <1>4, GoesOnSilently

LEMMA LibraryEvolves ==
    ASSUME NEW n, Sound(n),
           NEW m \in BecomeActive(n) \cup ReachabilityChanges(n) \cup Produce(n) \cup TaskEnds(n)
    PROVE  Evolves(n, m)
  BY PeerEvolves, ProduceEvolves, TaskEndsEvolves

-----------------------------------------------------------------------------
(* A session beside its client, and the pane.                               *)

Pair(p, s, n, c) ==
    /\ Sound(n) /\ c \in ClientRecord
    /\ TypingInv(n, c) /\ ToldInv(n, c)
    /\ p.client = s /\ p.accepting => Heard(n, c)

Good(p) == p \in PaneRecord /\ PromptInv(p)

\* q listens to no session p did not listen to.
HearsNoMore(p, q) == q.accepting => q.client = NoneYet \/ (p.accepting /\ p.client = q.client)

LEMMA Unfolded ==
    ASSUME IInv
    PROVE  /\ native \in [Session -> Record] /\ clients \in [Session -> ClientRecord]
           /\ Good(pane)
           /\ \A s \in Session : Pair(pane, s, native[s], clients[s])
  BY DEF IInv, TypeOK, SessionsInv, Good, Pair, Sound, Fits

LEMMA Folded ==
    ASSUME native' \in [Session -> Record], clients' \in [Session -> ClientRecord], Good(pane'),
           \A s \in Session : Pair(pane', s, native'[s], clients'[s])
    PROVE  IInv'
  BY DEF IInv, TypeOK, SessionsInv, Good, Pair, Sound, Fits

\* One session and its client change, and the pane.
LEMMA OneSession ==
    ASSUME IInv, NEW s \in Session, NEW n, NEW c,
           native' = [native EXCEPT ![s] = n], clients' = [clients EXCEPT ![s] = c],
           Good(pane'), Pair(pane', s, n, c),
           \A t \in Session \ {s} :
               pane'.client = t /\ pane'.accepting => pane.client = t /\ pane.accepting
    PROVE  IInv'
  <1>1. n \in Record /\ c \in ClientRecord
    BY DEF Pair, Sound
  <1>2. native' \in [Session -> Record] /\ clients' \in [Session -> ClientRecord]
    BY <1>1, Unfolded
  <1>3. ASSUME NEW t \in Session PROVE Pair(pane', t, native'[t], clients'[t])
    <2>1. CASE t = s
      BY <2>1, Unfolded
    <2>2. CASE t # s
      <3>1. native'[t] = native[t] /\ clients'[t] = clients[t] /\ Pair(pane, t, native[t], clients[t])
        BY <2>2, Unfolded
      <3>2. pane'.client = t /\ pane'.accepting => pane.client = t /\ pane.accepting
        BY <2>2
      <3> QED
        BY <3>1, <3>2 DEF Pair
    <2> QED
      BY <2>1, <2>2
  <1> QED
    BY <1>2, <1>3, Folded

LEMMA PaneOnly ==
    ASSUME IInv, UNCHANGED <<native, clients>>, Good(pane'), HearsNoMore(pane, pane')
    PROVE  IInv'
  <1>1. ASSUME NEW t \in Session PROVE Pair(pane', t, native'[t], clients'[t])
    <2>1. Pair(pane, t, native[t], clients[t]) /\ t # NoneYet
      BY Unfolded, Unfold
    <2> QED
      BY <2>1 DEF Pair, HearsNoMore
  <1> QED
    BY <1>1, Unfolded, Folded

\* What the pane hears of s besides, when it hears no more of others.
LEMMA OneSessionHeard ==
    ASSUME IInv, NEW s \in Session, NEW n, NEW c,
           native' = [native EXCEPT ![s] = n], clients' = [clients EXCEPT ![s] = c],
           Good(pane'), HearsNoMore(pane, pane'), Pair(pane', s, n, c)
    PROVE  IInv'
  <1>1. \A t \in Session \ {s} :
            pane'.client = t /\ pane'.accepting => pane.client = t /\ pane.accepting
    BY Unfold DEF HearsNoMore
  <1> QED
    BY <1>1, OneSession

LEMMA PairHearsNoMore ==
    ASSUME NEW p, NEW q, NEW s \in Session, NEW n, NEW c, Pair(p, s, n, c), HearsNoMore(p, q)
    PROVE  Pair(q, s, n, c)
  BY Unfold DEF Pair, HearsNoMore

LEMMA PairEvolves ==
    ASSUME NEW p, NEW s, NEW n, NEW c, Pair(p, s, n, c), NEW m, Evolves(n, m)
    PROVE  Pair(p, s, m, c)
  <1>1. n \in Record /\ Sound(m) /\ m \in Record
    BY DEF Pair, Sound, Evolves
  <1>2. TypingInv(m, c)
    BY DEF Pair, TypingInv, Evolves
  <1>3. ToldInv(m, c)
    BY DEF Pair, ToldInv, Evolves
  <1>4. Heard(n, c) => Heard(m, c)
    <2>1. /\ n.handed \in Nat /\ m.handed \in Nat /\ c.shown \in Nat
          /\ Underway(n) \in Nat /\ Underway(m) \in Nat
      BY <1>1, RecordFields, Unfold DEF Pair, ClientRecord
    <2>2. m.handed + Underway(n) = n.handed + Underway(m)
      BY DEF Evolves
    <2>3. c.shown + Underway(n) = n.handed => c.shown + Underway(m) = m.handed
      BY <2>1, <2>2
    <2> QED
      BY <2>3 DEF Heard
  <1> QED
    BY <1>1, <1>2, <1>3, <1>4 DEF Pair

LEMMA SessionSteps ==
    ASSUME IInv, NEW s \in Session, UNCHANGED <<clients, pane>>,
           NEW m, Evolves(native[s], m), native' = [native EXCEPT ![s] = m]
    PROVE  IInv'
  <1>1. clients' = [clients EXCEPT ![s] = clients[s]] /\ Good(pane') /\ HearsNoMore(pane, pane')
    BY Unfolded DEF HearsNoMore
  <1>2. Pair(pane', s, m, clients[s])
    BY Unfolded, PairEvolves
  <1> QED
    BY <1>1, <1>2, OneSessionHeard

-----------------------------------------------------------------------------
(* The session when it is asked to close, told to pause or read from.       *)

LEMMA SignalledSound ==
    ASSUME NEW n, Sound(n)
    PROVE  /\ Sound(Signalled(n))
           /\ Signalled(n).sent = n.sent /\ Signalled(n).written = n.written
           /\ Signalled(n).phase = n.phase /\ Signalled(n).graceful = n.graceful
           /\ Signalled(n).handed = n.handed /\ Signalled(n).produced = n.produced
           /\ Signalled(n).transport = n.transport
  <1> DEFINE m == [n EXCEPT !.disconnect = TRUE]
  <1>1. n \in Record
    BY DEF Sound
  <1>2. m \in Record
    BY <1>1 DEF Record
  <1>3. /\ m.sent = n.sent /\ m.written = n.written /\ m.phase = n.phase
        /\ m.graceful = n.graceful /\ m.handed = n.handed /\ m.produced = n.produced
        /\ m.transport = n.transport /\ m.failing = n.failing
    BY <1>1 DEF Record
  <1>4. Signalled(n) = m \/ Signalled(n) = n
    BY DEF Signalled
  <1> HIDE DEF m
  <1>5. Sound(m)
    BY <1>2, <1>3 DEF Sound, Fits, SessionInv, Numbered, EndInv
  <1> QED
    BY <1>3, <1>4, <1>5

LEMMA PausedEvolves ==
    ASSUME NEW n, Sound(n), NEW value \in BOOLEAN
    PROVE  Evolves(n, OutputPaused(n, value))
  <1>1. n \in Record
    BY DEF Sound
  <1>2. Evolves(n, n)
    BY <1>1, RecordFields DEF Evolves
  <1>3. CASE n.phase = "running"
    <2> DEFINE m == [n EXCEPT !.paused = value]
    <2>1. m \in Record
      BY <1>1 DEF Record
    <2>2. /\ m.transport = n.transport /\ m.handed = n.handed
          /\ m.written = n.written /\ m.sent = n.sent /\ m.graceful = n.graceful
          /\ m.disconnect = n.disconnect /\ m.phase = n.phase
      BY <1>1 DEF Record
    <2> HIDE DEF m
    <2>3. Evolves(n, m)
      BY <1>3, <2>1, <2>2, GoesOnSilently
    <2>4. OutputPaused(n, value) \in {n, Failed(n), m}
      BY DEF OutputPaused, m
    <2> QED
      BY <1>2, <1>3, <2>3, <2>4, FailedEvolves
  <1>4. CASE n.phase # "running"
    BY <1>2, <1>4 DEF OutputPaused
  <1> QED
    BY <1>3, <1>4

\* An event is taken from either queue.
LEMMA TransportTaken ==
    ASSUME NEW n, Sound(n), n.transport # <<>>, NEW m, m = [n EXCEPT !.transport = Tail(@)]
    PROVE  /\ Sound(m)
           /\ m.sent = n.sent /\ m.written = n.written /\ m.phase = n.phase
           /\ m.graceful = n.graceful /\ m.disconnect = n.disconnect
           /\ m.handed = n.handed /\ m.produced = n.produced
           /\ Underway(n) = Underway(m) + (IF Head(n.transport) = "data" THEN 1 ELSE 0)
           /\ Head(n.transport) \in End =>
                n.phase = "ended" /\ Underway(m) = 0
           /\ Head(n.transport) = "close" => n.handed = n.produced
  <1> DEFINE q == Tail(n.transport)
  <1>1. n \in Record /\ n.transport \in Seq(TransportEvent)
    BY RecordFields DEF Sound
  <1>2. /\ q \in Seq(TransportEvent) /\ Len(q) \in Nat /\ Len(n.transport) = Len(q) + 1
        /\ \A i \in 1..Len(q) : q[i] = n.transport[i + 1]
        /\ Head(n.transport) = n.transport[1]
    BY <1>1
  <1>3. Cardinality(DataAt(n.transport))
          = Cardinality(DataAt(q)) + (IF Head(n.transport) = "data" THEN 1 ELSE 0)
    BY <1>1, DataTaken
  <1>4. m = [n EXCEPT !.transport = q]
    OBVIOUS
  <1> HIDE DEF q
  <1>5. m \in Record
    BY <1>1, <1>2, <1>4 DEF Record
  <1>6. /\ m.sent = n.sent /\ m.written = n.written /\ m.phase = n.phase
        /\ m.graceful = n.graceful /\ m.disconnect = n.disconnect
        /\ m.handed = n.handed /\ m.produced = n.produced /\ m.failing = n.failing
        /\ m.transport = q
    BY <1>1, <1>4 DEF Record
  <1>7. EndInv(m)
    <2>1. m.phase = "stopping" => m.failing
      BY <1>6 DEF Sound, SessionInv, EndInv
    <2>2. ASSUME NEW i \in 1..Len(q), q[i] \in End
          PROVE  n.phase = "ended" /\ i = Len(q) /\ (q[i] = "close" => n.handed = n.produced)
      <3>1. i + 1 \in 1..Len(n.transport) /\ n.transport[i + 1] \in End
            /\ q[i] = n.transport[i + 1]
        BY <1>2, <2>2
      <3>2. n.phase = "ended" /\ i + 1 = Len(n.transport)
            /\ (n.transport[i + 1] = "close" => n.handed = n.produced)
        BY <3>1 DEF Sound, SessionInv, EndInv
      <3> QED
        BY <1>2, <3>1, <3>2
    <2>3. \A i \in 1..Len(q) : q[i] = "close" => q[i] \in End
      BY DEF End
    <2> QED
      BY <1>6, <2>1, <2>2, <2>3 DEF EndInv
  <1>8. Sound(m)
    BY <1>2, <1>5, <1>6, <1>7, Unfold DEF Sound, Fits, SessionInv, Numbered
  <1>9. 1 \in 1..Len(n.transport)
    BY <1>2
  <1>10. Head(n.transport) \in End => n.phase = "ended" /\ Len(q) = 0
    BY <1>2, <1>9 DEF Sound, SessionInv, EndInv
  <1>11. Head(n.transport) = "close" => n.handed = n.produced
    BY <1>2, <1>9 DEF Sound, SessionInv, EndInv
  <1>12. Len(q) = 0 => Cardinality(DataAt(q)) = 0
    <2>1. Len(q) = 0 => DataAt(q) = {}
      BY DEF DataAt
    <2> QED
      BY <2>1, FS_EmptySet
  <1> QED
    BY <1>3, <1>6, <1>8, <1>10, <1>11, <1>12 DEF Underway

LEMMA ControlTaken ==
    ASSUME NEW n, Sound(n), n.control # <<>>, NEW m, m = [n EXCEPT !.control = Tail(@)]
    PROVE  Evolves(n, m)
  <1> DEFINE q == Tail(n.control)
  <1>1. n \in Record /\ n.control \in Seq(ControlEvent)
    BY RecordFields DEF Sound
  <1>2. q \in Seq(ControlEvent)
    BY <1>1
  <1>3. m = [n EXCEPT !.control = q]
    OBVIOUS
  <1> HIDE DEF q
  <1>4. m \in Record
    BY <1>1, <1>2, <1>3 DEF Record
  <1>5. /\ m.sent = n.sent /\ m.written = n.written /\ m.phase = n.phase
        /\ m.graceful = n.graceful /\ m.disconnect = n.disconnect
        /\ m.handed = n.handed /\ m.produced = n.produced /\ m.failing = n.failing
        /\ m.transport = n.transport
    BY <1>1, <1>3 DEF Record
  <1>6. Sound(m)
    BY <1>4, <1>5 DEF Sound, Fits, SessionInv, Numbered, EndInv
  <1> QED
    BY <1>5, <1>6 DEF Evolves, Underway

-----------------------------------------------------------------------------
(* What the pane makes of it.                                               *)

LEMMA PaneFields ==
    ASSUME NEW p \in PaneRecord
    PROVE  /\ p.mode \in {"IDLE", "CONNECTING", "CONNECTED"}
           /\ p.state \in {"CONNECTING", "CONNECTED", "INTERRUPTED", "DISCONNECTED", "FAILED"}
           /\ p.client \in {NoneYet} \cup Session /\ p.begun \in {NoneYet} \cup Session
           /\ p.accepting \in BOOLEAN /\ p.page \in BOOLEAN /\ p.reach \in Reachability
           /\ p.resetPending \in BOOLEAN /\ p.resetting \in BOOLEAN
           /\ p.terminalFailed \in BOOLEAN
           /\ p.calls \in [Caller -> {"none", "session", "reset", "done"}]
  BY DEF PaneRecord

\* The page ends where there is no client any more.
LEMMA PageEnds ==
    ASSUME NEW p \in PaneRecord, p.mode = "IDLE", p.client = NoneYet
    PROVE  /\ Good(FinishPage(p)) /\ ~FinishPage(p).accepting
           /\ FinishPage(p).client = NoneYet /\ FinishPage(p).calls = p.calls
  <1> DEFINE r == ~p.terminalFailed
             q == [p EXCEPT !.accepting = FALSE, !.page = FALSE,
                            !.resetPending = TRUE, !.resetting = r]
  <1>1. r \in BOOLEAN
    OBVIOUS
  <1>2. FinishPage(p) = q
    BY DEF FinishPage
  <1> HIDE DEF r
  <1>3. q \in PaneRecord
    BY <1>1 DEF PaneRecord
  <1>4. /\ ~q.accepting /\ ~q.page /\ q.mode = "IDLE" /\ q.client = NoneYet
        /\ q.calls = p.calls
    BY DEF PaneRecord
  <1> HIDE DEF q
  <1> QED
    BY <1>2, <1>3, <1>4 DEF Good, PromptInv

States == {"CONNECTING", "CONNECTED", "INTERRUPTED", "DISCONNECTED", "FAILED"}

LEMMA ReleaseFields ==
    ASSUME NEW p \in PaneRecord, NEW state \in States
    PROVE  /\ [Release(p) EXCEPT !.mode = "IDLE"] \in PaneRecord
           /\ [Release(p) EXCEPT !.mode = "IDLE"].mode = "IDLE"
           /\ [Release(p) EXCEPT !.mode = "IDLE"].client = NoneYet
           /\ [Release(p) EXCEPT !.mode = "IDLE", !.state = state] \in PaneRecord
           /\ [Release(p) EXCEPT !.mode = "IDLE", !.state = state].mode = "IDLE"
           /\ [Release(p) EXCEPT !.mode = "IDLE", !.state = state].client = NoneYet
  <1> DEFINE r == Release(p)
  <1>1. r \in PaneRecord
    BY DEF Release, PaneRecord, Reachability
  <1>2. r.client = NoneYet
    BY DEF Release, PaneRecord
  <1> HIDE DEF r
  <1>3. [r EXCEPT !.mode = "IDLE"] \in PaneRecord
    BY <1>1 DEF PaneRecord
  <1>4. [r EXCEPT !.mode = "IDLE", !.state = state] \in PaneRecord
    BY <1>1 DEF PaneRecord, States
  <1>5. /\ [r EXCEPT !.mode = "IDLE"].mode = "IDLE"
        /\ [r EXCEPT !.mode = "IDLE"].client = NoneYet
        /\ [r EXCEPT !.mode = "IDLE", !.state = state].mode = "IDLE"
        /\ [r EXCEPT !.mode = "IDLE", !.state = state].client = NoneYet
    BY <1>1, <1>2 DEF PaneRecord
  <1> QED
    BY <1>3, <1>4, <1>5 DEF r

LEMMA Released ==
    ASSUME NEW p \in PaneRecord, NEW state \in States,
           NEW q \in {FinishPage([Release(p) EXCEPT !.mode = "IDLE"]),
                      FinishPage([Release(p) EXCEPT !.mode = "IDLE", !.state = state])}
    PROVE  Good(q) /\ ~q.accepting /\ q.client = NoneYet
  <1> DEFINE r == [Release(p) EXCEPT !.mode = "IDLE"]
             t == [Release(p) EXCEPT !.mode = "IDLE", !.state = state]
  <1>1. /\ r \in PaneRecord /\ r.mode = "IDLE" /\ r.client = NoneYet
        /\ t \in PaneRecord /\ t.mode = "IDLE" /\ t.client = NoneYet
    BY ReleaseFields
  <1>2. q = FinishPage(r) \/ q = FinishPage(t)
    OBVIOUS
  <1> HIDE DEF r, t
  <1> QED
    BY <1>1, <1>2, PageEnds

LEMMA EndedGood ==
    ASSUME NEW p, Good(p)
    PROVE  Good(Ended(p)) /\ HearsNoMore(p, Ended(p)) /\ ~Ended(p).accepting
  <1>1. p \in PaneRecord /\ "FAILED" \in States
    BY DEF Good, States
  <1>2. CASE p.accepting
    <2>1. Ended(p) = FinishPage([Release(p) EXCEPT !.mode = "IDLE"])
      BY <1>2 DEF Ended
    <2> QED
      BY <1>1, <2>1, Released DEF HearsNoMore
  <1>3. CASE ~p.accepting
    BY <1>3 DEF Ended, HearsNoMore
  <1> QED
    BY <1>2, <1>3

\* Who waits changes, nothing else.
LEMMA CallsChange ==
    ASSUME NEW p, Good(p), NEW calls \in [Caller -> {"none", "session", "reset", "done"}],
           NEW q, q = [p EXCEPT !.calls = calls]
    PROVE  Good(q) /\ q.accepting = p.accepting /\ q.client = p.client
  <1>1. p \in PaneRecord
    BY DEF Good
  <1>2. q \in PaneRecord
    BY <1>1 DEF PaneRecord
  <1>3. /\ q.accepting = p.accepting /\ q.client = p.client
        /\ q.mode = p.mode /\ q.page = p.page
    BY <1>1 DEF PaneRecord
  <1> QED
    BY <1>2, <1>3 DEF Good, PromptInv

LEMMA ResumedGood ==
    ASSUME NEW p, Good(p), NEW s \in Session, NEW served \in SUBSET Caller
    PROVE  /\ Good(Resumed(p, s, served)) /\ HearsNoMore(p, Resumed(p, s, served))
           /\ ~p.accepting => ~Resumed(p, s, served).accepting
           /\ Resumed(p, s, served).client \in {p.client, NoneYet}
  <1> DEFINE released == IF served # {} /\ p.client = s
                         THEN FinishPage([Release(p) EXCEPT !.mode = "IDLE",
                                                            !.state = "DISCONNECTED"])
                         ELSE p
             next == IF released.resetPending /\ ~released.terminalFailed THEN "reset" ELSE "done"
             calls == [c \in Caller |-> IF c \in served THEN next ELSE released.calls[c]]
             q == [released EXCEPT !.calls = calls]
  <1>1. p \in PaneRecord /\ "DISCONNECTED" \in States
    BY DEF Good, States
  <1>2. /\ Good(released)
        /\ released.accepting => p.accepting /\ released.client = p.client
        /\ released.client \in {p.client, NoneYet}
    BY <1>1, Released
  <1>3. next \in {"reset", "done"}
    OBVIOUS
  <1>4. Resumed(p, s, served) = q
    BY DEF Resumed
  <1> HIDE DEF released, next
  <1>5. calls \in [Caller -> {"none", "session", "reset", "done"}]
    BY <1>2, <1>3, PaneFields DEF Good
  <1> HIDE DEF calls
  <1>6. Good(q) /\ q.accepting = released.accepting /\ q.client = released.client
    BY <1>2, <1>5, CallsChange
  <1> HIDE DEF q
  <1> QED
    BY <1>2, <1>4, <1>6 DEF HearsNoMore

LEMMA ReachedGood ==
    ASSUME NEW p, Good(p), NEW reach \in Reachability
    PROVE  /\ Good(Reached(p, reach)) /\ Reached(p, reach).accepting = p.accepting
           /\ Reached(p, reach).client = p.client
  <1>1. p \in PaneRecord
    BY DEF Good
  <1>2. PICK state \in States : Reached(p, reach) = [p EXCEPT !.reach = reach, !.state = state]
    <2>1. [p EXCEPT !.reach = reach] = [p EXCEPT !.reach = reach, !.state = p.state]
      BY <1>1 DEF PaneRecord
    <2>2. p.state \in States
      BY <1>1 DEF PaneRecord, States
    <2>3. "INTERRUPTED" \in States /\ "CONNECTED" \in States
      BY DEF States
    <2> QED
      BY <2>1, <2>2, <2>3 DEF Reached
  <1> DEFINE q == [p EXCEPT !.reach = reach, !.state = state]
  <1>3. q \in PaneRecord
    BY <1>1 DEF PaneRecord, States
  <1>4. /\ q.accepting = p.accepting /\ q.client = p.client
        /\ q.mode = p.mode /\ q.page = p.page
    BY <1>1 DEF PaneRecord
  <1> HIDE DEF q
  <1>5. Good(q)
    BY <1>3, <1>4 DEF Good, PromptInv
  <1> QED
    BY <1>2, <1>4, <1>5 DEF q

-----------------------------------------------------------------------------
(* The client.                                                              *)

LEMMA ClientFields ==
    ASSUME NEW c \in ClientRecord
    PROVE  /\ c.open \in BOOLEAN /\ c.connected \in BOOLEAN /\ c.disconnecting \in BOOLEAN
           /\ c.served \in SUBSET Caller /\ c.inputError \in BOOLEAN
           /\ c.typed \in 0..MaxInput /\ c.shown \in 0..MaxOutput
           /\ c.ending \in {None, "closed", "rejected", "failed"}
  BY DEF ClientRecord

LEMMA NoClientTyped == NoClient \in ClientRecord
  <1>1. 0 \in 0..MaxInput /\ 0 \in 0..MaxOutput
    BY Unfold
  <1>2. {} \in SUBSET Caller
    OBVIOUS
  <1> QED
    BY <1>1, <1>2 DEF NoClient, ClientRecord

LEMMA DisconnectingFields ==
    ASSUME NEW c \in ClientRecord, NEW callers \in SUBSET Caller
    PROVE  /\ Disconnecting(c, callers) \in ClientRecord
           /\ Disconnecting(c, callers).open = c.open
           /\ Disconnecting(c, callers).shown = c.shown
           /\ Disconnecting(c, callers).ending = c.ending
           /\ c.open => /\ Disconnecting(c, callers).disconnecting
                        /\ ~Disconnecting(c, callers).connected
           /\ ~c.open => Disconnecting(c, callers) = c
  <1> DEFINE v == c.served \cup callers
             d == [c EXCEPT !.disconnecting = TRUE, !.connected = FALSE, !.served = v]
  <1>1. v \in SUBSET Caller
    BY ClientFields
  <1>2. Disconnecting(c, callers) = IF c.open THEN d ELSE c
    BY DEF Disconnecting
  <1> HIDE DEF v
  <1>3. d \in ClientRecord
    BY <1>1 DEF ClientRecord
  <1>4. /\ d.open = c.open /\ d.shown = c.shown /\ d.ending = c.ending
        /\ d.disconnecting /\ ~d.connected
    BY DEF ClientRecord
  <1> HIDE DEF d
  <1> QED
    BY <1>2, <1>3, <1>4

LEMMA ClearedFields ==
    ASSUME NEW c \in ClientRecord, NEW ending \in {None, "closed", "rejected", "failed"}
    PROVE  /\ Cleared(c, ending) \in ClientRecord
           /\ ~Cleared(c, ending).open /\ ~Cleared(c, ending).connected
           /\ Cleared(c, ending).shown = c.shown /\ Cleared(c, ending).ending = ending
  <1> DEFINE v == {}
             d == [c EXCEPT !.open = FALSE, !.connected = FALSE, !.disconnecting = FALSE,
                            !.served = v, !.inputError = FALSE, !.ending = ending]
  <1>1. v \in SUBSET Caller /\ Cleared(c, ending) = d
    BY DEF Cleared
  <1> HIDE DEF v
  <1>2. d \in ClientRecord
    BY <1>1 DEF ClientRecord
  <1>3. ~d.open /\ ~d.connected /\ d.shown = c.shown /\ d.ending = ending
    BY DEF ClientRecord
  <1> HIDE DEF d
  <1> QED
    BY <1>1, <1>2, <1>3

-----------------------------------------------------------------------------
(* One lemma per action.                                                    *)

LEMMA AskedToClose ==
    ASSUME NEW p, NEW s, NEW n, NEW c, Pair(p, s, n, c), NEW callers \in SUBSET Caller,
           NEW m, m = IF c.open /\ ~c.disconnecting THEN Signalled(n) ELSE n
    PROVE  Pair(p, s, m, Disconnecting(c, callers))
  <1> DEFINE d == Disconnecting(c, callers)
  <1>1. Sound(n) /\ c \in ClientRecord
    BY DEF Pair
  <1>2. /\ d \in ClientRecord /\ d.open = c.open /\ d.shown = c.shown /\ d.ending = c.ending
        /\ c.open => d.disconnecting /\ ~d.connected
        /\ ~c.open => d = c
    BY <1>1, DisconnectingFields
  <1>3. /\ Sound(m) /\ m.phase = n.phase
        /\ m.handed = n.handed /\ m.produced = n.produced /\ m.transport = n.transport
        /\ ~c.open => m = n
    BY <1>1, SignalledSound
  <1> HIDE DEF d
  <1>4. TypingInv(m, d)
    BY <1>2, <1>3 DEF Pair, TypingInv
  <1>5. ToldInv(m, d)
    BY <1>2, <1>3 DEF Pair, ToldInv
  <1>6. Heard(n, c) => Heard(m, d)
    BY <1>2, <1>3 DEF Heard, Underway
  <1>7. Pair(p, s, m, d)
    BY <1>2, <1>3, <1>4, <1>5, <1>6 DEF Pair
  <1> QED
    BY <1>7 DEF d

\* The part common to all that ask the session to close.
LEMMA Closing ==
    ASSUME IInv, NEW s \in Session, NEW callers \in SUBSET Caller,
           native' = Requested(s),
           clients' = [clients EXCEPT ![s] = Disconnecting(@, callers)],
           Good(pane'), HearsNoMore(pane, pane')
    PROVE  IInv'
  <1> DEFINE m == IF clients[s].open /\ ~clients[s].disconnecting
                  THEN Signalled(native[s]) ELSE native[s]
  <1>1. /\ native \in [Session -> Record] /\ clients \in [Session -> ClientRecord]
        /\ Pair(pane, s, native[s], clients[s])
    BY Unfolded
  <1>2. native' = [native EXCEPT ![s] = m]
    BY <1>1 DEF Requested
  <1>3. clients' = [clients EXCEPT ![s] = Disconnecting(clients[s], callers)]
    BY <1>1
  <1>4. m = IF clients[s].open /\ ~clients[s].disconnecting
            THEN Signalled(native[s]) ELSE native[s]
    OBVIOUS
  <1> HIDE DEF m
  <1>5. Pair(pane, s, m, Disconnecting(clients[s], callers))
    BY <1>1, <1>4, AskedToClose
  <1>6. Pair(pane', s, m, Disconnecting(clients[s], callers))
    BY <1>5, PairHearsNoMore
  <1> QED
    BY <1>2, <1>3, <1>6, OneSessionHeard

LEMMA OwnClient ==
    ASSUME Good(pane), pane.mode # "IDLE" \/ pane.client # NoneYet
    PROVE  pane.client \in Session /\ pane.client # NoneYet
  BY PaneFields DEF Good, PromptInv

LEMMA ConnectMoshInv ==
    ASSUME IInv, ConnectMosh
    PROVE  IInv'
  <1> DEFINE s == pane.begun + 1
  <1>1. /\ Good(pane) /\ pane \in PaneRecord /\ pane.mode = "IDLE" /\ s \in Session
        /\ pane.client = NoneYet
    BY Unfolded DEF ConnectMosh, Good, PromptInv
  <1> HIDE DEF s
  <1>2. CASE /\ native' = [native EXCEPT ![s] = [NoSession EXCEPT !.phase = "ssh"]]
             /\ clients' = [clients EXCEPT ![s] = [NoClient EXCEPT !.open = TRUE]]
             /\ pane' = [pane EXCEPT !.mode = "CONNECTING", !.state = "CONNECTING", !.client = s,
                                     !.begun = s, !.accepting = TRUE, !.reach = "awaiting_peer",
                                     !.resetting = FALSE]
    <2> DEFINE n == [NoSession EXCEPT !.phase = "ssh"]
               c == [NoClient EXCEPT !.open = TRUE]
    <2>1. n \in Record
      BY NoSessionTyped DEF Record, Phase
    <2>2. /\ n.phase = "ssh" /\ n.sent = <<>> /\ n.written = <<>> /\ n.transport = <<>>
          /\ ~n.graceful /\ ~n.disconnect /\ n.handed = 0
      BY NoSessionTyped DEF Record, NoSession
    <2>3. NoClient \in ClientRecord
      BY NoClientTyped
    <2>4. c \in ClientRecord
      BY <2>3 DEF ClientRecord
    <2>5. c.open /\ ~c.connected /\ ~c.disconnecting /\ c.typed = 0 /\ c.shown = 0
           /\ c.ending = None
      BY <2>3 DEF ClientRecord, NoClient
    <2> HIDE DEF n, c
    <2>6. Len(n.sent) = 0 /\ Len(n.written) = 0 /\ Len(n.transport) = 0
      BY <2>2
    <2>7. Sound(n)
      BY <2>1, <2>2, <2>6, Unfold DEF Sound, Fits, SessionInv, Numbered, EndInv
    <2>8. TypingInv(n, c) /\ ToldInv(n, c)
      BY <2>2, <2>5, <2>6, NoneAssumption DEF TypingInv, ToldInv
    <2>9. Underway(n) = 0
      <3>1. DataAt(n.transport) = {}
        BY <2>6 DEF DataAt
      <3> QED
        BY <3>1, FS_EmptySet DEF Underway
    <2>10. Heard(n, c)
      BY <2>2, <2>5, <2>9 DEF Heard
    <2>11. Pair(pane', s, n, c)
      BY <2>7, <2>4, <2>8, <2>10 DEF Pair
    <2>12. pane' \in PaneRecord
      BY <1>1, <1>2 DEF PaneRecord, Reachability
    <2>13. pane'.mode = "CONNECTING" /\ pane'.client = s
      BY <1>1, <1>2 DEF PaneRecord
    <2>14. Good(pane')
      BY <1>1, <2>12, <2>13, Unfold DEF Good, PromptInv
    <2>15. native' = [native EXCEPT ![s] = n] /\ clients' = [clients EXCEPT ![s] = c]
      BY <1>2 DEF n, c
    <2> QED
      BY <1>1, <2>11, <2>13, <2>14, <2>15, OneSession
  <1>3. CASE /\ pane' = FinishPage([pane EXCEPT !.state = "FAILED", !.begun = s])
             /\ UNCHANGED <<native, clients>>
    <2> DEFINE p == [pane EXCEPT !.state = "FAILED", !.begun = s]
    <2>1. p \in PaneRecord /\ p.mode = "IDLE" /\ p.client = NoneYet
      BY <1>1 DEF PaneRecord
    <2>2. pane' = FinishPage(p)
      BY <1>3
    <2> HIDE DEF p
    <2>3. Good(pane') /\ HearsNoMore(pane, pane')
      BY <2>1, <2>2, PageEnds DEF HearsNoMore
    <2> QED
      BY <1>3, <2>3, PaneOnly
  <1> QED
    BY <1>2, <1>3 DEF ConnectMosh, s

LEMMA CancelInv ==
    ASSUME IInv, Cancel
    PROVE  IInv'
  <1> DEFINE s == pane.client
  <1>1. Good(pane) /\ pane \in PaneRecord /\ s \in Session
    BY Unfolded, OwnClient DEF Cancel, Good
  <1>2. /\ native' = Requested(s)
        /\ clients' = [clients EXCEPT ![s] = Disconnecting(@, {})]
        /\ pane' = FinishPage([Release(pane) EXCEPT !.mode = "IDLE", !.state = "DISCONNECTED"])
    BY DEF Cancel
  <1> HIDE DEF s
  <1>3. "DISCONNECTED" \in States
    BY DEF States
  <1>4. Good(pane') /\ HearsNoMore(pane, pane')
    BY <1>1, <1>2, <1>3, Released DEF HearsNoMore
  <1>5. {} \in SUBSET Caller
    OBVIOUS
  <1> QED
    BY <1>1, <1>2, <1>4, <1>5, Closing

LEMMA EscapeDisconnectInv ==
    ASSUME IInv, EscapeDisconnect
    PROVE  IInv'
  <1> DEFINE s == pane.client
  <1>1. Good(pane) /\ s \in Session
    BY Unfolded, OwnClient DEF EscapeDisconnect
  <1>2. /\ native' = Requested(s)
        /\ clients' = [clients EXCEPT ![s] = Disconnecting(@, {})]
        /\ pane' = pane
    BY DEF EscapeDisconnect
  <1> HIDE DEF s
  <1>3. Good(pane') /\ HearsNoMore(pane, pane') /\ {} \in SUBSET Caller
    BY <1>1, <1>2 DEF HearsNoMore
  <1> QED
    BY <1>1, <1>2, <1>3, Closing

LEMMA DisconnectInv ==
    ASSUME IInv, NEW c \in Caller, Disconnect(c)
    PROVE  IInv'
  <1> DEFINE s == pane.client
  <1>1. Good(pane) /\ pane \in PaneRecord
    BY Unfolded DEF Good
  <1>2. CASE s # NoneYet /\ clients[s].open
    <2> DEFINE calls == [pane.calls EXCEPT ![c] = "session"]
    <2>1. s \in Session /\ {c} \in SUBSET Caller
      BY <1>1, <1>2, OwnClient
    <2>2. /\ native' = Requested(s)
          /\ clients' = [clients EXCEPT ![s] = Disconnecting(@, {c})]
          /\ pane' = [pane EXCEPT !.calls = calls]
      BY <1>2 DEF Disconnect
    <2>3. calls \in [Caller -> {"none", "session", "reset", "done"}]
      BY <1>1, PaneFields
    <2> HIDE DEF s, calls
    <2>4. Good(pane') /\ HearsNoMore(pane, pane')
      BY <1>1, <2>2, <2>3, CallsChange DEF HearsNoMore
    <2> QED
      BY <2>1, <2>2, <2>4, Closing
  <1>3. CASE ~(s # NoneYet /\ clients[s].open) /\ s # NoneYet
    <2>1. s \in Session /\ {c} \in SUBSET Caller
      BY <1>1, <1>3, OwnClient
    <2>2. UNCHANGED <<native, clients>> /\ pane' = Resumed(pane, s, {c})
      BY <1>3 DEF Disconnect
    <2>3. Good(pane') /\ HearsNoMore(pane, pane')
      BY <1>1, <2>1, <2>2, ResumedGood
    <2> QED
      BY <2>2, <2>3, PaneOnly
  <1>4. CASE s = NoneYet
    <2> DEFINE calls == [pane.calls EXCEPT ![c] = "done"]
    <2>1. /\ UNCHANGED <<native, clients>>
          /\ pane' = [pane EXCEPT !.calls = calls, !.accepting = FALSE,
                                  !.resetPending = FALSE, !.resetting = FALSE,
                                  !.mode = "IDLE", !.state = "DISCONNECTED"]
      BY <1>4 DEF Disconnect
    <2>2. calls \in [Caller -> {"none", "session", "reset", "done"}]
      BY <1>1, PaneFields
    <2> HIDE DEF calls
    <2>3. pane' \in PaneRecord
      BY <1>1, <2>1, <2>2 DEF PaneRecord
    <2>4. ~pane'.accepting /\ pane'.mode = "IDLE" /\ pane'.client = pane.client
          /\ pane'.page = pane.page
      BY <1>1, <2>1 DEF PaneRecord
    <2>5. Good(pane') /\ HearsNoMore(pane, pane')
      BY <1>1, <1>4, <2>3, <2>4 DEF Good, PromptInv, HearsNoMore
    <2> QED
      BY <2>1, <2>5, PaneOnly
  <1> QED
    BY <1>2, <1>3, <1>4

\* One frame more is typed.
LEMMA OneMore ==
    ASSUME NEW S, NEW written \in Seq(S), NEW before \in Nat, NEW typed \in Nat,
           NEW frame \in S, frame = typed + 1, typed = before + Len(written),
           NEW w, w = Append(written, frame),
           \A i \in 1..Len(written) : written[i] = before + i
    PROVE  /\ w \in Seq(S) /\ Len(w) = Len(written) + 1 /\ frame = before + Len(w)
           /\ \A i \in 1..Len(w) : w[i] = before + i
  <1>1. Len(written) \in Nat
    OBVIOUS
  <1>2. w \in Seq(S) /\ Len(w) = Len(written) + 1
    OBVIOUS
  <1>3. \A i \in 1..Len(written) : w[i] = written[i]
    BY <1>1
  <1>4. w[Len(written) + 1] = frame
    BY <1>1
  <1>5. frame = before + Len(w) /\ frame = before + (Len(written) + 1)
    BY <1>1, <1>2
  <1>6. \A i \in 1..Len(w) : w[i] = before + i
    <2> TAKE i \in 1..Len(w)
    <2>1. i \in 1..Len(written) \/ i = Len(written) + 1
      BY <1>1, <1>2
    <2>2. CASE i \in 1..Len(written)
      BY <1>3, <2>2
    <2>3. CASE i = Len(written) + 1
      BY <1>4, <1>5, <2>3
    <2> QED
      BY <2>1, <2>2, <2>3
  <1> QED
    BY <1>2, <1>5, <1>6

\* A frame is admitted, or refused and the session asked to close.
LEMMA TypeInv ==
    ASSUME IInv, Type
    PROVE  IInv'
  <1> DEFINE s == pane.client
             n == native[s]
             c == clients[s]
             frame == c.typed + 1
             typed == [c EXCEPT !.typed = frame]
  <1>1. /\ Good(pane) /\ s \in Session /\ pane' = pane
        /\ native \in [Session -> Record] /\ clients \in [Session -> ClientRecord]
        /\ Pair(pane, s, n, c)
    BY Unfolded, OwnClient DEF Type
  <1>2. /\ n \in Record /\ Sound(n) /\ c \in ClientRecord
        /\ c.connected /\ frame <= MaxInput
    BY <1>1 DEF Type, Pair, Sound
  <1>3. /\ c.open /\ ~c.disconnecting /\ ~n.graceful /\ ~n.disconnect
        /\ c.typed = Len(n.sent) + Len(n.written)
    BY <1>1, <1>2 DEF Pair, TypingInv
  <1>4. frame \in 1..MaxInput
    BY <1>2, ClientFields, Unfold
  <1>5. frame \in 0..MaxInput /\ frame = c.typed + 1 /\ c.typed \in Nat
    BY <1>2, <1>4, ClientFields, Unfold
  <1>6. \/ /\ Admits(n)
           /\ native' = [native EXCEPT ![s] = [n EXCEPT !.written = Append(@, frame)]]
           /\ clients' = [clients EXCEPT ![s] = typed]
        \/ /\ native' = Requested(s)
           /\ clients' = [clients EXCEPT ![s] = Rejected(typed)]
    BY DEF Type
  <1>7. typed = [c EXCEPT !.typed = frame]
    OBVIOUS
  <1> HIDE DEF frame, typed
  <1>8. typed \in ClientRecord
    BY <1>2, <1>5, <1>7 DEF ClientRecord
  <1>9. /\ typed.connected = c.connected /\ typed.open = c.open
        /\ typed.disconnecting = c.disconnecting /\ typed.typed = frame
        /\ typed.shown = c.shown /\ typed.ending = c.ending
    BY <1>2, <1>7 DEF ClientRecord
  <1>10. Good(pane') /\ HearsNoMore(pane, pane')
    BY <1>1 DEF HearsNoMore
  <1>11. CASE /\ Admits(n)
              /\ native' = [native EXCEPT ![s] = [n EXCEPT !.written = Append(@, frame)]]
              /\ clients' = [clients EXCEPT ![s] = typed]
    <2> DEFINE w == Append(n.written, frame)
               m == [n EXCEPT !.written = w]
    <2>1. n.written \in Seq(1..MaxInput) /\ Len(n.written) \in Nat /\ Len(n.sent) \in Nat
      BY <1>2, RecordFields
    <2>2. /\ w \in Seq(1..MaxInput) /\ Len(w) = Len(n.written) + 1
          /\ frame = Len(n.sent) + Len(w)
          /\ \A i \in 1..Len(w) : w[i] = Len(n.sent) + i
      <3> DEFINE S == 1..MaxInput
                 written == n.written
                 before == Len(n.sent)
                 count == c.typed
      <3>1. /\ written \in Seq(S) /\ before \in Nat /\ count \in Nat /\ frame \in S
            /\ frame = count + 1 /\ count = before + Len(written)
        BY <1>3, <1>4, <1>5, <2>1
      <3>2. \A i \in 1..Len(written) : written[i] = before + i
        BY <1>2 DEF Sound, SessionInv, Numbered
      <3>3. w = Append(written, frame)
        OBVIOUS
      <3> HIDE DEF w, S, written, before, count
      <3>4. /\ w \in Seq(S) /\ Len(w) = Len(written) + 1 /\ frame = before + Len(w)
            /\ \A i \in 1..Len(w) : w[i] = before + i
        BY <3>1, <3>2, <3>3, OneMore
      <3> QED
        BY <3>4 DEF S, written, before
    <2> HIDE DEF w
    <2>3. m \in Record
      BY <1>2, <2>2 DEF Record
    <2>4. /\ m.sent = n.sent /\ m.written = w /\ m.phase = n.phase
          /\ m.graceful = n.graceful /\ m.disconnect = n.disconnect
          /\ m.handed = n.handed /\ m.produced = n.produced /\ m.failing = n.failing
          /\ m.transport = n.transport
      BY <1>2 DEF Record
    <2>5. native' = [native EXCEPT ![s] = m]
      BY <1>11 DEF w
    <2> HIDE DEF m
    <2>7. \A i \in 1..Len(n.sent) : n.sent[i] = i
      BY <1>2 DEF Sound, SessionInv, Numbered
    <2>8. Numbered(m)
      BY <2>2, <2>4, <2>7 DEF Numbered
    <2>9. EndInv(m)
      BY <1>2, <2>4 DEF Sound, SessionInv, EndInv
    <2>10. Len(w) <= WriteQueue
      BY <1>11, <2>1, <2>2, Unfold DEF Admits
    <2>11. Fits(m)
      BY <1>2, <2>4, <2>10 DEF Sound, Fits
    <2>12. Sound(m)
      BY <1>3, <2>3, <2>4, <2>8, <2>9, <2>11 DEF Sound, SessionInv
    <2>14. TypingInv(m, typed)
      BY <1>3, <1>9, <2>2, <2>4 DEF TypingInv
    <2>15. ToldInv(m, typed)
      BY <1>1, <1>9, <2>4 DEF Pair, ToldInv
    <2>16. Heard(n, c) => Heard(m, typed)
      BY <1>9, <2>4 DEF Heard, Underway
    <2>17. Pair(pane', s, m, typed)
      BY <1>1, <1>8, <2>12, <2>14, <2>15, <2>16 DEF Pair
    <2> QED
      BY <1>1, <1>10, <1>11, <2>5, <2>17, OneSessionHeard
  <1>12. CASE /\ native' = Requested(s)
              /\ clients' = [clients EXCEPT ![s] = Rejected(typed)]
    <2> DEFINE m == Signalled(n)
               d == Disconnecting(typed, {})
               e == [d EXCEPT !.inputError = TRUE]
    <2>1. native' = [native EXCEPT ![s] = m] /\ clients' = [clients EXCEPT ![s] = e]
      BY <1>1, <1>3, <1>12 DEF Requested, Rejected
    <2>2. {} \in SUBSET Caller
      OBVIOUS
    <2>3. /\ d \in ClientRecord /\ d.open /\ d.disconnecting /\ ~d.connected
          /\ d.shown = c.shown /\ d.ending = c.ending
      BY <1>3, <1>8, <1>9, <2>2, DisconnectingFields
    <2> HIDE DEF d
    <2>4. e \in ClientRecord
      BY <2>3 DEF ClientRecord
    <2>5. /\ e.open /\ e.disconnecting /\ ~e.connected
          /\ e.shown = c.shown /\ e.ending = c.ending
      BY <2>3 DEF ClientRecord
    <2> HIDE DEF e
    <2>6. /\ Sound(m) /\ m.phase = n.phase /\ m.handed = n.handed /\ m.produced = n.produced
          /\ m.transport = n.transport
      BY <1>2, SignalledSound
    <2> HIDE DEF m
    <2>7. TypingInv(m, e)
      BY <2>5 DEF TypingInv
    <2>8. ToldInv(m, e)
      BY <1>1, <1>3, <2>5, <2>6 DEF Pair, ToldInv
    <2>9. Heard(n, c) => Heard(m, e)
      BY <1>3, <2>5, <2>6 DEF Heard, Underway
    <2>10. Pair(pane', s, m, e)
      BY <1>1, <2>4, <2>6, <2>7, <2>8, <2>9 DEF Pair
    <2> QED
      BY <1>1, <1>10, <2>1, <2>10, OneSessionHeard
  <1> QED
    BY <1>6, <1>11, <1>12

LEMMA ResetCompletesInv ==
    ASSUME IInv, ResetCompletes
    PROVE  IInv'
  <1> DEFINE calls == [c \in Caller |-> IF pane.calls[c] = "reset" THEN "done" ELSE pane.calls[c]]
  <1>1. Good(pane) /\ pane \in PaneRecord
    BY Unfolded DEF Good
  <1>2. /\ pane' = [pane EXCEPT !.resetPending = FALSE, !.resetting = FALSE, !.calls = calls]
        /\ UNCHANGED <<native, clients>>
    BY DEF ResetCompletes
  <1>3. calls \in [Caller -> {"none", "session", "reset", "done"}]
    BY <1>1, PaneFields
  <1> HIDE DEF calls
  <1>4. pane' \in PaneRecord
    BY <1>1, <1>2, <1>3 DEF PaneRecord
  <1>5. /\ pane'.accepting = pane.accepting /\ pane'.client = pane.client
        /\ pane'.mode = pane.mode /\ pane'.page = pane.page
    BY <1>1, <1>2 DEF PaneRecord
  <1>6. Good(pane') /\ HearsNoMore(pane, pane')
    BY <1>1, <1>4, <1>5 DEF Good, PromptInv, HearsNoMore
  <1> QED
    BY <1>2, <1>6, PaneOnly

LEMMA SurfaceFailsInv ==
    ASSUME IInv, SurfaceFails
    PROVE  IInv'
  <1> DEFINE s == pane.client
             calls == [c \in Caller |-> IF pane.calls[c] = "reset" THEN "done" ELSE pane.calls[c]]
  <1>1. Good(pane) /\ pane \in PaneRecord
    BY Unfolded DEF Good
  <1>2. pane' = [pane EXCEPT !.terminalFailed = TRUE, !.accepting = FALSE,
                             !.resetPending = TRUE, !.resetting = FALSE, !.calls = calls]
    BY DEF SurfaceFails
  <1>3. calls \in [Caller -> {"none", "session", "reset", "done"}]
    BY <1>1, PaneFields
  <1> HIDE DEF calls
  <1>4. pane' \in PaneRecord
    BY <1>1, <1>2, <1>3 DEF PaneRecord
  <1>5. /\ ~pane'.accepting /\ pane'.client = pane.client
        /\ pane'.mode = pane.mode /\ pane'.page = pane.page
    BY <1>1, <1>2 DEF PaneRecord
  <1>6. Good(pane') /\ HearsNoMore(pane, pane')
    BY <1>1, <1>4, <1>5 DEF Good, PromptInv, HearsNoMore
  <1>7. CASE s = NoneYet
    <2>1. UNCHANGED <<native, clients>>
      BY <1>7 DEF SurfaceFails
    <2> QED
      BY <1>6, <2>1, PaneOnly
  <1>8. CASE s # NoneYet
    <2>1. s \in Session /\ {} \in SUBSET Caller
      BY <1>1, <1>8, OwnClient
    <2>2. /\ native' = Requested(s)
          /\ clients' = [clients EXCEPT ![s] = Disconnecting(@, {})]
      BY <1>8 DEF SurfaceFails
    <2> QED
      BY <1>6, <2>1, <2>2, Closing
  <1> QED
    BY <1>7, <1>8

LEMMA PauseChangesInv ==
    ASSUME IInv, PauseChanges
    PROVE  IInv'
  <1> DEFINE s == pane.client
             value == ~native[s].paused
             m == OutputPaused(native[s], value)
  <1>1. /\ s \in Session /\ native \in [Session -> Record] /\ Sound(native[s])
    BY Unfolded, OwnClient DEF PauseChanges, Pair
  <1>2. native' = [native EXCEPT ![s] = m] /\ UNCHANGED <<clients, pane>>
    BY DEF PauseChanges
  <1>3. value \in BOOLEAN
    OBVIOUS
  <1> HIDE DEF s, value
  <1>4. Evolves(native[s], m)
    BY <1>1, <1>3, PausedEvolves
  <1> QED
    BY <1>1, <1>2, <1>4, SessionSteps

\* The client lets go of its session, whatever is left of it.
LEMMA SessionOverInv ==
    ASSUME IInv, NEW s \in Session, NEW m, Sound(m), native' = [native EXCEPT ![s] = m],
           NEW ending \in {"closed", "rejected", "failed"}, SessionOver(s, ending),
           pane.client = s /\ pane.accepting /\ ending # "failed" =>
               /\ m.phase = "ended" /\ clients[s].shown = m.handed
               /\ ending = "closed" => m.handed = m.produced
    PROVE  IInv'
  <1> DEFINE c == clients[s]
             told == IF pane.client = s /\ pane.accepting THEN ending ELSE None
             d == Cleared(c, told)
             state == IF ending = "closed" THEN "DISCONNECTED" ELSE "FAILED"
             noted == [pane EXCEPT !.state = state]
             before == IF pane.client = s THEN Ended(noted) ELSE pane
  <1>1. /\ Good(pane) /\ pane \in PaneRecord /\ c \in ClientRecord
        /\ clients \in [Session -> ClientRecord] /\ Pair(pane, s, native[s], c)
    BY Unfolded DEF Good
  <1>2. clients' = [clients EXCEPT ![s] = d] /\ pane' = Resumed(before, s, c.served)
    BY <1>1 DEF SessionOver, IsCurrent
  <1>3. told \in {None, "closed", "rejected", "failed"} /\ state \in States
    BY DEF States
  <1>4. told \in {"closed", "rejected"} =>
            /\ m.phase = "ended" /\ c.shown = m.handed
            /\ told = "closed" => m.handed = m.produced
    BY NoneAssumption
  <1> HIDE DEF told, state
  <1>5. noted \in PaneRecord
    BY <1>1, <1>3 DEF PaneRecord, States
  <1>6. /\ noted.mode = pane.mode /\ noted.client = pane.client
        /\ noted.accepting = pane.accepting /\ noted.page = pane.page
    BY <1>1 DEF PaneRecord
  <1> HIDE DEF noted
  <1>7. Good(noted) /\ HearsNoMore(pane, noted)
    BY <1>1, <1>5, <1>6 DEF Good, PromptInv, HearsNoMore
  <1>8. /\ Good(Ended(noted)) /\ ~Ended(noted).accepting
    BY <1>7, EndedGood
  <1>9. /\ Good(before) /\ HearsNoMore(pane, before)
        /\ before.client = s => ~before.accepting
    BY <1>1, <1>8, Unfold DEF HearsNoMore
  <1>10. c.served \in SUBSET Caller
    BY <1>1, ClientFields
  <1> HIDE DEF before, c
  <1>11. /\ Good(pane') /\ HearsNoMore(before, pane')
         /\ ~before.accepting => ~pane'.accepting
         /\ pane'.client \in {before.client, NoneYet}
    BY <1>2, <1>9, <1>10, ResumedGood
  <1>12. HearsNoMore(pane, pane')
    BY <1>9, <1>11 DEF HearsNoMore
  <1>13. ~(pane'.client = s /\ pane'.accepting)
    BY <1>9, <1>11, Unfold
  <1>14. /\ d \in ClientRecord /\ ~d.open /\ ~d.connected
         /\ d.shown = c.shown /\ d.ending = told
    BY <1>1, <1>3, ClearedFields
  <1> HIDE DEF d
  <1>15. TypingInv(m, d) /\ ToldInv(m, d)
    BY <1>4, <1>14 DEF TypingInv, ToldInv
  <1>16. Pair(pane', s, m, d)
    BY <1>13, <1>14, <1>15 DEF Pair
  <1> QED
    BY <1>2, <1>11, <1>12, <1>16, OneSessionHeard

\* The session m once its event is taken, for a client that stays as it is.
LEMMA EventIgnored ==
    ASSUME IInv, NEW s \in Session, NEW m, native' = [native EXCEPT ![s] = m],
           UNCHANGED clients, Good(pane'), HearsNoMore(pane, pane'),
           Pair(pane', s, m, clients[s])
    PROVE  IInv'
  <1>1. clients' = [clients EXCEPT ![s] = clients[s]]
    BY Unfolded
  <1> QED
    BY <1>1, OneSessionHeard

LEMMA TakeTransportInv ==
    ASSUME IInv, NEW s \in Session, TakeTransport(s)
    PROVE  IInv'
  <1> DEFINE n == native[s]
             c == clients[s]
             event == Head(n.transport)
             m == [n EXCEPT !.transport = Tail(@)]
  <1>1. /\ Good(pane) /\ pane \in PaneRecord
        /\ clients \in [Session -> ClientRecord] /\ c \in ClientRecord
        /\ Pair(pane, s, n, c) /\ Sound(n)
    BY Unfolded DEF Good, Pair
  <1>2. n.transport # <<>> /\ native' = [native EXCEPT ![s] = m]
    BY DEF TakeTransport
  <1>3. /\ Sound(m)
        /\ m.sent = n.sent /\ m.written = n.written /\ m.phase = n.phase
        /\ m.graceful = n.graceful /\ m.disconnect = n.disconnect
        /\ m.handed = n.handed /\ m.produced = n.produced
        /\ Underway(n) = Underway(m) + (IF event = "data" THEN 1 ELSE 0)
        /\ event \in End => n.phase = "ended" /\ Underway(m) = 0
        /\ event = "close" => n.handed = n.produced
    BY <1>1, <1>2, TransportTaken
  <1>4. event \in TransportEvent
    BY <1>1, <1>2, RecordFields DEF Sound
  <1> HIDE DEF m, event
  <1>5. /\ Underway(n) \in Nat /\ Underway(m) \in Nat /\ n.handed \in 0..MaxOutput
        /\ m.handed \in Nat /\ c.shown \in Nat
    <2>1. n \in Record /\ m \in Record
      BY <1>1, <1>3 DEF Sound
    <2>2. Underway(n) \in Nat /\ n.handed \in 0..MaxOutput
      BY <2>1, RecordFields
    <2>3. Underway(m) \in Nat /\ m.handed \in Nat
      BY <2>1, RecordFields, Unfold
    <2>4. c.shown \in Nat
      BY <1>1, ClientFields, Unfold
    <2> QED
      BY <2>2, <2>3, <2>4
  <1>6. TypingInv(m, c) /\ ToldInv(m, c)
    BY <1>1, <1>3 DEF Pair, TypingInv, ToldInv
  <1>7. pane.client = s /\ pane.accepting => c.open /\ c.shown + Underway(n) = n.handed
    BY <1>1 DEF Pair, Heard
  <1>8. event # "data" => Underway(n) = Underway(m)
    BY <1>3, <1>5
  <1>9. event # "data" => Pair(pane, s, m, c)
    BY <1>1, <1>3, <1>6, <1>7, <1>8 DEF Pair, Heard
  <1>10. CASE ~c.open
    <2>1. UNCHANGED <<clients, pane>>
      BY <1>10 DEF TakeTransport
    <2>2. Pair(pane', s, m, c)
      BY <1>1, <1>3, <1>6, <1>7, <1>10, <2>1 DEF Pair
    <2>3. Good(pane') /\ HearsNoMore(pane, pane')
      BY <1>1, <2>1 DEF HearsNoMore
    <2> QED
      BY <1>2, <2>1, <2>2, <2>3, EventIgnored
  <1>11. CASE c.open /\ event \in {"close", "failure"}
    <2>1. CloseTaken(s, event)
      BY <1>11 DEF TakeTransport, event
    <2>2. PICK ending \in {"closed", "rejected", "failed"} :
             /\ SessionOver(s, ending)
             /\ ending = "closed" => event # "failure"
      BY <2>1 DEF CloseTaken
    <2>3. event \in End /\ event # "data"
      BY <1>11 DEF End
    <2>4. pane.client = s /\ pane.accepting => c.shown = m.handed
      BY <1>3, <1>5, <1>7, <1>8, <2>3
    <2>5. m.phase = "ended" /\ (ending = "closed" => m.handed = m.produced)
      BY <1>3, <1>11, <2>2, <2>3
    <2> QED
      BY <1>2, <1>3, <2>2, <2>4, <2>5, SessionOverInv
  <1>12. CASE c.open /\ event = "data"
    <2>1. CASE pane.client = s /\ pane.accepting
      <3> DEFINE shown == c.shown + 1
                 d == [c EXCEPT !.shown = shown]
      <3>1. clients' = [clients EXCEPT ![s] = d] /\ pane' = [pane EXCEPT !.page = TRUE]
        BY <1>1, <1>12, <2>1 DEF TakeTransport, IsCurrent, event
      <3>2. shown + Underway(m) = m.handed /\ shown \in 0..MaxOutput
        BY <1>3, <1>5, <1>7, <1>12, <2>1, Unfold
      <3> HIDE DEF shown
      <3>3. d \in ClientRecord
        BY <1>1, <3>2 DEF ClientRecord
      <3>4. /\ d.open = c.open /\ d.connected = c.connected /\ d.typed = c.typed
            /\ d.disconnecting = c.disconnecting /\ d.ending = c.ending /\ d.shown = shown
        BY <1>1 DEF ClientRecord
      <3> HIDE DEF d
      <3>5. TypingInv(m, d)
        BY <1>6, <3>4 DEF TypingInv
      <3>6. ToldInv(m, d)
        BY <1>6, <1>12, <3>4 DEF ToldInv
      <3>7. Heard(m, d)
        BY <1>12, <3>2, <3>4 DEF Heard
      <3>8. pane' \in PaneRecord
        BY <1>1, <3>1 DEF PaneRecord
      <3>9. /\ pane'.accepting = pane.accepting /\ pane'.client = pane.client
            /\ pane'.mode = pane.mode
        BY <1>1, <3>1 DEF PaneRecord
      <3>10. Good(pane') /\ HearsNoMore(pane, pane')
        BY <1>1, <2>1, <3>8, <3>9 DEF Good, PromptInv, HearsNoMore
      <3>11. Pair(pane', s, m, d)
        BY <1>3, <3>3, <3>5, <3>6, <3>7 DEF Pair
      <3> QED
        BY <1>2, <3>1, <3>10, <3>11, OneSessionHeard
    <2>2. CASE ~(pane.client = s /\ pane.accepting)
      <3>1. UNCHANGED <<clients, pane>>
        BY <1>12, <2>2 DEF TakeTransport, IsCurrent, event
      <3>2. Pair(pane', s, m, c)
        BY <1>1, <1>3, <1>6, <2>2, <3>1 DEF Pair
      <3>3. Good(pane') /\ HearsNoMore(pane, pane')
        BY <1>1, <3>1 DEF HearsNoMore
      <3> QED
        BY <1>2, <3>1, <3>2, <3>3, EventIgnored
    <2> QED
      BY <2>1, <2>2
  <1>13. CASE c.open /\ event \notin {"close", "failure", "data"}
    <2>1. event \in Reachability
      BY <1>4, <1>13 DEF TransportEvent
    <2>2. /\ UNCHANGED clients
          /\ pane' = IF pane.client = s /\ pane.accepting THEN Reached(pane, event) ELSE pane
      BY <1>13 DEF TakeTransport, IsCurrent, event
    <2>3. /\ Good(pane') /\ pane'.accepting = pane.accepting /\ pane'.client = pane.client
      BY <1>1, <2>1, <2>2, ReachedGood
    <2>4. HearsNoMore(pane, pane')
      BY <2>3 DEF HearsNoMore
    <2>5. Pair(pane', s, m, c)
      BY <1>9, <1>13, <2>3 DEF Pair
    <2> QED
      BY <1>2, <2>2, <2>3, <2>4, <2>5, EventIgnored
  <1> QED
    BY <1>10, <1>11, <1>12, <1>13

LEMMA TakeControlInv ==
    ASSUME IInv, NEW s \in Session, TakeControl(s)
    PROVE  IInv'
  <1> DEFINE n == native[s]
             c == clients[s]
             m == [n EXCEPT !.control = Tail(@)]
             event == Head(n.control)
             shown == IsCurrent(s) /\ pane.state = "CONNECTING"
             opens == c.open /\ Opens(c)
  <1>1. /\ Good(pane) /\ pane \in PaneRecord
        /\ clients \in [Session -> ClientRecord] /\ c \in ClientRecord
        /\ Pair(pane, s, n, c) /\ Sound(n)
    BY Unfolded DEF Good, Pair
  <1>2. n.control # <<>>
    BY DEF TakeControl
  <1>3. Evolves(n, m) /\ Sound(m)
    <2>1. Evolves(n, m)
      BY <1>1, <1>2, ControlTaken
    <2> QED
      BY <2>1 DEF Evolves
  <1>4. Pair(pane, s, m, c)
    BY <1>1, <1>3, PairEvolves
  <1>5. CASE /\ event = "connected" /\ opens
             /\ clients' = [clients EXCEPT ![s].connected = TRUE]
             /\ \E paused \in BOOLEAN :
                  native' = [native EXCEPT ![s] = IF shown THEN OutputPaused(m, paused) ELSE m]
             /\ pane' = IF shown THEN [pane EXCEPT !.state = "CONNECTED", !.mode = "CONNECTED",
                                                   !.page = TRUE] ELSE pane
    <2> DEFINE d == [c EXCEPT !.connected = TRUE]
    <2>1. PICK paused \in BOOLEAN :
             native' = [native EXCEPT ![s] = IF shown THEN OutputPaused(m, paused) ELSE m]
      BY <1>5
    <2> DEFINE k == IF shown THEN OutputPaused(m, paused) ELSE m
    <2>2. native' = [native EXCEPT ![s] = k] /\ clients' = [clients EXCEPT ![s] = d]
      BY <1>5, <2>1
    <2>3. Evolves(m, OutputPaused(m, paused))
      BY <1>3, PausedEvolves
    <2> HIDE DEF m
    <2>4. Pair(pane, s, k, c)
      BY <1>4, <2>3, PairEvolves
    <2> HIDE DEF k
    <2>5. d \in ClientRecord
      BY <1>1 DEF ClientRecord
    <2>6. /\ d.open = c.open /\ d.connected /\ d.typed = c.typed /\ d.shown = c.shown
          /\ d.disconnecting = c.disconnecting /\ d.ending = c.ending
      BY <1>1 DEF ClientRecord
    <2>7. c.open /\ ~c.disconnecting
      BY <1>5 DEF Opens
    <2> HIDE DEF d
    <2>8. Pair(pane, s, k, d)
      BY <2>4, <2>5, <2>6, <2>7 DEF Pair, TypingInv, ToldInv, Heard
    <2>9. Good(pane') /\ HearsNoMore(pane, pane')
      <3>1. CASE shown
        <4>1. pane' = [pane EXCEPT !.state = "CONNECTED", !.mode = "CONNECTED", !.page = TRUE]
          BY <1>5, <3>1
        <4>2. pane' \in PaneRecord
          BY <1>1, <4>1 DEF PaneRecord
        <4>3. /\ pane'.accepting = pane.accepting /\ pane'.client = pane.client
              /\ pane'.mode = "CONNECTED"
          BY <1>1, <4>1 DEF PaneRecord
        <4>4. pane.client # NoneYet
          BY <3>1, Unfold DEF IsCurrent
        <4> QED
          BY <4>2, <4>3, <4>4 DEF Good, PromptInv, HearsNoMore
      <3>2. CASE ~shown
        BY <1>1, <1>5, <3>2 DEF HearsNoMore
      <3> QED
        BY <3>1, <3>2
    <2>10. Pair(pane', s, k, d)
      BY <2>8, <2>9, PairHearsNoMore
    <2> QED
      BY <2>2, <2>9, <2>10, OneSessionHeard
  <1>6. CASE UNCHANGED <<clients, pane>> /\ native' = [native EXCEPT ![s] = m]
    BY <1>3, <1>6, SessionSteps
  <1>7. CASE native' = [native EXCEPT ![s] = m] /\ SessionOver(s, "failed")
    BY <1>3, <1>7, SessionOverInv
  <1> HIDE DEF m
  <1>8. \/ /\ event = "connected" /\ opens
           /\ clients' = [clients EXCEPT ![s].connected = TRUE]
           /\ \E paused \in BOOLEAN :
                native' = [native EXCEPT ![s] = IF shown THEN OutputPaused(m, paused) ELSE m]
           /\ pane' = IF shown THEN [pane EXCEPT !.state = "CONNECTED", !.mode = "CONNECTED",
                                                 !.page = TRUE] ELSE pane
        \/ native' = [native EXCEPT ![s] = m] /\ ErrorTaken(s)
        \/ native' = [native EXCEPT ![s] = m] /\ UNCHANGED <<clients, pane>>
    BY DEF TakeControl, m
  <1> QED
    BY <1>5, <1>6, <1>7, <1>8 DEF ErrorTaken

-----------------------------------------------------------------------------
(* The invariant.                                                           *)

LEMMA InitInv == Init => IInv
  <1> SUFFICES ASSUME Init PROVE IInv
    OBVIOUS
  <1>1. native \in [Session -> Record] /\ clients \in [Session -> ClientRecord]
    BY NoSessionTyped, NoClientTyped DEF Init
  <1>2. pane \in PaneRecord
    BY DEF Init, PaneRecord, Reachability
  <1>3. PromptInv(pane)
    BY DEF Init, PromptInv
  <1>4. ASSUME NEW s \in Session
        PROVE  Fits(native[s]) /\ SessionInv(native[s])
    <2>1. /\ NoSession.sent = <<>> /\ NoSession.written = <<>> /\ NoSession.transport = <<>>
          /\ ~NoSession.graceful /\ NoSession.phase = "none"
      BY DEF NoSession
    <2>2. native[s] = NoSession
      BY DEF Init
    <2>3. /\ Len(NoSession.sent) = 0 /\ Len(NoSession.written) = 0
          /\ Len(NoSession.transport) = 0
      BY <2>1
    <2> QED
      BY <2>1, <2>2, <2>3, Unfold DEF Fits, SessionInv, Numbered, EndInv
  <1>5. ASSUME NEW s \in Session
        PROVE  TypingInv(native[s], clients[s]) /\ ToldInv(native[s], clients[s])
    BY NoneAssumption DEF Init, NoClient, TypingInv, ToldInv
  <1>6. ~pane.accepting
    BY DEF Init
  <1> QED
    BY <1>1, <1>2, <1>3, <1>4, <1>5, <1>6 DEF IInv, TypeOK, SessionsInv, Fits

LEMMA NextInv == IInv /\ [Next]_vars => IInv'
  <1> SUFFICES ASSUME IInv, [Next]_vars PROVE IInv'
    OBVIOUS
  <1>1. CASE UNCHANGED vars
    <2>1. UNCHANGED <<native, clients>> /\ Good(pane') /\ HearsNoMore(pane, pane')
      BY <1>1, Unfolded DEF vars, HearsNoMore
    <2> QED
      BY <2>1, PaneOnly
  <1>2. ASSUME NEW s \in Session,
               NativeStep(s) \/ BootstrapStep(s) \/ BootstrapStops(s) \/ LibraryStep(s)
        PROVE  IInv'
    <2>1. Sound(native[s])
      BY Unfolded DEF Pair
    <2>2. PICK m : Evolves(native[s], m) /\ native' = [native EXCEPT ![s] = m]
      BY <1>2, <2>1, NativeStepEvolves, BootstrapEvolves, LibraryEvolves
         DEF NativeStep, BootstrapStep, BootstrapStops, LibraryStep, Become
    <2>3. UNCHANGED <<clients, pane>>
      BY <1>2 DEF NativeStep, BootstrapStep, BootstrapStops, LibraryStep
    <2> QED
      BY <2>2, <2>3, SessionSteps
  <1>3. ASSUME NEW s \in Session, Deliver(s)
        PROVE  IInv'
    BY <1>3, TakeTransportInv, TakeControlInv DEF Deliver
  <1> QED
    BY <1>1, <1>2, <1>3, ConnectMoshInv, CancelInv, TypeInv, EscapeDisconnectInv,
       DisconnectInv, ResetCompletesInv, SurfaceFailsInv, PauseChangesInv DEF Next

THEOREM IInvHolds == Spec => []IInv
  BY InitInv, NextInv, PTL DEF Spec

\* The type invariant of the pane, its clients and the Mosh sessions: no queue
\* grows past its room (MoshClient.ets, lib.rs).
THEOREM TypeCorrect == Spec => []TypeOK
  <1>1. IInv => TypeOK
    BY DEF IInv
  <1> QED
    BY <1>1, IInvHolds, PTL

\* What the remote side is given is what was typed, from the beginning and
\* without a gap (MoshClient.write, the disconnect branch of run_mosh_protocol).
THEOREM InputComplete == Spec => []InputHasNoGaps
  <1>1. ASSUME IInv PROVE InputHasNoGaps
    <2> SUFFICES ASSUME NEW s \in Session
                 PROVE  LET input == native[s].sent \o native[s].written IN
                        /\ \A i \in DOMAIN input : input[i] = i
                        /\ native[s].graceful => native[s].written = <<>>
      BY DEF InputHasNoGaps
    <2> DEFINE S == 1..MaxInput
               sent == native[s].sent
               written == native[s].written
               input == sent \o written
    <2>1. Sound(native[s])
      BY <1>1, Unfolded DEF Pair
    <2>2. sent \in Seq(S) /\ written \in Seq(S) /\ input = sent \o written
      BY <2>1, RecordFields DEF Sound
    <2>3. /\ \A i \in 1..Len(sent) : sent[i] = i
          /\ \A i \in 1..Len(written) : written[i] = Len(sent) + i
      BY <2>1 DEF Sound, SessionInv, Numbered
    <2>4. native[s].graceful => native[s].written = <<>>
      BY <2>1 DEF Sound, SessionInv
    <2> HIDE DEF S, sent, written, input
    <2>5. input \in Seq(S) /\ \A i \in 1..Len(input) : input[i] = i
      BY <2>2, <2>3, AllMoved
    <2>6. DOMAIN input = 1..Len(input)
      BY <2>5
    <2>7. \A i \in DOMAIN input : input[i] = i
      BY <2>5, <2>6
    <2> QED
      BY <2>4, <2>7 DEF input, sent, written
  <1> QED
    BY <1>1, IInvHolds, PTL

\* Of a session whose user sees it closed, or stopped for rejected input, the
\* terminal has shown all that was handed over (handleNativeControlEvent, the
\* drain after the loop of run_mosh_protocol).
THEOREM OutputComplete == Spec => []FinalOutputShown
  <1>1. IInv => FinalOutputShown
    BY DEF IInv, SessionsInv, ToldInv, FinalOutputShown
  <1> QED
    BY <1>1, IInvHolds, PTL

\* At the local prompt no session owns the terminal and none is listened to
\* (finishMoshTerminalOwnership).
THEOREM PageGivenBack == Spec => []PageReleased
  <1>1. IInv => PageReleased
    BY DEF IInv, PromptInv, PageReleased
  <1> QED
    BY <1>1, IInvHolds, PTL
=============================================================================
