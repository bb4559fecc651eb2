-------------------------- MODULE FileTransfer_proofs --------------------------
(***************************************************************************)
(* Proofs about FileTransfer, for any number of transfers, blocks, names,  *)
(* any size of the event queues and any faults of the server: final names  *)
(* are safe, the user is told the truth, no temporary file is left without *)
(* a report of it, and the pane comes back to its prompt.                  *)
(*                                                                         *)
(* A request stays with the server when the client gives it up; what it    *)
(* may still do depends on what is queued before it (QueueInv).  What the  *)
(* temporary file holds follows from the phase and the queue (PutInv), and *)
(* what the local one holds from the phase (GetInv).  A transfer that is   *)
(* not the pane's has nothing more to say (LinkInv), and one that is leads *)
(* the pane through the stages in their order (StageInv).                  *)
(***************************************************************************)
EXTENDS FileTransfer, TLAPS

-----------------------------------------------------------------------------
(* One transfer.                                                            *)

Early == {"none", "connecting", "prompt", "opening"}
Over == {"report", "leaving", "ended"}

PhaseOf(direction) ==
    Early \cup Over \cup
    IF direction = "put" THEN {"lstat", "open", "write", "close", "rename", "conflict", "remove"}
    ELSE {"lstat", "open", "fstat", "read", "close", "flush", "sync"}

\* These are asked only when everything asked before has been answered.
Alone == {"open", "write", "rename"}

CallOf(direction) == PhaseOf(direction) \cap RemoteCall

QueueInv(n) ==
    /\ n.phase \in PhaseOf(n.direction)
    /\ \A i \in DOMAIN n.requests :
        /\ n.requests[i].awaited =>
                i = Len(n.requests) /\ n.phase \in {n.requests[i].call} \cup Over
        /\ n.requests[i].call \in Alone => i = 1
        /\ n.requests[i].call \in CallOf(n.direction)
    /\ n.reply # None => n.phase \in RemoteCall \cup Over
    /\ n.reply # None /\ n.phase \in RemoteCall => n.requests = <<>>
    /\ n.phase \in Alone \cup {"lstat"} \/ (n.phase = "close" /\ n.result = None) =>
            \A i \in DOMAIN n.requests : n.requests[i].awaited
    /\ n.phase \in Early \cup LocalCall \/ (n.phase \in Over /\ n.result = "ok") =>
            n.requests = <<>>

ResultInv(n) ==
    /\ n.phase \notin Over \cup {"close", "remove"} => n.result = None
    /\ n.phase = "close" => n.result # "ok"
    /\ n.phase = "remove" => n.result \notin {None, "ok"}

Queued(n, call) == \E i \in DOMAIN n.requests : n.requests[i].call = call

\* The temporary file of an upload.
PutInv(n) ==
    n.direction = "put" =>
        /\ n.localTemp = Absent /\ (n.temp.kind = "absent" => n.temp = Absent)
        /\ n.phase \in Early \cup {"lstat"} => n.temp = Absent /\ n.copied = 0
        /\ n.phase = "open" => n.copied = 0 /\ n.temp = IF n.reply = "ok" THEN Ours(0) ELSE Absent
        /\ n.phase = "write" =>
                n.temp = Ours(IF n.reply = "ok" THEN n.copied + 1 ELSE n.copied)
        /\ n.phase = "write" \/ Queued(n, "write") => n.copied <= Blocks
        /\ n.phase = "close" /\ n.result = None => n.temp = Ours(Blocks)
        /\ n.phase = "rename" /\ n.reply # "ok" => n.temp = Ours(Blocks)
        /\ n.phase = "rename" /\ n.reply = "ok" => n.temp = Absent /\ n.remote = Ours(Blocks)
        /\ n.phase = "remove" /\ n.reply \notin {None, "error"} => n.temp = Absent
        /\ n.phase \in Over /\ n.result = "ok" => n.temp = Absent /\ n.remote = Ours(Blocks)
        /\ n.phase \in Over /\ n.result # "REMOTE_CLEANUP" /\ ~n.abandoned =>
                n.temp = Absent /\ \A i \in DOMAIN n.requests : n.requests[i].call = "lstat"
        /\ Queued(n, "open") => n.temp = Absent
        /\ Queued(n, "write") => n.temp = Ours(n.copied)
        /\ Queued(n, "rename") => n.temp = Ours(Blocks)

\* The local file of a download, while it is the transfer's.
GetInv(n) ==
    n.direction = "get" =>
        /\ n.temp = Absent /\ n.remote.kind # "ours"
        /\ n.phase \in Early \cup {"lstat", "open", "fstat"} => n.copied = 0
        /\ n.phase = "read" => n.reply \in {None, "ok", "eof"}
        /\ n.phase = "read" /\ n.reply = "ok" => n.copied <= Blocks
        /\ n.phase = "close" /\ n.result = None => n.copied = Blocks
        /\ n.phase \in LocalCall => n.copied = Blocks
        /\ n.phase \in Over /\ n.result = "ok" => n.copied = Blocks
        /\ n.phase = "ended" /\ n.result # "ok" => n.localTemp = Absent

\* Whole files have final names.
NamesInv(n) ==
    /\ n.remote.kind = "ours" => n.remote = Ours(Blocks)
    /\ \A i \in DOMAIN n.names : n.names[i].kind = "ours" => n.names[i] = Ours(Blocks)

\* The final event is the last one, and says how the transfer ended.
EventInv(n) ==
    \A i \in DOMAIN n.events :
        n.events[i] \in Terminal => /\ i = Len(n.events) /\ n.phase \in {"leaving", "ended"}
                                    /\ n.events[i] = TerminalEvent(n.result)

TransferInv(n) ==
    /\ n \in Record
    /\ QueueInv(n) /\ ResultInv(n) /\ PutInv(n) /\ GetInv(n) /\ NamesInv(n) /\ EventInv(n)

-----------------------------------------------------------------------------
(* A transfer and the pane.                                                 *)

NoOurs(n) == \A i \in DOMAIN n.names : n.names[i].kind # "ours"

\* Not the pane's: it has said everything, and its local file is gone or has its name.
Finished(n) ==
    n.phase \in {"none", "leaving", "ended"} /\ n.events = <<>> /\ n.localTemp = Absent

\* The pane's, before it is started.
Waiting(n) ==
    n.phase = "none" /\ n.events = <<>> /\ n.localTemp = Absent

\* The pane's, until its final event has been taken.
Running(n) ==
    /\ n.phase # "none"
    /\ n.phase \in {"leaving", "ended"} =>
            n.events # <<>> /\ n.events[Len(n.events)] \in Terminal
    /\ n.direction = "get" /\ (n.phase # "ended" \/ n.result = "ok") =>
            n.localTemp = Ours(n.copied)

Told(n, outcome) ==
    /\ outcome = "SUCCEEDED" => Arrived(n) /\ n.temp = Absent /\ n.requests = <<>>
    /\ outcome \in {"FAILED", "CANCELLED"} /\ n.direction = "get" => NoOurs(n)

LinkInv(t, n, p) ==
    /\ p.current # t => Finished(n) /\ Told(n, p.told[t])
    /\ p.current = t =>
        /\ p.told[t] = None /\ NoOurs(n)
        /\ IF p.awaiting THEN Waiting(n) ELSE Running(n)

PaneInv(p) ==
    /\ p \in PaneRecord
    /\ p.current # NoneYet => p.current = p.begun /\ p.phase \in Active
    /\ p.mode = "IDLE" <=> p.current = NoneYet
    /\ p.awaiting => p.current # NoneYet
    /\ p.phase \in {"IDLE"} \cup Active

-----------------------------------------------------------------------------
(* The stages, when none is dropped.                                        *)

Coming(n, stage) == \E i \in DOMAIN n.events : n.events[i] = stage

InOrder(n) ==
    \A i, j \in DOMAIN n.events : i < j =>
        /\ n.events[i] = "transferring" => n.events[j] \notin {"preparing", "transferring"}
        /\ n.events[i] = "finalizing" =>
                n.events[j] \notin {"preparing", "transferring", "finalizing"}

\* The phase the stages announced lead the pane to, from the one it is in.
LeadsToTransferring(n, phase) ==
    phase = "TRANSFERRING" \/ (phase = "PREPARING" /\ Coming(n, "transferring"))
LeadsToFinalizing(n, phase) ==
    phase = "FINALIZING" \/ Coming(n, "finalizing")

Copied(n) ==
    n.phase \in {"rename", "conflict", "flush", "sync"}
    \/ (n.phase = "close" /\ n.result = None) \/ (n.phase \in Over /\ n.result = "ok")

StageInv(n, phase) ==
    /\ InOrder(n)
    /\ Coming(n, "preparing") \/ Coming(n, "transferring") => phase = "PREPARING"
    /\ Coming(n, "finalizing") => LeadsToTransferring(n, phase)
    /\ n.phase \in {"connecting", "prompt", "opening"} =>
            phase = "PREPARING" /\ \A i \in DOMAIN n.events : n.events[i] = "preparing"
    /\ n.phase \in {"lstat", "open", "fstat", "write", "read"} =>
            LeadsToTransferring(n, phase) /\ ~Coming(n, "finalizing")
    /\ Copied(n) => LeadsToFinalizing(n, phase)

NothingDropped(p) ==
    "dropped stage" \in Excluded =>
        /\ p.phase = "IDLE" <=> p.current = NoneYet
        /\ p.awaiting => p.phase = "PREPARING"
        /\ p.current # NoneYet /\ ~p.awaiting => StageInv(native[p.current], p.phase)

IInv ==
    /\ native \in [Transfer -> Record]
    /\ \A t \in Transfer : TransferInv(native[t]) /\ LinkInv(t, native[t], pane)
    /\ PaneInv(pane) /\ NothingDropped(pane)
-----------------------------------------------------------------------------
(* What a step of a transfer keeps.                                         *)

\* It is the pane's, or has nothing to say.
Linked(n) == Finished(n) \/ Waiting(n) \/ Running(n)

KeepsLink(n, m) ==
    /\ n.phase # "none" /\ m.direction = n.direction
    /\ Finished(n) => /\ Finished(m)
                      /\ \A outcome \in {None} \cup Ended : Told(n, outcome) => Told(m, outcome)
    /\ Running(n) => Running(m)
    /\ NoOurs(n) => NoOurs(m)

KeepsStages(n, m) ==
    "dropped stage" \in Excluded =>
        \A phase \in FileTransferPhase : StageInv(n, phase) => StageInv(m, phase)

KeepsNames(n, m) ==
    /\ n.remote.kind \in {"other", "directory"} => m.remote = n.remote
    /\ DOMAIN m.names = DOMAIN n.names
    /\ \A i \in DOMAIN n.names : n.names[i].kind = "other" => m.names[i] = n.names[i]

Moves(n, m) == TransferInv(m) /\ KeepsLink(n, m) /\ KeepsStages(n, m) /\ KeepsNames(n, m)

-----------------------------------------------------------------------------
(* Values.                                                                  *)

RequestRecord == [call : RemoteCall, awaited : BOOLEAN]
EventName == Stage \cup Terminal

LEMMA Constants ==
    /\ MaxTransfers \in Nat /\ Blocks \in Nat /\ Blocks > 0
    /\ MaxNames \in Nat /\ MaxNames > 0 /\ QueueSize \in Nat /\ QueueSize > 0
<1>1. MaxTransfers \in Nat /\ Blocks \in Nat \ {0} /\ MaxNames \in Nat \ {0}
      /\ QueueSize \in Nat \ {0}
  BY Zenon, SftpTransferAssumption
<1> QED
  BY <1>1

LEMMA Files ==
    /\ Absent \in File /\ Other \in File /\ Directory \in File
    /\ \A b \in 0..(Blocks + 1) : Ours(b) \in File /\ Ours(b).kind = "ours" /\ Ours(b).blocks = b
    /\ Absent.kind = "absent" /\ Other.kind = "other" /\ Directory.kind = "directory"
    /\ 0 \in 0..(Blocks + 1) /\ Blocks \in 0..(Blocks + 1)
<1>1. 0 \in 0..(Blocks + 1) /\ Blocks \in 0..(Blocks + 1)
  BY Constants
<1> DEFINE blockNumbers == 0..(Blocks + 1)
<1> HIDE DEF blockNumbers
<1>2. File = [kind : {"absent", "other", "directory", "ours"}, blocks : blockNumbers]
  BY DEF File, blockNumbers
<1>3. 0 \in blockNumbers /\ Blocks \in blockNumbers
  BY <1>1 DEF blockNumbers
<1>4. /\ Absent \in File /\ Other \in File /\ Directory \in File
      /\ \A b \in blockNumbers : Ours(b) \in File
  BY <1>2, <1>3 DEF Absent, Other, Directory, Ours
<1>5. /\ \A b \in blockNumbers : Ours(b).kind = "ours" /\ Ours(b).blocks = b
      /\ Absent.kind = "absent" /\ Other.kind = "other" /\ Directory.kind = "directory"
  BY DEF Absent, Other, Directory, Ours
<1> QED
  BY <1>1, <1>4, <1>5 DEF blockNumbers

LEMMA RecordFields ==
    ASSUME NEW n \in Record
    PROVE  /\ n.direction \in {"put", "get"} /\ n.phase \in Phase
           /\ n.result \in Failure \cup {None, "ok", "cancelled"}
           /\ n.remote \in File /\ n.temp \in File
           /\ n.size \in 0..(Blocks + 1) /\ n.copied \in 0..(Blocks + 1)
           /\ n.requests \in Seq(RequestRecord)
           /\ n.reply \in {None, "ok", "error", "absent", "directory", "eof"}
           /\ n.localTemp \in File /\ n.names \in [0..(MaxNames - 1) -> File]
           /\ n.automatic \in BOOLEAN /\ n.fault \in Faults
           /\ n.events \in Seq(EventName) /\ n.control \in Seq({"prompt", "changed"})
           /\ n.disconnect \in BOOLEAN /\ n.abandoned \in BOOLEAN
  BY DEF Record, RequestRecord, EventName

\* The phases are different names; what None is not.
LEMMA NoneFacts ==
    /\ None \notin {"ok", "error", "absent", "directory", "eof", "cancelled"}
    /\ None \notin Failure /\ None \notin Ended
  BY NoneAssumption DEF Failure, Ended

-----------------------------------------------------------------------------
(* Sequences.                                                               *)

LEMMA AppendFacts ==
    ASSUME NEW S, NEW s \in Seq(S), NEW e \in S
    PROVE  /\ Append(s, e) \in Seq(S) /\ Len(Append(s, e)) = Len(s) + 1
           /\ DOMAIN Append(s, e) = 1..(Len(s) + 1) /\ DOMAIN s = 1..Len(s)
           /\ \A i \in DOMAIN s : Append(s, e)[i] = s[i]
           /\ Append(s, e)[Len(s) + 1] = e
           /\ Append(s, e) # <<>>
  OBVIOUS

LEMMA TailFacts ==
    ASSUME NEW S, NEW s \in Seq(S), s # <<>>
    PROVE  /\ Tail(s) \in Seq(S) /\ Len(Tail(s)) = Len(s) - 1 /\ Len(s) \in Nat /\ Len(s) >= 1
           /\ DOMAIN Tail(s) = 1..(Len(s) - 1) /\ DOMAIN s = 1..Len(s)
           /\ \A i \in DOMAIN Tail(s) : i + 1 \in DOMAIN s /\ Tail(s)[i] = s[i + 1]
           /\ Head(s) = s[1] /\ Head(s) \in S /\ 1 \in DOMAIN s
           /\ Tail(s) = <<>> <=> Len(s) = 1
<1>1. Len(s) \in Nat /\ DOMAIN s = 1..Len(s)
  OBVIOUS
<1>2. Len(s) # 0
  BY <1>1
<1>3. /\ Tail(s) \in Seq(S) /\ Len(Tail(s)) = Len(s) - 1
      /\ DOMAIN Tail(s) = 1..(Len(s) - 1)
      /\ \A i \in 1..(Len(s) - 1) : Tail(s)[i] = s[i + 1]
  OBVIOUS
<1>4. Head(s) = s[1] /\ 1 \in DOMAIN s /\ s[1] \in S
  BY <1>1, <1>2
<1>5. \A i \in 1..(Len(s) - 1) : i + 1 \in 1..Len(s)
  BY <1>1
<1>6. Tail(s) = <<>> <=> Len(s) = 1
  BY <1>1, <1>2, <1>3, SMTT(30)
<1> QED
  BY <1>1, <1>2, <1>3, <1>4, <1>5, <1>6

LEMMA LastFacts ==
    ASSUME NEW S, NEW s \in Seq(S)
    PROVE  /\ DOMAIN s = 1..Len(s) /\ Len(s) \in Nat
           /\ \A i \in DOMAIN s : s[i] \in S
           /\ s = <<>> <=> DOMAIN s = {}
           /\ s # <<>> => Len(s) \in DOMAIN s
  OBVIOUS

-----------------------------------------------------------------------------
(* The queue after a request has been added, given up or lost.              *)

\* m asks n's server one thing more.
Asked(n, m, call) ==
    /\ m.phase = call /\ m.reply = None
    /\ Len(m.requests) = Len(n.requests) + 1
    /\ \A i \in DOMAIN m.requests :
        IF i = Len(m.requests) THEN m.requests[i] = [call |-> call, awaited |-> TRUE]
        ELSE i \in DOMAIN n.requests /\ m.requests[i].call = n.requests[i].call
             /\ ~m.requests[i].awaited

\* Nothing is added to n's requests.
Less(n, m) ==
    \/ m.requests = n.requests
    \/ \A i \in DOMAIN m.requests :
        i \in DOMAIN n.requests /\ m.requests[i].call = n.requests[i].call
        /\ ~m.requests[i].awaited

LEMMA GivenUpSeq ==
    ASSUME NEW n \in Record, NEW given, given = [i \in DOMAIN n.requests |-> [n.requests[i] EXCEPT !.awaited = FALSE]]
    PROVE  /\ given \in Seq(RequestRecord) /\ Len(given) = Len(n.requests)
           /\ \A i \in DOMAIN given : i \in DOMAIN n.requests
                    /\ given[i].call = n.requests[i].call /\ ~given[i].awaited
<1> DEFINE q == n.requests
<1>1. q \in Seq(RequestRecord) /\ DOMAIN q = 1..Len(q) /\ Len(q) \in Nat
  BY RecordFields, LastFacts
<1>2. \A i \in DOMAIN q : q[i] \in RequestRecord
  BY <1>1
<1>3. \A i \in DOMAIN q :
        /\ [q[i] EXCEPT !.awaited = FALSE] \in RequestRecord
        /\ [q[i] EXCEPT !.awaited = FALSE].call = q[i].call
        /\ [q[i] EXCEPT !.awaited = FALSE].awaited = FALSE
  BY <1>2 DEF RequestRecord
<1>4. given \in [1..Len(q) -> RequestRecord]
  BY <1>1, <1>3
<1>5. given \in Seq(RequestRecord) /\ Len(given) = Len(q) /\ DOMAIN given = DOMAIN q
  BY <1>1, <1>4
<1> QED
  BY <1>3, <1>5

LEMMA AskFacts ==
    ASSUME NEW n \in Record, NEW call \in RemoteCall
    PROVE  /\ Ask(n, call) \in Record
           /\ Asked(n, Ask(n, call), call)
           /\ Ask(n, call).direction = n.direction /\ Ask(n, call).result = n.result
           /\ Ask(n, call).remote = n.remote /\ Ask(n, call).temp = n.temp
           /\ Ask(n, call).size = n.size /\ Ask(n, call).copied = n.copied
           /\ Ask(n, call).localTemp = n.localTemp /\ Ask(n, call).names = n.names
           /\ Ask(n, call).events = n.events /\ Ask(n, call).abandoned = n.abandoned
<1> DEFINE given == [i \in DOMAIN n.requests |-> [n.requests[i] EXCEPT !.awaited = FALSE]]
           r == [call |-> call, awaited |-> TRUE]
           q == Append(given, r)
           m == [n EXCEPT !.phase = call, !.reply = None, !.requests = q]
<1>1. Ask(n, call) = m
  BY DEF Ask
<1>2. /\ given \in Seq(RequestRecord) /\ Len(given) = Len(n.requests)
      /\ \A i \in DOMAIN given : i \in DOMAIN n.requests
                    /\ given[i].call = n.requests[i].call /\ ~given[i].awaited
  BY GivenUpSeq
<1>3. r \in RequestRecord
  BY DEF RequestRecord
<1> HIDE DEF given, r
<1>4. /\ q \in Seq(RequestRecord) /\ Len(q) = Len(given) + 1 /\ DOMAIN q = 1..(Len(given) + 1)
      /\ DOMAIN given = 1..Len(given)
      /\ \A i \in DOMAIN given : q[i] = given[i]
      /\ q[Len(given) + 1] = r
  BY <1>2, <1>3, AppendFacts
<1> HIDE DEF q
<1>5. call \in Phase
  BY DEF Phase, Executing
<1>6. m \in Record
  BY <1>4, <1>5 DEF Record, RequestRecord
<1>7. m.phase = call /\ m.reply = None /\ m.requests = q
  BY <1>6 DEF Record
<1>8. /\ m.direction = n.direction /\ m.result = n.result /\ m.remote = n.remote
      /\ m.temp = n.temp /\ m.size = n.size /\ m.copied = n.copied
      /\ m.localTemp = n.localTemp /\ m.names = n.names
      /\ m.events = n.events /\ m.abandoned = n.abandoned
  BY <1>6 DEF Record
<1> HIDE DEF m
<1>9. Asked(n, m, call)
  <2>1. SUFFICES ASSUME NEW i \in DOMAIN q, i # Len(q)
                 PROVE i \in DOMAIN given
    BY <1>2, <1>4, <1>7, <2>1 DEF Asked, r
  <2> QED
    BY <1>2, <1>4, <2>1
<1> QED
  BY <1>1, <1>6, <1>8, <1>9
LEMMA QueuedAsked ==
    ASSUME NEW n \in Record, NEW m \in Record, NEW call, Asked(n, m, call)
    PROVE  \A other : Queued(m, other) => Queued(n, other) \/ other = call
<1>1. \A i \in DOMAIN m.requests :
        \/ m.requests[i].call = call
        \/ i \in DOMAIN n.requests /\ m.requests[i].call = n.requests[i].call
  BY DEF Asked
<1> QED
  BY <1>1 DEF Queued

LEMMA QueuedLess ==
    ASSUME NEW n \in Record, NEW m \in Record, Less(n, m)
    PROVE  \A other : Queued(m, other) => Queued(n, other)
  BY DEF Queued, Less

LEMMA NothingQueued ==
    ASSUME NEW n, n.requests = <<>>
    PROVE  \A call : ~Queued(n, call)
  BY DEF Queued

LEMMA QueueAfterAsking ==
    ASSUME NEW n \in Record, NEW m \in Record, NEW call \in CallOf(n.direction),
           QueueInv(n), m.direction = n.direction, Asked(n, m, call),
           call \in Alone \cup {"lstat"} \/ (call = "close" /\ m.result = None) =>
                n.requests = <<>>
    PROVE  QueueInv(m)
<1>1. /\ Len(n.requests) \in Nat /\ DOMAIN n.requests = 1..Len(n.requests)
      /\ Len(m.requests) \in Nat /\ DOMAIN m.requests = 1..Len(m.requests)
  BY RecordFields, LastFacts
<1>2. call \in RemoteCall /\ call \in PhaseOf(m.direction)
  BY DEF CallOf
<1>3. call \notin Early \cup LocalCall \cup Over
  BY <1>2 DEF RemoteCall, Early, LocalCall, Over
<1>4. \A i \in DOMAIN m.requests :
        /\ m.requests[i].awaited => i = Len(m.requests) /\ m.phase = m.requests[i].call
        /\ m.requests[i].call \in Alone => i = 1
        /\ m.requests[i].call \in CallOf(m.direction)
  <2> SUFFICES ASSUME NEW i \in DOMAIN m.requests
               PROVE  /\ m.requests[i].awaited => i = Len(m.requests) /\ m.phase = m.requests[i].call
                      /\ m.requests[i].call \in Alone => i = 1
                      /\ m.requests[i].call \in CallOf(m.direction)
    OBVIOUS
  <2>1. CASE i = Len(m.requests)
    <3>1. m.requests[i].call = call /\ m.requests[i].awaited
      BY <2>1 DEF Asked
    <3>2. call \in Alone => Len(n.requests) = 0
      BY <1>1
    <3> QED
      BY <1>1, <2>1, <3>1, <3>2 DEF Asked
  <2>2. CASE i # Len(m.requests)
    BY <2>2 DEF Asked, QueueInv
  <2> QED
    BY <2>1, <2>2
<1>5. m.phase \in Alone \cup {"lstat"} \/ (m.phase = "close" /\ m.result = None) =>
            \A i \in DOMAIN m.requests : m.requests[i].awaited
  <2> SUFFICES ASSUME m.phase \in Alone \cup {"lstat"} \/ (m.phase = "close" /\ m.result = None),
                      NEW i \in DOMAIN m.requests
               PROVE  m.requests[i].awaited
    OBVIOUS
  <2>1. Len(n.requests) = 0
    BY DEF Asked
  <2>2. i = Len(m.requests)
    BY <1>1, <2>1 DEF Asked
  <2> QED
    BY <2>2 DEF Asked
<1> QED
  BY <1>2, <1>3, <1>4, <1>5 DEF QueueInv, Asked

LEMMA QueueAfterEnding ==
    ASSUME NEW n \in Record, NEW m \in Record, QueueInv(n), m.direction = n.direction,
           Less(n, m), m.phase \in Over, m.reply = None, m.result = "ok" => m.requests = <<>>
    PROVE  QueueInv(m)
<1>1. /\ DOMAIN m.requests = 1..Len(m.requests)
      /\ DOMAIN n.requests = 1..Len(n.requests)
  BY RecordFields, LastFacts
<1>2. m.phase \in PhaseOf(m.direction)
      /\ m.phase \notin Early \cup LocalCall \cup Alone \cup {"lstat", "close"}
  BY DEF PhaseOf, Over, Early, LocalCall, Alone
<1>3. \A i \in DOMAIN m.requests :
        /\ m.requests[i].awaited => i = Len(m.requests)
        /\ m.requests[i].call \in Alone => i = 1
        /\ m.requests[i].call \in CallOf(m.direction)
  <2>1. CASE m.requests = n.requests
    BY <2>1 DEF QueueInv
  <2>2. CASE m.requests # n.requests
    BY <2>2 DEF QueueInv, Less
  <2> QED
    BY <2>1, <2>2
<1> QED
  BY <1>2, <1>3 DEF QueueInv

-----------------------------------------------------------------------------
(* What does not depend on where the transfer stands.                       *)

StagesOnly(n) == \A i \in DOMAIN n.events : n.events[i] \notin Terminal

\* The names, and the files of the server.
SameFiles(n, m) ==
    m.direction = n.direction /\ m.remote = n.remote /\ m.temp = n.temp /\ m.names = n.names

Quiet == {"none", "leaving", "ended"}

LEMMA AtWork ==
    ASSUME NEW n \in Record, TransferInv(n), Linked(n), n.phase \notin Quiet
    PROVE  /\ StagesOnly(n) /\ Running(n)
           /\ n.direction = "get" => n.localTemp = Ours(n.copied)
  BY DEF TransferInv, EventInv, StagesOnly, Linked, Finished, Waiting, Running, Quiet

LEMMA NamesKept ==
    ASSUME NEW n \in Record, NEW m \in Record, NamesInv(n), SameFiles(n, m)
    PROVE  NamesInv(m) /\ KeepsNames(n, m) /\ (NoOurs(n) => NoOurs(m))
  BY DEF NamesInv, KeepsNames, NoOurs, SameFiles

\* A transfer that goes on working.
LEMMA Works ==
    ASSUME NEW n \in Record, NEW m \in Record, TransferInv(n), Linked(n),
           n.phase \notin Quiet, m.phase \notin Quiet, SameFiles(n, m), StagesOnly(m),
           m.direction = "get" => m.localTemp = Ours(m.copied)
    PROVE  NamesInv(m) /\ EventInv(m) /\ KeepsLink(n, m) /\ KeepsNames(n, m)
<1>1. NamesInv(m) /\ KeepsNames(n, m) /\ (NoOurs(n) => NoOurs(m))
  BY NamesKept DEF TransferInv
<1>2. EventInv(m)
  BY DEF EventInv, StagesOnly
<1>3. Running(m) /\ ~Finished(n)
  BY DEF Running, Finished, Quiet
<1> QED
  BY <1>1, <1>2, <1>3 DEF KeepsLink, SameFiles, Quiet

-----------------------------------------------------------------------------
(* The stages.                                                              *)

Opening == {"connecting", "prompt", "opening"}
Copying == {"lstat", "open", "fstat", "write", "read"}

\* The events of m lead the pane where those of n do.
LEMMA StagesKept ==
    ASSUME NEW n, NEW m,
           m.events = n.events,
           m.phase \in Opening => n.phase \in Opening,
           m.phase \in Copying => n.phase \in Copying,
           Copied(m) => Copied(n)
    PROVE  KeepsStages(n, m)
  BY DEF KeepsStages, StageInv, InOrder, Coming, LeadsToTransferring, LeadsToFinalizing,
         Opening, Copying

\* An event that is no stage of the pane changes nothing.
LEMMA StagesWithMore ==
    ASSUME NEW n \in Record, NEW m \in Record, NEW event \in {"progress"} \cup Terminal,
           m.events = Append(n.events, event),
           m.phase \notin Opening,
           m.phase \in Copying => n.phase \in Copying,
           Copied(m) => Copied(n)
    PROVE  KeepsStages(n, m)
<1>1. event \in EventName /\ event \notin {"preparing", "transferring", "finalizing"}
  BY DEF EventName, Stage, Terminal
<1>2. n.events \in Seq(EventName)
  BY RecordFields
<1>3. /\ DOMAIN m.events = 1..(Len(n.events) + 1) /\ DOMAIN n.events = 1..Len(n.events)
      /\ \A i \in DOMAIN n.events : m.events[i] = n.events[i]
      /\ m.events[Len(n.events) + 1] = event
      /\ Len(n.events) \in Nat
  BY <1>1, <1>2, AppendFacts, LastFacts
<1>4. \A i \in DOMAIN m.events : i \in DOMAIN n.events \/ i = Len(n.events) + 1
  BY <1>3
<1>5. \A i \in DOMAIN n.events : i \in DOMAIN m.events
  BY <1>3
<1>6. \A stage \in {"preparing", "transferring", "finalizing"} :
        Coming(m, stage) <=> Coming(n, stage)
  BY <1>1, <1>3, <1>4, <1>5 DEF Coming
<1>7. InOrder(n) => InOrder(m)
  <2> SUFFICES ASSUME InOrder(n), NEW i \in DOMAIN m.events, NEW j \in DOMAIN m.events, i < j
               PROVE  /\ m.events[i] = "transferring" =>
                            m.events[j] \notin {"preparing", "transferring"}
                      /\ m.events[i] = "finalizing" =>
                            m.events[j] \notin {"preparing", "transferring", "finalizing"}
    BY DEF InOrder
  <2>1. CASE j = Len(n.events) + 1
    BY <1>1, <1>3, <2>1
  <2>2. CASE j # Len(n.events) + 1
    <3>1. j \in DOMAIN n.events /\ i \in DOMAIN n.events
      BY <1>3, <2>2
    <3> QED
      BY <1>3, <3>1 DEF InOrder
  <2> QED
    BY <2>1, <2>2
<1> QED
  BY <1>6, <1>7 DEF KeepsStages, StageInv, LeadsToTransferring, LeadsToFinalizing,
     Opening, Copying

LEMMA MoreStagesOnly ==
    ASSUME NEW n \in Record, NEW m \in Record, NEW stage \in Stage, StagesOnly(n),
           m.events = Append(n.events, stage)
    PROVE  StagesOnly(m)
<1>1. n.events \in Seq(EventName) /\ stage \in EventName /\ stage \notin Terminal
  BY RecordFields DEF EventName, Stage, Terminal
<1>2. /\ DOMAIN m.events = 1..(Len(n.events) + 1) /\ DOMAIN n.events = 1..Len(n.events)
      /\ \A i \in DOMAIN n.events : m.events[i] = n.events[i]
      /\ m.events[Len(n.events) + 1] = stage /\ Len(n.events) \in Nat
  BY <1>1, AppendFacts, LastFacts
<1>3. \A i \in DOMAIN m.events : i \in DOMAIN n.events \/ i = Len(n.events) + 1
  BY <1>2
<1> QED
  BY <1>1, <1>2, <1>3 DEF StagesOnly
LEMMA StagesCompose ==
    ASSUME NEW n, NEW k, NEW m, KeepsStages(n, k), KeepsStages(k, m)
    PROVE  KeepsStages(n, m)
  BY DEF KeepsStages

\* "transferring" and "finalizing" are announced when the stage before was.
LEMMA TransferringTold ==
    ASSUME NEW n \in Record, NEW m \in Record, n.phase \in Opening, m.phase = "lstat",
           m.events = Append(n.events, "transferring")
    PROVE  KeepsStages(n, m)
<1>1. /\ DOMAIN m.events = 1..(Len(n.events) + 1) /\ DOMAIN n.events = 1..Len(n.events)
      /\ \A i \in DOMAIN n.events : m.events[i] = n.events[i]
      /\ m.events[Len(n.events) + 1] = "transferring" /\ Len(n.events) \in Nat
  <2>1. n.events \in Seq(EventName) /\ "transferring" \in EventName
    BY RecordFields DEF EventName, Stage
  <2> QED
    BY <2>1, AppendFacts, LastFacts
<1>2. \A i \in DOMAIN m.events : i \in DOMAIN n.events \/ i = Len(n.events) + 1
  BY <1>1
<1>3. SUFFICES ASSUME NEW phase \in FileTransferPhase, StageInv(n, phase)
               PROVE  StageInv(m, phase)
  BY DEF KeepsStages
<1>4. phase = "PREPARING" /\ \A i \in DOMAIN n.events : n.events[i] = "preparing"
  BY <1>3 DEF StageInv, Opening
<1>5. \A i \in DOMAIN m.events :
        m.events[i] = IF i = Len(n.events) + 1 THEN "transferring" ELSE "preparing"
  BY <1>1, <1>2, <1>4
<1>6. InOrder(m)
  BY <1>1, <1>5 DEF InOrder
<1>7. ~Coming(m, "finalizing") /\ Coming(m, "transferring")
  BY <1>1, <1>5 DEF Coming
<1>8. ~Copied(m)
  BY DEF Copied, Over
<1> QED
  BY <1>4, <1>6, <1>7, <1>8 DEF StageInv, LeadsToTransferring

LEMMA FinalizingTold ==
    ASSUME NEW n \in Record, NEW m \in Record, n.phase \in Copying, m.phase = "close",
           m.events = Append(n.events, "finalizing")
    PROVE  KeepsStages(n, m)
<1>1. /\ DOMAIN m.events = 1..(Len(n.events) + 1) /\ DOMAIN n.events = 1..Len(n.events)
      /\ \A i \in DOMAIN n.events : m.events[i] = n.events[i]
      /\ m.events[Len(n.events) + 1] = "finalizing" /\ Len(n.events) \in Nat
  <2>1. n.events \in Seq(EventName) /\ "finalizing" \in EventName
    BY RecordFields DEF EventName, Stage
  <2> QED
    BY <2>1, AppendFacts, LastFacts
<1>2. \A i \in DOMAIN m.events : i \in DOMAIN n.events \/ i = Len(n.events) + 1
  BY <1>1
<1>3. SUFFICES ASSUME NEW phase \in FileTransferPhase, StageInv(n, phase)
               PROVE  StageInv(m, phase)
  BY DEF KeepsStages
<1>4. LeadsToTransferring(n, phase) /\ ~Coming(n, "finalizing") /\ InOrder(n)
  BY <1>3 DEF StageInv, Copying
<1>5. \A i \in DOMAIN n.events : n.events[i] # "finalizing"
  BY <1>4 DEF Coming
<1>6. InOrder(m)
  <2> SUFFICES ASSUME NEW i \in DOMAIN m.events, NEW j \in DOMAIN m.events, i < j
               PROVE  /\ m.events[i] = "transferring" =>
                            m.events[j] \notin {"preparing", "transferring"}
                      /\ m.events[i] = "finalizing" =>
                            m.events[j] \notin {"preparing", "transferring", "finalizing"}
    BY DEF InOrder
  <2>1. i \in DOMAIN n.events
    BY <1>1
  <2>2. CASE j = Len(n.events) + 1
    BY <1>1, <1>5, <2>1, <2>2
  <2>3. CASE j \in DOMAIN n.events
    BY <1>1, <1>4, <2>1, <2>3 DEF InOrder
  <2> QED
    BY <1>2, <2>2, <2>3
<1>7. \A stage \in {"preparing", "transferring"} : Coming(m, stage) <=> Coming(n, stage)
  BY <1>1, <1>2 DEF Coming
<1>8. Coming(m, "finalizing")
  BY <1>1 DEF Coming
<1> QED
  BY <1>3, <1>4, <1>6, <1>7, <1>8 DEF StageInv, LeadsToTransferring, LeadsToFinalizing

-----------------------------------------------------------------------------
(* A transfer that ends, for whatever reason.                               *)

LEMMA Finishes ==
    ASSUME NEW n \in Record, NEW m \in Record, TransferInv(n), Linked(n),
           n.phase \notin Quiet \cup {"report"},
           m.phase = "report", m.reply = None, m.result # None,
           SameFiles(n, m), m.localTemp = n.localTemp, m.copied = n.copied,
           m.events = n.events, Less(n, m),
           m.result = "ok" => \/ n.direction = "put" /\ n.phase = "rename" /\ n.reply = "ok"
                              \/ n.phase = "sync",
           n.direction = "put" /\ m.result \notin {"ok", "REMOTE_CLEANUP"} /\ ~m.abandoned =>
              \/ n.phase \in Early \cup {"lstat"}
              \/ n.phase = "open" /\ n.reply \notin {None, "ok"}
              \/ n.phase = "remove" /\ n.reply \notin {None, "error"}
    PROVE  Moves(n, m)
<1>1. /\ m.direction = n.direction /\ m.remote = n.remote /\ m.temp = n.temp
      /\ n.direction \in {"put", "get"} /\ m.requests \in Seq(RequestRecord)
  BY RecordFields DEF SameFiles
<1>2. /\ QueueInv(n) /\ ResultInv(n) /\ PutInv(n) /\ GetInv(n)
  BY DEF TransferInv
<1>3. n.requests = <<>> => m.requests = <<>>
  BY <1>1, LastFacts DEF Less
<1>4. n.phase \in RemoteCall /\ n.reply # None => n.requests = <<>>
  BY <1>2 DEF QueueInv
<1>5. m.result = "ok" => n.requests = <<>>
  BY <1>2, <1>4, NoneFacts DEF QueueInv, LocalCall, RemoteCall
<1>6. QueueInv(m)
  BY <1>1, <1>2, <1>3, <1>5, QueueAfterEnding DEF Over
<1>7. ResultInv(m)
  BY DEF ResultInv, Over
<1>8. \A other : Queued(m, other) => Queued(n, other)
  BY QueuedLess
<1>9. PutInv(m)
  <2> SUFFICES ASSUME n.direction = "put"
               PROVE  PutInv(m)
    BY <1>1 DEF PutInv
  <2>1. n.phase # "sync"
    BY <1>2 DEF QueueInv, PhaseOf, Early, Over
  <2>2. n.localTemp = Absent
    BY <1>2 DEF PutInv
  <2>3. m.result = "ok" => m.temp = Absent /\ m.remote = Ours(Blocks)
    BY <1>1, <1>2, <2>1 DEF PutInv
  <2>4. m.result # "REMOTE_CLEANUP" /\ ~m.abandoned =>
            m.temp = Absent /\ \A i \in DOMAIN m.requests : m.requests[i].call = "lstat"
    <3> SUFFICES ASSUME m.result # "REMOTE_CLEANUP", ~m.abandoned
                 PROVE  m.temp = Absent /\ \A i \in DOMAIN m.requests : m.requests[i].call = "lstat"
      OBVIOUS
    <3>1. CASE m.result = "ok"
      BY <1>3, <1>5, <2>3, <3>1
    <3>2. CASE n.phase \in Early
      BY <1>1, <1>2, <1>3, <3>2 DEF PutInv, QueueInv
    <3>3. CASE n.phase = "lstat"
      <4>1. \A i \in DOMAIN n.requests : n.requests[i].call = "lstat"
        BY <1>2, <3>3 DEF QueueInv, Over
      <4> QED
        BY <1>1, <1>2, <3>3, <4>1 DEF PutInv, Less
    <3>4. CASE n.phase = "open" /\ n.reply \notin {None, "ok"}
      BY <1>1, <1>2, <1>3, <1>4, <3>4 DEF PutInv, RemoteCall
    <3>5. CASE n.phase = "remove" /\ n.reply \notin {None, "error"}
      BY <1>1, <1>2, <1>3, <1>4, <3>5 DEF PutInv, RemoteCall
    <3> QED
      BY <3>1, <3>2, <3>3, <3>4, <3>5
  <2> QED
    BY <1>1, <1>2, <1>8, <2>2, <2>3, <2>4 DEF PutInv, Early, Over
<1>10. GetInv(m)
  <2> SUFFICES ASSUME n.direction = "get"
               PROVE  GetInv(m)
    BY <1>1 DEF GetInv
  <2>1. n.temp = Absent /\ n.remote.kind # "ours"
    BY <1>2 DEF GetInv
  <2>2. m.result = "ok" => m.copied = Blocks
    BY <1>2 DEF GetInv, LocalCall
  <2> QED
    BY <1>1, <2>1, <2>2 DEF GetInv, Early, LocalCall
<1>11. StagesOnly(n) /\ (n.direction = "get" => n.localTemp = Ours(n.copied))
  BY AtWork DEF Quiet
<1>12. NamesInv(m) /\ EventInv(m) /\ KeepsLink(n, m) /\ KeepsNames(n, m)
  <2>1. StagesOnly(m) /\ m.phase \notin Quiet /\ n.phase \notin Quiet
    BY <1>11 DEF StagesOnly, Quiet
  <2>2. m.direction = "get" => m.localTemp = Ours(m.copied)
    BY <1>1, <1>11
  <2> QED
    BY <2>1, <2>2, Works
<1>13. KeepsStages(n, m)
  <2>1. Copied(m) => Copied(n)
    BY DEF Copied, Over
  <2> QED
    BY <2>1, StagesKept DEF Opening, Copying
<1> QED
  BY <1>6, <1>7, <1>9, <1>10, <1>12, <1>13 DEF Moves, TransferInv
-----------------------------------------------------------------------------
(* A transfer that asks the server the next thing.                          *)

\* What every such step has in common.
AskStep(n, m, call) ==
    /\ Asked(n, m, call) /\ SameFiles(n, m) /\ call \in CallOf(n.direction)
    /\ StagesOnly(m)
    /\ m.direction = "get" => m.localTemp = Ours(m.copied)
    /\ m.direction = "put" => m.localTemp = Absent

LEMMA Asks ==
    ASSUME NEW n \in Record, NEW m \in Record, NEW call, TransferInv(n), Linked(n),
           n.phase \notin Quiet, AskStep(n, m, call),
           call \in Alone \cup {"lstat"} \/ (call = "close" /\ m.result = None) =>
                n.requests = <<>>,
           ResultInv(m), PutInv(m), GetInv(m), KeepsStages(n, m)
    PROVE  Moves(n, m)
<1>1. call \in CallOf(n.direction) /\ Asked(n, m, call) /\ SameFiles(n, m)
  BY DEF AskStep
<1>2. QueueInv(m)
  BY <1>1, QueueAfterAsking DEF TransferInv, SameFiles
<1>3. m.phase \notin Quiet
  BY <1>1 DEF Asked, CallOf, RemoteCall, Quiet
<1>4. NamesInv(m) /\ EventInv(m) /\ KeepsLink(n, m) /\ KeepsNames(n, m)
  BY <1>1, <1>3, Works DEF AskStep
<1> QED
  BY <1>2, <1>4 DEF Moves, TransferInv

\* The queue is empty when an answer is there.
LEMMA Answered ==
    ASSUME NEW n \in Record, TransferInv(n), n.phase \in RemoteCall, n.reply # None
    PROVE  n.requests = <<>> /\ \A call : ~Queued(n, call)
  BY NothingQueued DEF TransferInv, QueueInv

\* A download asks: nothing on the server changes.
LEMMA GetAsks ==
    ASSUME NEW n \in Record, NEW m \in Record, NEW call, TransferInv(n),
           n.direction = "get", AskStep(n, m, call),
           call \in {"lstat", "open", "fstat"} => m.copied = 0,
           call = "close" /\ m.result = None => m.copied = Blocks
    PROVE  PutInv(m) /\ GetInv(m)
<1>1. /\ m.direction = "get" /\ m.remote = n.remote /\ m.temp = n.temp
      /\ m.phase = call /\ m.reply = None /\ call \in RemoteCall
  BY DEF AskStep, SameFiles, Asked, CallOf
<1>2. n.temp = Absent /\ n.remote.kind # "ours"
  BY DEF TransferInv, GetInv
<1> QED
  BY <1>1, <1>2, NoneFacts DEF PutInv, GetInv, RemoteCall, LocalCall, Over, Early

\* An upload asks: the temporary file fits what is asked.
LEMMA PutAsks ==
    ASSUME NEW n \in Record, NEW m \in Record, NEW call, TransferInv(n),
           n.direction = "put", AskStep(n, m, call),
           call = "lstat" => n.temp = Absent /\ m.copied = 0,
           call = "open" => n.temp = Absent /\ m.copied = 0,
           call = "write" => n.temp = Ours(m.copied) /\ m.copied <= Blocks,
           call = "close" /\ m.result = None => n.temp = Ours(Blocks),
           call = "rename" => n.temp = Ours(Blocks),
           m.copied = n.copied \/ n.requests = <<>>
    PROVE  PutInv(m) /\ GetInv(m)
<1>1. /\ m.direction = "put" /\ m.remote = n.remote /\ m.temp = n.temp
      /\ m.phase = call /\ m.reply = None /\ call \in RemoteCall /\ m.localTemp = Absent
      /\ Asked(n, m, call)
  BY DEF AskStep, SameFiles, Asked, CallOf
<1>2. \A other : Queued(m, other) => Queued(n, other) \/ other = call
  BY <1>1, QueuedAsked
<1>3. \A other : Queued(n, other) => m.copied = n.copied
  BY NothingQueued
<1>4. /\ Queued(n, "open") => n.temp = Absent
      /\ Queued(n, "write") => n.temp = Ours(n.copied) /\ n.copied <= Blocks
      /\ Queued(n, "rename") => n.temp = Ours(Blocks)
      /\ n.temp.kind = "absent" => n.temp = Absent
  BY DEF TransferInv, PutInv
<1>5. /\ Queued(m, "open") => m.temp = Absent
      /\ Queued(m, "write") => m.temp = Ours(m.copied) /\ m.copied <= Blocks
      /\ Queued(m, "rename") => m.temp = Ours(Blocks)
  BY <1>1, <1>2, <1>3, <1>4
<1>6. call \notin Early \cup Over
  BY <1>1 DEF RemoteCall, Early, Over
<1> QED
  BY <1>1, <1>4, <1>5, <1>6, NoneFacts DEF PutInv, GetInv

\* The calls of a transfer, by its direction.
LEMMA Calls ==
    /\ \A call \in {"lstat", "open", "write", "close", "rename", "conflict", "remove"} :
            call \in CallOf("put")
    /\ \A call \in {"lstat", "open", "fstat", "read", "close"} : call \in CallOf("get")
    /\ \A call \in CallOf("put") : call \notin {"fstat", "read"}
    /\ \A call \in CallOf("get") : call \notin {"write", "rename", "conflict", "remove"}
    /\ \A phase \in PhaseOf("put") : phase \notin {"fstat", "read", "flush", "sync"}
    /\ \A phase \in PhaseOf("get") : phase \notin {"write", "rename", "conflict", "remove"}
  BY DEF CallOf, PhaseOf, RemoteCall, Early, Over
-----------------------------------------------------------------------------
(* The operators of the transfer, field by field.                           *)

\* The invariants see no difference but in the events.
AlikeButEvents(k, m) ==
    /\ SameFiles(k, m) /\ m.localTemp = k.localTemp /\ m.copied = k.copied
    /\ m.phase = k.phase /\ m.result = k.result /\ m.reply = k.reply
    /\ m.requests = k.requests /\ m.abandoned = k.abandoned

Alike(k, m) == AlikeButEvents(k, m) /\ m.events = k.events

LEMMA AlikeInv ==
    ASSUME NEW k, NEW m \in Record, TransferInv(k), Alike(k, m)
    PROVE  TransferInv(m)
<1>1. QueueInv(m)
  BY DEF TransferInv, Alike, AlikeButEvents, SameFiles, QueueInv
<1>2. ResultInv(m)
  BY DEF TransferInv, Alike, AlikeButEvents, SameFiles, ResultInv
<1>3. PutInv(m)
  BY DEF TransferInv, Alike, AlikeButEvents, SameFiles, PutInv, Queued
<1>4. GetInv(m)
  BY DEF TransferInv, Alike, AlikeButEvents, SameFiles, GetInv
<1>5. NamesInv(m) /\ EventInv(m)
  BY DEF TransferInv, Alike, AlikeButEvents, SameFiles, NamesInv, EventInv
<1> QED
  BY <1>1, <1>2, <1>3, <1>4, <1>5 DEF TransferInv

LEMMA AlikeLinks ==
    ASSUME NEW k, NEW m, Alike(k, m)
    PROVE  /\ Finished(m) <=> Finished(k)
           /\ Waiting(m) <=> Waiting(k)
           /\ Running(m) <=> Running(k)
           /\ NoOurs(m) <=> NoOurs(k)
           /\ \A outcome : Told(m, outcome) <=> Told(k, outcome)
           /\ \A phase : StageInv(m, phase) <=> StageInv(k, phase)
<1>1. /\ m.phase = k.phase /\ m.events = k.events /\ m.localTemp = k.localTemp
      /\ m.direction = k.direction /\ m.result = k.result /\ m.copied = k.copied
      /\ m.names = k.names /\ m.temp = k.temp /\ m.requests = k.requests
      /\ m.remote = k.remote
  BY DEF Alike, AlikeButEvents, SameFiles
<1>2. Arrived(m) <=> Arrived(k)
  BY <1>1, Zenon DEF Arrived, LocalNames
<1>3. NoOurs(m) <=> NoOurs(k)
  BY <1>1 DEF NoOurs
<1>4. /\ Finished(m) <=> Finished(k)
      /\ Waiting(m) <=> Waiting(k)
      /\ Running(m) <=> Running(k)
  BY <1>1 DEF Finished, Waiting, Running
<1>5. \A outcome : Told(m, outcome) <=> Told(k, outcome)
  BY <1>1, <1>2, <1>3 DEF Told
<1>6. \A phase : StageInv(m, phase) <=> StageInv(k, phase)
  BY <1>1 DEF StageInv, InOrder, Coming, LeadsToTransferring, LeadsToFinalizing, Copied
<1> QED
  BY <1>3, <1>4, <1>5, <1>6

LEMMA AlikeMoves ==
    ASSUME NEW n, NEW k, NEW m \in Record, Moves(n, k), Alike(k, m)
    PROVE  Moves(n, m)
<1>1. TransferInv(m)
  BY AlikeInv DEF Moves
<1>2. KeepsLink(n, m) /\ KeepsStages(n, m)
  BY AlikeLinks DEF Moves, KeepsLink, KeepsStages, Alike, AlikeButEvents, SameFiles
<1>3. KeepsNames(n, m)
  BY DEF Moves, KeepsNames, Alike, AlikeButEvents, SameFiles
<1> QED
  BY <1>1, <1>2, <1>3 DEF Moves

LEMMA TellFacts ==
    ASSUME NEW n \in Record, NEW stage \in Stage
    PROVE  /\ Tell(n, stage) \in Record
           /\ AlikeButEvents(n, Tell(n, stage)) /\ Tell(n, stage).size = n.size
           /\ Tell(n, stage).events = IF HasRoom(n) THEN Append(n.events, stage) ELSE n.events
<1> DEFINE more == Append(n.events, stage)
<1>1. more \in Seq(EventName)
  BY RecordFields, AppendFacts DEF EventName
<1> HIDE DEF more
<1> DEFINE m == [n EXCEPT !.events = more]
<1>2. m \in Record
  BY <1>1 DEF Record, EventName
<1>3. m.events = more /\ AlikeButEvents(n, m) /\ m.size = n.size
  BY DEF Record, AlikeButEvents, SameFiles
<1>4. Tell(n, stage) = IF HasRoom(n) THEN m ELSE n
  BY DEF Tell, more
<1>5. AlikeButEvents(n, n)
  BY DEF AlikeButEvents, SameFiles
<1> HIDE DEF m
<1> QED
  BY <1>2, <1>3, <1>4, <1>5 DEF more

LEMMA FinishFacts ==
    ASSUME NEW n \in Record, NEW result \in Failure \cup {None, "ok", "cancelled"}
    PROVE  /\ Finish(n, result) \in Record
           /\ SameFiles(n, Finish(n, result))
           /\ Finish(n, result).phase = "report" /\ Finish(n, result).result = result
           /\ Finish(n, result).reply = None
           /\ Finish(n, result).localTemp = n.localTemp /\ Finish(n, result).copied = n.copied
           /\ Finish(n, result).events = n.events /\ Finish(n, result).requests = n.requests
           /\ Finish(n, result).abandoned = n.abandoned
           /\ Finish(n, result).control = n.control
<1>1. "report" \in Phase
  BY DEF Phase
<1>2. Finish(n, result) \in Record
  BY <1>1 DEF Finish, Record
<1> QED
  BY <1>2 DEF Finish, Record, SameFiles

LEMMA Becoming ==
    ASSUME native \in [Transfer -> Record], NEW t \in Transfer
    PROVE  native[t] \in Record
  OBVIOUS

MovesTo(t) == \E m \in Record : Become(t, m) /\ Moves(native[t], m)

-----------------------------------------------------------------------------
(* The connection, its prompt, and the SFTP channel.                        *)

LEMMA EarlyMoves ==
    ASSUME NEW n \in Record, NEW m \in Record, TransferInv(n), Linked(n),
           n.phase \in Opening, m.phase \in Opening, SameFiles(n, m), m.events = n.events,
           m.requests = n.requests, m.reply = n.reply, m.result = n.result,
           m.localTemp = n.localTemp, m.copied = n.copied
    PROVE  Moves(n, m)
<1>1. n.phase \in Early /\ m.phase \in Early /\ n.phase \notin Quiet /\ m.phase \notin Quiet
  BY DEF Opening, Early, Quiet
<1>2. n.phase \notin RemoteCall \cup LocalCall \cup Over \cup {"close", "remove"}
      /\ m.phase \notin RemoteCall \cup LocalCall \cup Over \cup {"close", "remove"}
  BY DEF Opening, RemoteCall, LocalCall, Over
<1>3. StagesOnly(m) /\ (m.direction = "get" => m.localTemp = Ours(m.copied))
  BY <1>1, AtWork DEF StagesOnly, SameFiles
<1>4. n.requests = <<>> /\ n.reply = None
  BY <1>1, <1>2 DEF TransferInv, QueueInv
<1>5. QueueInv(m)
  BY <1>1, <1>2, <1>4 DEF QueueInv, PhaseOf, Alone, RemoteCall
<1>6. ResultInv(m)
  BY <1>1, <1>2 DEF TransferInv, ResultInv, Over
<1>7. PutInv(m)
  BY <1>1, <1>2, <1>4 DEF TransferInv, PutInv, SameFiles, Queued, RemoteCall
<1>8. GetInv(m)
  BY <1>1, <1>2 DEF TransferInv, GetInv, SameFiles, RemoteCall, Over
<1>9. KeepsStages(n, m)
  BY <1>2, StagesKept DEF Copied, Over, Copying, RemoteCall, Opening, LocalCall
<1>10. NamesInv(m) /\ EventInv(m) /\ KeepsLink(n, m) /\ KeepsNames(n, m)
  BY <1>1, <1>3, Works
<1> QED
  BY <1>5, <1>6, <1>7, <1>8, <1>9, <1>10 DEF Moves, TransferInv
\* Nothing has been asked of the server.
LEMMA EarlyFails ==
    ASSUME NEW n \in Record, NEW result \in Failure, TransferInv(n), Linked(n),
           n.phase \in Opening
    PROVE  Finish(n, result) \in Record /\ Moves(n, Finish(n, result))
<1> DEFINE m == Finish(n, result)
<1>1. result \in Failure \cup {None, "ok", "cancelled"} /\ result \notin {None, "ok"}
  BY NoneFacts DEF Failure
<1>2. /\ m \in Record /\ SameFiles(n, m) /\ m.phase = "report" /\ m.result = result
      /\ m.reply = None /\ m.localTemp = n.localTemp /\ m.copied = n.copied
      /\ m.events = n.events /\ m.requests = n.requests
  BY <1>1, FinishFacts
<1> HIDE DEF m
<1>3. n.phase \in Early /\ n.phase \notin Quiet \cup {"report"}
  BY DEF Opening, Early, Quiet
<1>4. Less(n, m)
  BY <1>2 DEF Less
<1>5. Moves(n, m)
  BY <1>1, <1>2, <1>3, <1>4, Finishes
<1> QED
  BY <1>2, <1>5 DEF m

LEMMA EarlyControl ==
    ASSUME NEW n \in Record, NEW event \in {"prompt", "changed"}, NEW control,
           control = Append(n.control, event)
    PROVE  /\ [n EXCEPT !.control = control] \in Record
           /\ Alike(n, [n EXCEPT !.control = control])
<1>1. control \in Seq({"prompt", "changed"})
  BY RecordFields, AppendFacts
<1>2. [n EXCEPT !.control = control] \in Record
  BY <1>1 DEF Record
<1> QED
  BY <1>2 DEF Alike, AlikeButEvents, SameFiles, Record

LEMMA ConnectStepMoves ==
    ASSUME native \in [Transfer -> Record], NEW t \in Transfer, TransferInv(native[t]),
           Linked(native[t]), ConnectStep(t)
    PROVE  MovesTo(t)
<1> DEFINE n == native[t]
<1>1. n \in Record /\ n.phase = "connecting"
  BY DEF ConnectStep
<1>2. {"opening", "prompt"} \subseteq Phase
  BY DEF Phase
<1>3. CASE Become(t, [n EXCEPT !.phase = "opening"])
  <2> DEFINE m == [n EXCEPT !.phase = "opening"]
  <2>1. m \in Record
    BY <1>1, <1>2 DEF Record
  <2>2. /\ m.phase = "opening" /\ SameFiles(n, m) /\ m.events = n.events
        /\ m.requests = n.requests /\ m.reply = n.reply /\ m.result = n.result
        /\ m.localTemp = n.localTemp /\ m.copied = n.copied
    BY <1>1 DEF Record, SameFiles
  <2> HIDE DEF m
  <2>3. Moves(n, m)
    BY <1>1, <2>1, <2>2, EarlyMoves DEF Opening
  <2> QED
    BY <1>3, <2>1, <2>3 DEF m, MovesTo
<1>4. CASE Become(t, [n EXCEPT !.phase = "prompt", !.control = Append(@, "prompt")])
  <2> DEFINE control == Append(n.control, "prompt")
             m == [n EXCEPT !.phase = "prompt", !.control = control]
  <2>1. control \in Seq({"prompt", "changed"})
    BY <1>1, RecordFields, AppendFacts
  <2> HIDE DEF control
  <2>2. m \in Record
    BY <1>1, <1>2, <2>1 DEF Record
  <2>3. /\ m.phase = "prompt" /\ SameFiles(n, m) /\ m.events = n.events
        /\ m.requests = n.requests /\ m.reply = n.reply /\ m.result = n.result
        /\ m.localTemp = n.localTemp /\ m.copied = n.copied
    BY <1>1 DEF Record, SameFiles
  <2> HIDE DEF m
  <2>4. Moves(n, m)
    BY <1>1, <2>2, <2>3, EarlyMoves DEF Opening
  <2>5. Become(t, m)
    BY <1>4 DEF m, control
  <2> QED
    BY <2>2, <2>4, <2>5 DEF MovesTo
<1>5. CASE Become(t, [Finish(n, "NETWORK") EXCEPT !.control = Append(@, "changed")])
  <2> DEFINE k == Finish(n, "NETWORK")
             control == Append(k.control, "changed")
             m == [k EXCEPT !.control = control]
  <2>1. k \in Record /\ Moves(n, k)
    BY <1>1, EarlyFails DEF Opening, Failure
  <2>2. Become(t, m)
    BY <1>5
  <2> HIDE DEF k
  <2>3. m \in Record /\ Alike(k, m)
    BY <2>1, EarlyControl
  <2> HIDE DEF m
  <2>4. Moves(n, m)
    BY <2>1, <2>3, AlikeMoves
  <2> QED
    BY <2>2, <2>3, <2>4 DEF MovesTo
<1>6. CASE \E failure \in {"NETWORK", "AUTH"} : Become(t, Finish(n, failure))
  BY <1>1, <1>6, EarlyFails DEF Opening, Failure, MovesTo
<1> QED
  BY <1>3, <1>4, <1>5, <1>6 DEF ConnectStep

LEMMA PromptFailsMoves ==
    ASSUME native \in [Transfer -> Record], NEW t \in Transfer, TransferInv(native[t]),
           Linked(native[t]), PromptFails(t)
    PROVE  MovesTo(t)
<1>1. native[t] \in Record /\ native[t].phase = "prompt" /\ "AUTH" \in Failure
  BY DEF PromptFails, Failure
<1>2. Finish(native[t], "AUTH") \in Record /\ Moves(native[t], Finish(native[t], "AUTH"))
  BY <1>1, EarlyFails DEF Opening
<1> QED
  BY <1>2 DEF PromptFails, MovesTo

LEMMA PromptAnsweredMoves ==
    ASSUME native \in [Transfer -> Record], NEW t \in Transfer, TransferInv(native[t]),
           Linked(native[t]), native' \in PromptAnswered(t)
    PROVE  native' = native \/ MovesTo(t)
<1> DEFINE n == native[t]
           m == [n EXCEPT !.phase = "opening"]
<1> SUFFICES ASSUME n.phase = "prompt"
             PROVE  MovesTo(t)
  BY DEF PromptAnswered
<1>1. \/ Become(t, m)
      \/ Become(t, Finish(n, "NETWORK"))
  BY DEF PromptAnswered, Become
<1>2. n \in Record /\ "opening" \in Phase
  BY DEF Phase
<1>3. m \in Record
  BY <1>2 DEF Record
<1>4. /\ m.phase = "opening" /\ SameFiles(n, m) /\ m.events = n.events
      /\ m.requests = n.requests /\ m.reply = n.reply /\ m.result = n.result
      /\ m.localTemp = n.localTemp /\ m.copied = n.copied
  BY <1>2 DEF Record, SameFiles
<1> HIDE DEF m
<1>5. Moves(n, m)
  BY <1>2, <1>3, <1>4, EarlyMoves DEF Opening
<1>6. Finish(n, "NETWORK") \in Record /\ Moves(n, Finish(n, "NETWORK"))
  BY EarlyFails DEF Opening, Failure
<1> QED
  BY <1>1, <1>3, <1>5, <1>6 DEF MovesTo

\* A report of progress on top of a step.
LEMMA ProgressMoves ==
    ASSUME NEW n \in Record, NEW k \in Record, Moves(n, k), StagesOnly(k),
           k.phase \notin Opening \cup Quiet
    PROVE  Tell(k, "progress") \in Record /\ Moves(n, Tell(k, "progress"))
<1> DEFINE m == Tell(k, "progress")
<1>1. /\ m \in Record /\ AlikeButEvents(k, m)
      /\ m.events = IF HasRoom(k) THEN Append(k.events, "progress") ELSE k.events
  BY TellFacts DEF Stage
<1> HIDE DEF m
<1>2. CASE m.events = k.events
  BY <1>1, <1>2, AlikeMoves DEF Alike, m
<1>3. CASE m.events = Append(k.events, "progress")
  <2>1. StagesOnly(m)
    BY <1>1, <1>3, MoreStagesOnly DEF Stage
  <2>2. /\ m.phase = k.phase /\ m.localTemp = k.localTemp /\ SameFiles(k, m)
        /\ m.direction = k.direction /\ m.result = k.result /\ m.copied = k.copied
        /\ m.requests = k.requests /\ m.names = k.names /\ m.remote = k.remote
    BY <1>1 DEF AlikeButEvents, SameFiles
  <2>3. TransferInv(k) /\ KeepsLink(n, k) /\ KeepsStages(n, k) /\ KeepsNames(n, k)
    BY DEF Moves
  <2>4. QueueInv(m)
    BY <1>1, <2>3 DEF TransferInv, AlikeButEvents, SameFiles, QueueInv
  <2>5. ResultInv(m)
    BY <1>1, <2>3 DEF TransferInv, AlikeButEvents, SameFiles, ResultInv
  <2>6. PutInv(m)
    BY <1>1, <2>3 DEF TransferInv, AlikeButEvents, SameFiles, PutInv, Queued
  <2>7. GetInv(m)
    BY <1>1, <2>3 DEF TransferInv, AlikeButEvents, SameFiles, GetInv
  <2>8. NamesInv(m) /\ EventInv(m)
    BY <2>1, <2>2, <2>3 DEF TransferInv, NamesInv, EventInv, StagesOnly
  <2>9. KeepsLink(n, m)
    <3>1. ~Finished(n)
      BY <2>3 DEF KeepsLink, Finished, Quiet
    <3>2. Running(k) => Running(m)
      BY <2>2 DEF Running, Quiet
    <3>3. NoOurs(k) => NoOurs(m)
      BY <2>2 DEF NoOurs
    <3> QED
      BY <2>2, <2>3, <3>1, <3>2, <3>3 DEF KeepsLink
  <2>10. KeepsStages(n, m)
    <3>1. Copied(m) => Copied(k)
      BY <2>2 DEF Copied
    <3>2. KeepsStages(k, m)
      BY <1>1, <1>3, <2>2, <3>1, StagesWithMore DEF Copying
    <3> QED
      BY <2>3, <3>2, StagesCompose
  <2>11. KeepsNames(n, m)
    BY <2>2, <2>3 DEF KeepsNames
  <2>12. TransferInv(m)
    BY <1>1, <2>4, <2>5, <2>6, <2>7, <2>8 DEF TransferInv
  <2> QED
    BY <1>1, <2>9, <2>10, <2>11, <2>12 DEF Moves, m
<1> QED
  BY <1>1, <1>2, <1>3

LEMMA Below ==
    ASSUME NEW a \in Nat, NEW b \in Nat
    PROVE  (a + 1 <= b => a < b) /\ (a + 2 <= b => a + 1 < b /\ a < b)
  OBVIOUS

LEMMA LenAfter ==
    ASSUME NEW n \in Record, NEW m \in Record, NEW event \in EventName,
           m.events = Append(n.events, event)
    PROVE  Len(m.events) = Len(n.events) + 1
<1>1. n.events \in Seq(EventName)
  BY RecordFields
<1> QED
  BY <1>1, AppendFacts

\* Where no stage is dropped there is room for it.
LEMMA RoomToTell ==
    ASSUME NEW n \in Record, "dropped stage" \in Excluded
    PROVE  /\ CanTell(n, 1) => HasRoom(n)
           /\ CanTell(n, 2) => HasRoom(n) /\ Len(n.events) + 1 < QueueSize
           /\ Len(n.events) \in Nat
<1>1. Len(n.events) \in Nat
  BY RecordFields, LastFacts
<1>2. /\ CanTell(n, 1) => Len(n.events) + 1 <= QueueSize
      /\ CanTell(n, 2) => Len(n.events) + 2 <= QueueSize
  BY Zenon DEF CanTell
<1>3. QueueSize \in Nat
  BY Zenon, Constants
<1>4. /\ CanTell(n, 1) => Len(n.events) < QueueSize
      /\ CanTell(n, 2) => Len(n.events) + 1 < QueueSize /\ Len(n.events) < QueueSize
  BY <1>1, <1>2, <1>3, Below, Zenon
<1> QED
  BY <1>1, <1>4, Zenon DEF HasRoom

LEMMA OpenSftpMoves ==
    ASSUME native \in [Transfer -> Record], NEW t \in Transfer, TransferInv(native[t]),
           Linked(native[t]), OpenSftp(t)
    PROVE  MovesTo(t)
<1> DEFINE n == native[t]
           told == Tell(n, "transferring")
           ready == Ask(told, "lstat")
           m == IF n.direction = "put" THEN Tell(ready, "progress") ELSE ready
<1>1. n \in Record /\ n.phase = "opening" /\ n.phase \in Opening /\ n.phase \notin Quiet
  BY DEF OpenSftp, Opening, Quiet
<1>2. CASE n.fault = "Unavailable" /\ Become(t, Finish(n, "SFTP_UNAVAILABLE"))
  BY <1>1, <1>2, EarlyFails DEF Opening, Failure, MovesTo
<1>3. CASE Become(t, Finish(n, "SFTP_TIMEOUT"))
  BY <1>1, <1>3, EarlyFails DEF Opening, Failure, MovesTo
<1>4. CASE CanTell(n, 1) /\ Become(t, m)
  <2>1. /\ told \in Record /\ AlikeButEvents(n, told)
        /\ told.events = IF HasRoom(n) THEN Append(n.events, "transferring") ELSE n.events
    BY <1>1, TellFacts DEF Stage
  <2> HIDE DEF told
  <2>2. /\ ready \in Record /\ Asked(told, ready, "lstat") /\ SameFiles(told, ready)
        /\ ready.events = told.events /\ ready.copied = told.copied
        /\ ready.localTemp = told.localTemp /\ ready.result = told.result
    BY <2>1, AskFacts DEF RemoteCall, SameFiles
  <2> HIDE DEF ready
  <2>3. /\ SameFiles(n, ready) /\ Asked(n, ready, "lstat") /\ ready.copied = n.copied
        /\ ready.localTemp = n.localTemp /\ ready.result = n.result /\ ready.phase = "lstat"
    BY <2>1, <2>2 DEF AlikeButEvents, SameFiles, Asked
  <2>4. n.requests = <<>> /\ n.result = None /\ n.copied = 0 /\ StagesOnly(n)
        /\ (n.direction = "put" => n.temp = Absent /\ n.localTemp = Absent)
        /\ (n.direction = "get" => n.localTemp = Ours(n.copied))
        /\ n.direction \in {"put", "get"}
    BY <1>1, AtWork, RecordFields DEF TransferInv, QueueInv, PutInv, GetInv, ResultInv, Opening, Early, Over
  <2>5. StagesOnly(ready)
    <3>1. CASE ready.events = n.events
      BY <2>4, <3>1 DEF StagesOnly
    <3>2. CASE ready.events = Append(n.events, "transferring")
      BY <1>1, <2>2, <2>4, <3>2, MoreStagesOnly DEF Stage
    <3> QED
      BY <2>1, <2>2, <3>1, <3>2
  <2>6. KeepsStages(n, ready)
    <3>1. SUFFICES ASSUME "dropped stage" \in Excluded
                   PROVE  KeepsStages(n, ready)
      BY DEF KeepsStages
    <3>2. HasRoom(n)
      <4>1. CanTell(n, 1)
        BY <1>4
      <4> QED
        BY <1>1, <3>1, <4>1, RoomToTell
    <3> QED
      BY <1>1, <2>1, <2>2, <2>3, <3>2, TransferringTold
  <2>7. AskStep(n, ready, "lstat")
    BY <2>3, <2>4, <2>5, Calls DEF AskStep, SameFiles
  <2>8. ResultInv(ready)
    BY <2>3, <2>4 DEF ResultInv
  <2>9. PutInv(ready) /\ GetInv(ready)
    <3>1. CASE n.direction = "put"
      BY <1>1, <2>2, <2>3, <2>4, <2>7, <3>1, PutAsks
    <3>2. CASE n.direction = "get"
      BY <1>1, <2>2, <2>3, <2>4, <2>7, <3>2, GetAsks
    <3> QED
      BY <2>4, <3>1, <3>2
  <2>10. Moves(n, ready)
    BY <1>1, <2>2, <2>4, <2>6, <2>7, <2>8, <2>9, Asks
  <2>11. Tell(ready, "progress") \in Record /\ Moves(n, Tell(ready, "progress"))
    <3>1. ready.phase \notin Opening \cup Quiet
      BY <2>3 DEF Opening, Quiet
    <3> QED
      BY <1>1, <2>2, <2>5, <2>10, <3>1, ProgressMoves
  <2> QED
    BY <1>4, <2>2, <2>10, <2>11 DEF MovesTo
<1> QED
  BY <1>2, <1>3, <1>4 DEF OpenSftp
-----------------------------------------------------------------------------
(* The copy: what is asked after a block, and after the last one.           *)

LEMMA AskWithResult ==
    ASSUME NEW n \in Record, NEW call \in RemoteCall,
           NEW result \in Failure \cup {None, "ok", "cancelled"}
    PROVE  LET m == [Ask(n, call) EXCEPT !.result = result] IN
           /\ m \in Record /\ Asked(n, m, call) /\ SameFiles(n, m) /\ m.result = result
           /\ m.localTemp = n.localTemp /\ m.copied = n.copied /\ m.events = n.events
           /\ m.abandoned = n.abandoned
<1> DEFINE k == Ask(n, call)
           m == [k EXCEPT !.result = result]
<1>1. /\ k \in Record /\ Asked(n, k, call) /\ SameFiles(n, k) /\ k.localTemp = n.localTemp
      /\ k.copied = n.copied /\ k.events = n.events /\ k.abandoned = n.abandoned
  BY AskFacts DEF SameFiles
<1> HIDE DEF k
<1>2. m \in Record
  BY <1>1 DEF Record
<1>3. /\ m.result = result /\ SameFiles(k, m) /\ m.localTemp = k.localTemp
      /\ m.copied = k.copied /\ m.events = k.events /\ m.abandoned = k.abandoned
      /\ m.phase = k.phase /\ m.reply = k.reply /\ m.requests = k.requests
  BY <1>1 DEF Record, SameFiles
<1> HIDE DEF m
<1>4. Asked(n, m, call) /\ SameFiles(n, m)
  BY <1>1, <1>3 DEF Asked, SameFiles
<1> QED
  BY <1>1, <1>2, <1>3, <1>4 DEF k, m

\* k is n, after a block, a report of progress or a request that was given up.
Copies(n, k) ==
    /\ SameFiles(n, k) /\ k.requests = n.requests /\ k.result = n.result
    /\ StagesOnly(k) /\ KeepsStages(n, k) /\ k.phase = n.phase
    /\ k.direction = "get" => k.localTemp = Ours(k.copied)
    /\ k.direction = "put" => k.localTemp = Absent
    /\ k.copied = n.copied \/ n.requests = <<>>

LEMMA AskedOfCopy ==
    ASSUME NEW n \in Record, NEW k \in Record, NEW m \in Record, NEW call, Copies(n, k),
           call \in CallOf(n.direction), StagesOnly(m),
           Asked(k, m, call), SameFiles(k, m), m.localTemp = k.localTemp, m.copied = k.copied
    PROVE  AskStep(n, m, call)
<1>1. Asked(n, m, call)
  BY DEF Asked, Copies
<1> QED
  BY <1>1 DEF AskStep, Copies, SameFiles

LEMMA CopyFailsMoves ==
    ASSUME NEW n \in Record, NEW k \in Record, TransferInv(n), Linked(n), Copies(n, k),
           n.phase \in {"open", "write", "read"}, NEW result \in Failure \cup {"cancelled"}
    PROVE  CopyFails(k, result) \in Record /\ Moves(n, CopyFails(k, result))
<1> DEFINE m == CopyFails(k, result)
<1>1. /\ m \in Record /\ Asked(k, m, "close") /\ SameFiles(k, m) /\ m.result = result
      /\ m.localTemp = k.localTemp /\ m.copied = k.copied /\ m.events = k.events
  BY AskWithResult DEF CopyFails, RemoteCall
<1> HIDE DEF m
<1>2. result \notin {None, "ok"}
  BY NoneFacts DEF Failure
<1>3. n.phase \notin Quiet /\ n.direction \in {"put", "get"}
  BY RecordFields DEF Quiet
<1>4. StagesOnly(m)
  BY <1>1 DEF Copies, StagesOnly
<1>5. AskStep(n, m, "close")
  BY <1>1, <1>3, <1>4, AskedOfCopy, Calls
<1>6. ResultInv(m)
  BY <1>1, <1>2 DEF ResultInv, Asked, Over
<1>7. PutInv(m) /\ GetInv(m)
  <2>1. m.copied = n.copied \/ n.requests = <<>>
    BY <1>1 DEF Copies
  <2>2. CASE n.direction = "put"
    BY <1>1, <1>2, <1>5, <2>1, <2>2, PutAsks
  <2>3. CASE n.direction = "get"
    BY <1>1, <1>2, <1>5, <2>3, GetAsks
  <2> QED
    BY <1>3, <2>2, <2>3
<1>8. KeepsStages(n, m)
  <2>1. m.phase = "close" /\ ~Copied(m)
    BY <1>1, <1>2 DEF Asked, Copied, Over
  <2>2. KeepsStages(k, m)
    BY <1>1, <2>1, StagesKept DEF Opening, Copying
  <2> QED
    BY <2>2, StagesCompose DEF Copies
<1>9. Moves(n, m)
  BY <1>1, <1>2, <1>3, <1>5, <1>6, <1>7, <1>8, Asks DEF Alone
<1> QED
  BY <1>1, <1>9 DEF m

\* The copy is complete, or the source has changed.
LEMMA CopyEndsMoves ==
    ASSUME NEW n \in Record, NEW k \in Record, TransferInv(n), Linked(n), Copies(n, k),
           n.phase \in {"open", "write", "read"}, n.requests = <<>>, n.result = None,
           n.direction = "put" => k.temp = Ours(k.copied),
           CopyEnds(k).phase = "close" /\ CopyEnds(k).result = None => CanTell(k, 2)
    PROVE  CopyEnds(k) \in Record /\ Moves(n, CopyEnds(k))
<1>1. CASE k.copied # Blocks
  BY <1>1, CopyFailsMoves DEF CopyEnds, Failure
<1>2. CASE k.copied = Blocks
  <2> DEFINE k1 == Tell(k, "progress")
             k2 == Tell(k1, "finalizing")
             m == Ask(k2, "close")
  <2>1. CopyEnds(k) = m
    BY <1>2 DEF CopyEnds
  <2>2. /\ k1 \in Record /\ AlikeButEvents(k, k1)
        /\ k1.events = IF HasRoom(k) THEN Append(k.events, "progress") ELSE k.events
    BY TellFacts DEF Stage
  <2> HIDE DEF k1
  <2>3. /\ k2 \in Record /\ AlikeButEvents(k1, k2)
        /\ k2.events = IF HasRoom(k1) THEN Append(k1.events, "finalizing") ELSE k1.events
    BY <2>2, TellFacts DEF Stage
  <2> HIDE DEF k2
  <2>4. /\ m \in Record /\ Asked(k2, m, "close") /\ SameFiles(k2, m) /\ m.result = k2.result
        /\ m.localTemp = k2.localTemp /\ m.copied = k2.copied /\ m.events = k2.events
    BY <2>3, AskFacts DEF RemoteCall, SameFiles
  <2> HIDE DEF m
  <2>5. /\ Asked(k, m, "close") /\ SameFiles(k, m) /\ m.localTemp = k.localTemp
        /\ m.copied = k.copied /\ m.result = None /\ m.phase = "close" /\ k1.phase = n.phase
    BY <2>2, <2>3, <2>4 DEF AlikeButEvents, SameFiles, Asked, Copies
  <2>6. CanTell(k, 2)
    BY <2>1, <2>5
  <2>7. StagesOnly(m)
    <3>1. StagesOnly(k1)
      BY <2>2, MoreStagesOnly DEF Copies, Stage, StagesOnly
    <3>2. StagesOnly(k2)
      BY <2>2, <2>3, <3>1, MoreStagesOnly DEF Stage, StagesOnly
    <3> QED
      BY <2>4, <3>2 DEF StagesOnly
  <2>8. AskStep(n, m, "close")
    BY <2>4, <2>5, <2>7, AskedOfCopy, Calls, RecordFields
  <2>9. PutInv(m) /\ GetInv(m)
    <3>1. CASE n.direction = "put"
      <4>1. n.temp = Ours(Blocks)
        BY <1>2, <3>1 DEF Copies, SameFiles
      <4> QED
        BY <2>4, <2>8, <3>1, <4>1, PutAsks
    <3>2. CASE n.direction = "get"
      <4>1. m.copied = Blocks
        BY <1>2, <2>5
      <4> QED
        BY <2>4, <2>8, <3>2, <4>1, GetAsks
    <3> QED
      BY <3>1, <3>2, RecordFields
  <2>10. ResultInv(m)
    BY <2>5, NoneFacts DEF ResultInv
  <2>11. KeepsStages(n, m)
    <3> SUFFICES ASSUME "dropped stage" \in Excluded
                 PROVE  KeepsStages(n, m)
      BY DEF KeepsStages
    <3>1. HasRoom(k) /\ Len(k.events) + 1 < QueueSize
      BY <2>6, RoomToTell
    <3>2. k1.events = Append(k.events, "progress")
      BY <2>2, <3>1
    <3>3. Len(k1.events) = Len(k.events) + 1
      <4>1. "progress" \in EventName
        BY DEF EventName, Stage
      <4> QED
        BY <2>2, <3>2, <4>1, LenAfter, Zenon
    <3>4. HasRoom(k1)
      BY <3>1, <3>3, Zenon DEF HasRoom
    <3>5. KeepsStages(k, k1)
      <4>1. k1.phase = k.phase /\ k1.result = k.result /\ k.phase \in {"open", "write", "read"}
        BY <2>2 DEF AlikeButEvents, Copies
      <4>2. (Copied(k1) => Copied(k)) /\ k1.phase \notin Opening
            /\ (k1.phase \in Copying => k.phase \in Copying)
        BY <4>1 DEF Copied, Opening, Copying
      <4> QED
        BY <2>2, <3>2, <4>2, StagesWithMore
    <3>6. KeepsStages(k1, m)
      <4>1. m.events = Append(k1.events, "finalizing") /\ k1.phase \in Copying
        BY <2>3, <2>4, <2>5, <3>4 DEF Copying
      <4> QED
        BY <2>2, <2>4, <2>5, <4>1, FinalizingTold
    <3>7. KeepsStages(k, m)
      BY <3>5, <3>6, StagesCompose
    <3> QED
      BY <3>7, StagesCompose DEF Copies
  <2>12. Moves(n, m)
    <3>1. n.phase \notin Quiet
      BY DEF Quiet
    <3> QED
      BY <2>4, <2>8, <2>9, <2>10, <2>11, <3>1, Asks
  <2> QED
    BY <2>1, <2>4, <2>12
<1> QED
  BY <1>1, <1>2
LEMMA NextBlockMoves ==
    ASSUME NEW n \in Record, NEW k \in Record, TransferInv(n), Linked(n), Copies(n, k),
           n.phase \in {"open", "fstat", "write", "read"}, n.requests = <<>>, n.result = None,
           n.direction = "put" => k.temp = Ours(k.copied) /\ n.phase \in {"open", "write"},
           NextBlock(k).phase = "close" /\ NextBlock(k).result = None => CanTell(k, 2)
    PROVE  NextBlock(k) \in Record /\ Moves(n, NextBlock(k))
<1>1. n.phase \notin Quiet /\ n.direction \in {"put", "get"} /\ k.direction = n.direction
  BY RecordFields DEF Quiet, Copies, SameFiles
<1>2. ASSUME NEW call \in {"read", "write"}, call \in CallOf(n.direction),
             call = "write" => n.direction = "put" /\ k.copied <= Blocks
      PROVE  Ask(k, call) \in Record /\ Moves(n, Ask(k, call))
  <2> DEFINE m == Ask(k, call)
  <2>1. /\ m \in Record /\ Asked(k, m, call) /\ SameFiles(k, m) /\ m.result = k.result
        /\ m.localTemp = k.localTemp /\ m.copied = k.copied /\ m.events = k.events
    BY AskFacts DEF RemoteCall, SameFiles
  <2> HIDE DEF m
  <2>2. StagesOnly(m) /\ m.phase = call
    BY <2>1 DEF Copies, StagesOnly, Asked
  <2>3. AskStep(n, m, call)
    BY <1>2, <2>1, <2>2, AskedOfCopy
  <2>4. ResultInv(m)
    BY <2>1, <2>2 DEF ResultInv, Copies
  <2>5. PutInv(m) /\ GetInv(m)
    <3>1. CASE n.direction = "put"
      <4>1. call = "write"
        BY <1>2, <3>1, Calls
      <4>2. n.temp = Ours(m.copied) /\ m.copied <= Blocks
        BY <1>2, <2>1, <3>1, <4>1 DEF Copies, SameFiles
      <4> QED
        BY <2>1, <2>3, <3>1, <4>1, <4>2, PutAsks
    <3>2. CASE n.direction = "get"
      BY <2>1, <2>3, <3>2, GetAsks
    <3> QED
      BY <1>1, <3>1, <3>2
  <2>6. KeepsStages(n, m)
    <3>1. KeepsStages(k, m)
      <4>1. m.phase \notin Opening /\ ~Copied(m) /\ k.phase \in Copying
        BY <2>2 DEF Copied, Over, Opening, Copying, Copies
      <4> QED
        BY <2>1, <4>1, StagesKept
    <3> QED
      BY <3>1, StagesCompose DEF Copies
  <2>7. Moves(n, m)
    BY <1>1, <2>1, <2>3, <2>4, <2>5, <2>6, Asks
  <2> QED
    BY <2>1, <2>7 DEF m
<1>3. CASE n.direction = "get"
  BY <1>1, <1>2, <1>3, Calls DEF NextBlock
<1>4. CASE n.direction = "put" /\ k.copied >= k.size
  <2>1. NextBlock(k) = CopyEnds(k)
    BY <1>1, <1>4 DEF NextBlock
  <2> QED
    BY <1>4, <2>1, CopyEndsMoves
<1>5. CASE n.direction = "put" /\ ~(k.copied >= k.size)
  <2>1. NextBlock(k) = Ask(k, "write")
    BY <1>1, <1>5 DEF NextBlock
  <2>2. k.copied \in Int /\ k.size \in Int /\ k.size <= Blocks + 1 /\ Blocks \in Int
    BY RecordFields, Constants
  <2>3. k.copied <= Blocks
    BY <1>5, <2>2
  <2> QED
    BY <1>2, <1>5, <2>1, <2>3, Calls
<1> QED
  BY <1>1, <1>3, <1>4, <1>5

\* What an answer finds: nothing else is asked, and what was asked is the phase.
LEMMA AtAnswer ==
    ASSUME NEW n \in Record, TransferInv(n), Linked(n), n.phase \in RemoteCall, n.reply # None
    PROVE  /\ n.requests = <<>> /\ n.phase \notin Quiet \cup {"report"} /\ n.phase \notin Over
           /\ n.phase \in CallOf(n.direction) /\ n.direction \in {"put", "get"}
           /\ n.phase \notin {"close", "remove"} => n.result = None
           /\ StagesOnly(n)
           /\ n.direction = "get" => n.localTemp = Ours(n.copied)
           /\ n.direction = "put" => n.localTemp = Absent
           /\ Copies(n, n)
<1>1. n.phase \notin Quiet \cup {"report"} /\ n.phase \notin Over
  BY DEF RemoteCall, Quiet, Over
<1>2. n.phase \in CallOf(n.direction) /\ n.direction \in {"put", "get"}
  BY RecordFields DEF TransferInv, QueueInv, CallOf
<1>3. n.phase \notin {"close", "remove"} => n.result = None
  BY <1>1 DEF TransferInv, ResultInv
<1>4. StagesOnly(n) /\ (n.direction = "get" => n.localTemp = Ours(n.copied))
  BY <1>1, AtWork
<1>5. n.direction = "put" => n.localTemp = Absent
  BY DEF TransferInv, PutInv
<1>6. KeepsStages(n, n)
  BY StagesKept
<1> QED
  BY <1>1, <1>2, <1>3, <1>4, <1>5, <1>6, Answered DEF Copies, SameFiles

\* An answer after which one thing is asked, and nothing else changes but the result.
LEMMA AnswerAsks ==
    ASSUME NEW n \in Record, TransferInv(n), Linked(n), n.phase \in RemoteCall, n.reply # None,
           NEW call \in CallOf(n.direction), NEW m \in Record, Asked(n, m, call),
           SameFiles(n, m), m.localTemp = n.localTemp, m.copied = n.copied,
           m.events = n.events, ResultInv(m),
           call \in {"lstat", "open", "fstat"} => n.copied = 0,
           n.direction = "put" /\ call \in {"lstat", "open"} => n.temp = Absent,
           n.direction = "put" /\ call = "rename" => n.temp = Ours(Blocks),
           call = "close" => m.result # None, call # "write",
           call \in Copying => n.phase \in Copying,
           call \in {"rename", "conflict"} => Copied(n)
    PROVE  Moves(n, m)
<1>1. /\ n.requests = <<>> /\ n.phase \notin Quiet /\ n.direction \in {"put", "get"}
      /\ StagesOnly(n)
      /\ n.direction = "get" => n.localTemp = Ours(n.copied)
      /\ n.direction = "put" => n.localTemp = Absent
  BY AtAnswer
<1>2. StagesOnly(m) /\ m.phase = call /\ call \in RemoteCall
  BY <1>1 DEF StagesOnly, Asked, CallOf
<1>3. AskStep(n, m, call)
  BY <1>1, <1>2 DEF AskStep, SameFiles
<1>4. PutInv(m) /\ GetInv(m)
  <2>1. CASE n.direction = "put"
    BY <1>3, <2>1, PutAsks
  <2>2. CASE n.direction = "get"
    BY <1>3, <2>2, GetAsks
  <2> QED
    BY <1>1, <2>1, <2>2
<1>5. KeepsStages(n, m)
  <2>1. m.phase \notin Opening /\ (Copied(m) => Copied(n))
    BY <1>2 DEF Copied, Opening, RemoteCall, Over
  <2> QED
    BY <1>2, <2>1, StagesKept
<1> QED
  BY <1>1, <1>3, <1>4, <1>5, Asks

\* An answer that ends the transfer.
LEMMA AnswerFinishes ==
    ASSUME NEW n \in Record, TransferInv(n), Linked(n), n.phase \in RemoteCall, n.reply # None,
           NEW result \in Failure \cup {"ok", "cancelled"},
           result = "ok" => n.direction = "put" /\ n.phase = "rename" /\ n.reply = "ok",
           n.direction = "put" /\ result \notin {"ok", "REMOTE_CLEANUP"} =>
              \/ n.phase = "lstat"
              \/ n.phase = "open" /\ n.reply # "ok"
              \/ n.phase = "remove" /\ n.reply # "error"
    PROVE  Finish(n, result) \in Record /\ Moves(n, Finish(n, result))
<1> DEFINE m == Finish(n, result)
<1>1. /\ m \in Record /\ SameFiles(n, m) /\ m.phase = "report" /\ m.result = result
      /\ m.reply = None /\ m.localTemp = n.localTemp /\ m.copied = n.copied
      /\ m.events = n.events /\ m.requests = n.requests
  BY FinishFacts
<1> HIDE DEF m
<1>2. n.phase \notin Quiet \cup {"report"} /\ result # None
  BY AtAnswer, NoneFacts
<1>3. Less(n, m)
  BY <1>1 DEF Less
<1>4. Moves(n, m)
  BY <1>1, <1>2, <1>3, Finishes
<1> QED
  BY <1>1, <1>4 DEF m
LEMMA BlockCopied ==
    ASSUME NEW n \in Record, TransferInv(n), Linked(n), n.phase \in RemoteCall, n.reply = "ok",
           n.phase \in {"write", "read"}, NEW k \in Record,
           k = IF n.direction = "get"
               THEN [n EXCEPT !.copied = @ + 1, !.localTemp.blocks = @ + 1]
               ELSE [n EXCEPT !.copied = @ + 1]
    PROVE  /\ Copies(n, k) /\ k.events = n.events /\ k.copied = n.copied + 1
           /\ n.direction = "put" => k.temp = Ours(k.copied)
<1>1. /\ n.requests = <<>> /\ n.direction \in {"put", "get"} /\ StagesOnly(n)
      /\ n.direction = "get" => n.localTemp = Ours(n.copied)
      /\ n.direction = "put" => n.localTemp = Absent
  BY AtAnswer, NoneFacts
<1>2. /\ SameFiles(n, k) /\ k.requests = n.requests /\ k.result = n.result
      /\ k.events = n.events /\ k.phase = n.phase /\ k.copied = n.copied + 1
      /\ n.direction = "put" => k.localTemp = n.localTemp
      /\ n.direction = "get" => k.localTemp = [n.localTemp EXCEPT !.blocks = @ + 1]
  BY <1>1 DEF Record, SameFiles
<1>3. k.direction = "get" => k.localTemp = Ours(k.copied)
  <2>1. [Ours(n.copied) EXCEPT !.blocks = @ + 1] = Ours(n.copied + 1)
    BY DEF Ours
  <2>2. n.direction = "get" => k.localTemp = [Ours(n.copied) EXCEPT !.blocks = @ + 1]
    BY <1>1, <1>2
  <2> QED
    BY <1>2, <2>1, <2>2 DEF SameFiles
<1>4. KeepsStages(n, k)
  <2>1. k.phase = n.phase /\ k.events = n.events /\ (Copied(k) => Copied(n))
    BY <1>2 DEF Copied
  <2> QED
    BY <2>1, StagesKept, Zenon
<1>5. Copies(n, k)
  BY <1>1, <1>2, <1>3, <1>4 DEF Copies, SameFiles, StagesOnly
<1>6. n.direction = "put" => k.temp = Ours(k.copied)
  <2>1. n.direction = "put" => n.phase = "write"
    BY Calls, AtAnswer, NoneFacts
  <2> QED
    BY <1>2, <2>1 DEF TransferInv, PutInv, SameFiles
<1> QED
  BY <1>2, <1>5, <1>6

LEMMA BlockTyped ==
    ASSUME NEW n \in Record, TransferInv(n), Linked(n), n.phase \in RemoteCall, n.reply = "ok",
           n.phase \in {"write", "read"}
    PROVE  (IF n.direction = "get"
            THEN [n EXCEPT !.copied = @ + 1, !.localTemp.blocks = @ + 1]
            ELSE [n EXCEPT !.copied = @ + 1]) \in Record
<1>1. n.direction = "put" => n.phase = "write"
  BY Calls, AtAnswer, NoneFacts
<1>2. n.direction = "get" => n.phase = "read"
  BY Calls, AtAnswer, NoneFacts
<1>3. n.direction \in {"put", "get"}
  BY RecordFields
<1>4. n.copied <= Blocks
  BY <1>1, <1>2, <1>3 DEF TransferInv, PutInv, GetInv
<1>5. n.copied \in 0..(Blocks + 1) /\ Blocks \in Nat
  BY RecordFields, Constants
<1> DEFINE next == n.copied + 1
<1>6. next \in 0..(Blocks + 1)
  BY <1>4, <1>5
<1>7. n.direction = "get" =>
        /\ n.localTemp = Ours(n.copied) /\ Ours(next) \in File
        /\ [n.localTemp EXCEPT !.blocks = @ + 1] = Ours(next)
  <2>1. n.direction = "get" => n.localTemp = Ours(n.copied)
    BY AtAnswer, NoneFacts
  <2>2. Ours(next) \in File
    BY <1>6, Files
  <2>3. [Ours(n.copied) EXCEPT !.blocks = @ + 1] = Ours(next)
    BY DEF Ours
  <2> QED
    BY <2>1, <2>2, <2>3
<1> HIDE DEF next
<1> DEFINE local == Ours(next)
<1> HIDE DEF local
<1>8. CASE n.direction = "get"
  <2>1. [n EXCEPT !.copied = next, !.localTemp = local] \in Record
    BY <1>6, <1>7, <1>8 DEF Record, local
  <2>2. [n EXCEPT !.copied = @ + 1, !.localTemp.blocks = @ + 1]
          = [n EXCEPT !.copied = next, !.localTemp = local]
    BY <1>7, <1>8 DEF Record, local, next
  <2> QED
    BY <1>8, <2>1, <2>2
<1>9. CASE n.direction # "get"
  <2>1. [n EXCEPT !.copied = next] \in Record
    BY <1>6 DEF Record
  <2> QED
    BY <1>9, <2>1 DEF next
<1> QED
  BY <1>8, <1>9

\* The temporary file is to be removed.
LEMMA RemoveMoves ==
    ASSUME NEW n \in Record, NEW k \in Record, TransferInv(n), Linked(n), Copies(n, k),
           n.direction = "put", n.phase \in {"close", "rename", "conflict"},
           NEW result \in Failure \cup {"cancelled"}
    PROVE  RemoveTemp(k, result) \in Record /\ Moves(n, RemoveTemp(k, result))
<1> DEFINE m == RemoveTemp(k, result)
<1>1. /\ m \in Record /\ Asked(k, m, "remove") /\ SameFiles(k, m) /\ m.result = result
      /\ m.localTemp = k.localTemp /\ m.copied = k.copied /\ m.events = k.events
  BY AskWithResult DEF RemoveTemp, RemoteCall
<1> HIDE DEF m
<1>2. result \notin {None, "ok"} /\ n.phase \notin Quiet
  BY NoneFacts DEF Failure, Quiet
<1>3. StagesOnly(m)
  BY <1>1 DEF Copies, StagesOnly
<1>4. AskStep(n, m, "remove")
  BY <1>1, <1>3, AskedOfCopy, Calls
<1>5. ResultInv(m)
  BY <1>1, <1>2 DEF ResultInv, Asked
<1>6. PutInv(m) /\ GetInv(m)
  <2>1. m.copied = n.copied \/ n.requests = <<>>
    BY <1>1 DEF Copies
  <2> QED
    BY <1>1, <1>4, <2>1, PutAsks
<1>7. KeepsStages(n, m)
  <2>1. m.phase = "remove" /\ ~Copied(m)
    BY <1>1, <1>2 DEF Asked, Copied, Over
  <2>2. KeepsStages(k, m)
    BY <1>1, <2>1, StagesKept DEF Opening, Copying
  <2> QED
    BY <2>2, StagesCompose DEF Copies
<1>8. Moves(n, m)
  BY <1>1, <1>2, <1>4, <1>5, <1>6, <1>7, Asks DEF Alone
<1> QED
  BY <1>1, <1>8 DEF m

LEMMA AfterPutMoves ==
    ASSUME NEW n \in Record, TransferInv(n), Linked(n), n.phase \in RemoteCall, n.reply # None,
           n.direction = "put", Announces(n) => CanTell(n, 2)
    PROVE  AfterPut(n) \in Record /\ Moves(n, AfterPut(n))
<1> DEFINE m == AfterPut(n)
<1>1. /\ n.requests = <<>> /\ n.phase \notin Quiet \cup {"report"}
      /\ n.phase \in CallOf("put") /\ Copies(n, n)
      /\ n.phase \notin {"close", "remove"} => n.result = None
  BY AtAnswer
<1>2. n.phase \in {"lstat", "open", "write", "close", "rename", "conflict", "remove"}
  BY <1>1, Calls DEF RemoteCall
<1>3. After(n) = m
  BY DEF After
<1>4. n.result \in Failure \cup {None, "ok", "cancelled"}
  BY RecordFields
<1>5. PutInv(n) /\ ResultInv(n)
  BY DEF TransferInv
<1>6. ASSUME NEW call \in RemoteCall, call \notin {"close", "remove"}, n.result = None
      PROVE  LET a == Ask(n, call) IN
             /\ a \in Record /\ Asked(n, a, call) /\ SameFiles(n, a)
             /\ a.localTemp = n.localTemp /\ a.copied = n.copied /\ a.events = n.events
             /\ ResultInv(a)
  <2> DEFINE a == Ask(n, call)
  <2>1. /\ a \in Record /\ Asked(n, a, call) /\ SameFiles(n, a) /\ a.result = n.result
        /\ a.localTemp = n.localTemp /\ a.copied = n.copied /\ a.events = n.events
    BY AskFacts DEF SameFiles
  <2> HIDE DEF a
  <2>2. ResultInv(a)
    BY <1>6, <2>1 DEF ResultInv, Asked
  <2> QED
    BY <2>1, <2>2 DEF a
<1>7. ASSUME NEW result \in Failure \cup {"cancelled"}, n.phase \in {"close", "rename", "conflict"}
      PROVE  RemoveTemp(n, result) \in Record /\ Moves(n, RemoveTemp(n, result))
  BY <1>1, <1>7, RemoveMoves
<1>8. CASE n.phase = "lstat"
  <2>1. CASE n.reply = "absent"
    <3>1. m = Ask(n, "open")
      BY <1>8, <2>1 DEF AfterPut
    <3>2. n.copied = 0 /\ n.temp = Absent
      BY <1>5, <1>8 DEF PutInv
    <3> QED
      BY <1>1, <1>6, <1>8, <3>1, <3>2, Calls, AnswerAsks DEF Copying, RemoteCall
  <2>2. CASE n.reply # "absent"
    <3>1. m = Finish(n, IF n.reply = "directory" THEN "REMOTE_PATH" ELSE "REMOTE_CONFLICT")
      BY <1>8, <2>2 DEF AfterPut
    <3> QED
      BY <1>8, <3>1, AnswerFinishes DEF Failure
  <2> QED
    BY <2>1, <2>2
<1>9. CASE n.phase = "open"
  <2>1. CASE n.reply = "ok"
    <3>1. m = NextBlock(n)
      BY <1>9, <2>1 DEF AfterPut
    <3>2. n.temp = Ours(n.copied)
      BY <1>5, <1>9, <2>1 DEF PutInv
    <3>3. NextBlock(n).phase = "close" /\ NextBlock(n).result = None => CanTell(n, 2)
      BY <1>3, <1>9, <3>1 DEF Announces
    <3> QED
      BY <1>1, <1>9, <3>1, <3>2, <3>3, NextBlockMoves
  <2>2. CASE n.reply # "ok"
    <3>1. m = Finish(n, "REMOTE_ERROR")
      BY <1>9, <2>2 DEF AfterPut
    <3> QED
      BY <1>9, <2>2, <3>1, AnswerFinishes DEF Failure
  <2> QED
    BY <2>1, <2>2
<1>10. CASE n.phase = "write"
  <2>1. CASE n.reply = "ok"
    <3> DEFINE k == [n EXCEPT !.copied = @ + 1]
    <3>1. m = NextBlock(k)
      BY <1>10, <2>1 DEF AfterPut
    <3>2. k \in Record
      BY <1>10, <2>1, BlockTyped
    <3> HIDE DEF k
    <3>3. Copies(n, k) /\ k.events = n.events /\ k.temp = Ours(k.copied)
      BY <1>10, <2>1, <3>2, BlockCopied DEF k
    <3>4. NextBlock(k).phase = "close" /\ NextBlock(k).result = None => CanTell(k, 2)
      <4>1. NextBlock(k).phase = "close" /\ NextBlock(k).result = None => CanTell(n, 2)
        BY <1>3, <1>10, <3>1 DEF Announces
      <4> QED
        BY <3>3, <4>1, Zenon DEF CanTell
    <3> QED
      BY <1>1, <1>10, <3>1, <3>2, <3>3, <3>4, NextBlockMoves
  <2>2. CASE n.reply # "ok"
    <3>1. m = CopyFails(n, "REMOTE_ERROR")
      BY <1>10, <2>2 DEF AfterPut
    <3> QED
      BY <1>1, <1>10, <3>1, CopyFailsMoves DEF Failure
  <2> QED
    BY <2>1, <2>2
<1>11. CASE n.phase = "close"
  <2>1. CASE n.result # None
    <3>1. m = RemoveTemp(n, n.result)
      BY <1>11, <2>1 DEF AfterPut
    <3>2. n.result \in Failure \cup {"cancelled"}
      BY <1>4, <1>5, <1>11, <2>1 DEF ResultInv
    <3> QED
      BY <1>7, <1>11, <3>1, <3>2
  <2>2. CASE n.result = None
    <3>1. m = Ask(n, "rename")
      BY <1>11, <2>2 DEF AfterPut
    <3>2. n.temp = Ours(Blocks) /\ Copied(n)
      BY <1>5, <1>11, <2>2 DEF PutInv, Copied
    <3> QED
      BY <1>6, <2>2, <3>1, <3>2, Calls, AnswerAsks DEF Copying, RemoteCall
  <2> QED
    BY <2>1, <2>2
<1>12. CASE n.phase = "rename"
  <2>1. CASE n.reply = "ok"
    <3>1. m = Finish(n, "ok")
      BY <1>12, <2>1 DEF AfterPut
    <3> QED
      BY <1>12, <2>1, <3>1, AnswerFinishes DEF Failure
  <2>2. CASE n.reply # "ok"
    <3>1. m = Ask(n, "conflict")
      BY <1>12, <2>2 DEF AfterPut
    <3>2. Copied(n)
      BY <1>12 DEF Copied
    <3> QED
      BY <1>1, <1>6, <1>12, <3>1, <3>2, Calls, AnswerAsks DEF Copying, RemoteCall
  <2> QED
    BY <2>1, <2>2
<1>13. CASE n.phase = "conflict"
  <2>1. m = RemoveTemp(n, IF n.reply \in {"ok", "directory"} THEN "REMOTE_CONFLICT" ELSE "REMOTE_ERROR")
    BY <1>13 DEF AfterPut, OnConflict
  <2> QED
    BY <1>7, <1>13, <2>1 DEF Failure
<1>14. CASE n.phase = "remove"
  <2>1. m = Finish(n, IF n.reply = "error" THEN "REMOTE_CLEANUP" ELSE n.result)
    BY <1>14 DEF AfterPut
  <2>2. n.result \in Failure \cup {"cancelled"}
    BY <1>4, <1>5, <1>14 DEF ResultInv
  <2>3. CASE n.reply = "error"
    BY <1>14, <2>1, <2>3, AnswerFinishes DEF Failure
  <2>4. CASE n.reply # "error"
    <3>1. n.result # "ok"
      BY <1>5, <1>14 DEF ResultInv
    <3> QED
      BY <1>14, <2>1, <2>2, <2>4, <3>1, AnswerFinishes
  <2> QED
    BY <2>3, <2>4
<1> QED
  BY <1>2, <1>8, <1>9, <1>10, <1>11, <1>12, <1>13, <1>14
\* The file of a download is flushed and synchronised.
LEMMA FlushMoves ==
    ASSUME NEW n \in Record, NEW m \in Record, TransferInv(n), Linked(n),
           n.direction = "get", n.requests = <<>>, n.result = None, n.copied = Blocks,
           n.phase = "close" \/ n.phase = "flush", m.phase \in LocalCall,
           SameFiles(n, m), m.requests = n.requests, m.result = n.result, m.reply = None,
           m.localTemp = n.localTemp, m.copied = n.copied, m.events = n.events
    PROVE  Moves(n, m)
<1>1. m.direction = "get" /\ m.remote = n.remote /\ m.temp = n.temp
  BY DEF SameFiles
<1>2. m.phase \notin Quiet /\ n.phase \notin Quiet /\ m.phase \notin Over \cup Early \cup RemoteCall
      /\ m.phase \in PhaseOf("get") /\ m.phase \notin Alone
  BY DEF LocalCall, Quiet, Over, Early, RemoteCall, PhaseOf, Alone
<1>3. StagesOnly(m) /\ m.localTemp = Ours(m.copied)
  BY <1>2, AtWork DEF StagesOnly
<1>4. QueueInv(m)
  <2>1. m.requests = <<>> /\ DOMAIN m.requests = {}
    OBVIOUS
  <2>2. m.phase \notin {"lstat", "close"} /\ m.phase \in PhaseOf(m.direction)
    BY <1>1, <1>2 DEF RemoteCall
  <2> QED
    BY <1>2, <2>1, <2>2 DEF QueueInv
<1>5. ResultInv(m)
  BY NoneFacts DEF ResultInv, LocalCall
<1>6. PutInv(m) /\ GetInv(m)
  BY <1>1, <1>2 DEF TransferInv, PutInv, GetInv, RemoteCall, LocalCall, Over, Early
<1>7. KeepsStages(n, m)
  <2>1. Copied(n) /\ m.phase \notin Opening \cup Copying
    BY DEF Copied, LocalCall, Opening, Copying
  <2> QED
    BY <2>1, StagesKept
<1>8. NamesInv(m) /\ EventInv(m) /\ KeepsLink(n, m) /\ KeepsNames(n, m)
  BY <1>2, <1>3, Works
<1> QED
  BY <1>4, <1>5, <1>6, <1>7, <1>8 DEF Moves, TransferInv

LEMMA AfterGetMoves ==
    ASSUME NEW n \in Record, TransferInv(n), Linked(n), n.phase \in RemoteCall, n.reply # None,
           n.direction = "get", Announces(n) => CanTell(n, 2)
    PROVE  AfterGet(n) \in Record /\ Moves(n, AfterGet(n))
<1> DEFINE m == AfterGet(n)
<1>1. /\ n.requests = <<>> /\ n.phase \notin Quiet \cup {"report"}
      /\ n.phase \in CallOf("get") /\ Copies(n, n) /\ StagesOnly(n)
      /\ n.phase \notin {"close", "remove"} => n.result = None
      /\ n.localTemp = Ours(n.copied)
  BY AtAnswer
<1>2. n.phase \in {"lstat", "open", "fstat", "read", "close"}
  BY <1>1, Calls DEF RemoteCall
<1>3. After(n) = m
  BY DEF After
<1>4. n.result \in Failure \cup {None, "ok", "cancelled"}
  BY RecordFields
<1>5. GetInv(n) /\ ResultInv(n)
  BY DEF TransferInv
<1>6. ASSUME NEW call \in {"open", "fstat"}, n.phase \in {"lstat", "open"}
      PROVE  Ask(n, call) \in Record /\ Moves(n, Ask(n, call))
  <2> DEFINE a == Ask(n, call)
  <2>1. /\ a \in Record /\ Asked(n, a, call) /\ SameFiles(n, a) /\ a.result = n.result
        /\ a.localTemp = n.localTemp /\ a.copied = n.copied /\ a.events = n.events
    BY AskFacts DEF SameFiles, RemoteCall
  <2> HIDE DEF a
  <2>2. ResultInv(a)
    BY <1>1, <1>6, <2>1 DEF ResultInv, Asked
  <2>3. n.copied = 0
    BY <1>5, <1>6 DEF GetInv
  <2>4. Moves(n, a)
    BY <1>6, <2>1, <2>2, <2>3, Calls, AnswerAsks DEF Copying
  <2> QED
    BY <2>1, <2>4 DEF a
<1>7. CASE n.phase = "lstat"
  <2>1. CASE n.reply = "ok"
    <3>1. m = Ask(n, "open")
      BY <1>7, <2>1 DEF AfterGet
    <3> QED
      BY <1>6, <1>7, <3>1
  <2>2. CASE n.reply # "ok"
    <3>1. m = Finish(n, IF n.reply = "absent" THEN "REMOTE_NOT_FOUND" ELSE "REMOTE_PATH")
      BY <1>7, <2>2 DEF AfterGet
    <3> QED
      BY <1>7, <3>1, AnswerFinishes DEF Failure
  <2> QED
    BY <2>1, <2>2
<1>8. CASE n.phase = "open"
  <2>1. CASE n.reply = "ok"
    <3>1. m = Ask(n, "fstat")
      BY <1>8, <2>1 DEF AfterGet
    <3> QED
      BY <1>6, <1>8, <3>1
  <2>2. CASE n.reply # "ok"
    <3>1. m = Finish(n, "REMOTE_ERROR")
      BY <1>8, <2>2 DEF AfterGet
    <3> QED
      BY <1>8, <3>1, AnswerFinishes DEF Failure
  <2> QED
    BY <2>1, <2>2
<1>9. CASE n.phase = "fstat"
  <2> DEFINE k == Tell(n, "progress")
  <2>1. m = NextBlock(k)
    BY <1>9 DEF AfterGet
  <2>2. /\ k \in Record /\ AlikeButEvents(n, k)
        /\ k.events = IF HasRoom(n) THEN Append(n.events, "progress") ELSE n.events
    BY TellFacts DEF Stage
  <2> HIDE DEF k
  <2>3. StagesOnly(k)
    <3>1. CASE k.events = n.events
      BY <1>1, <3>1 DEF StagesOnly
    <3>2. CASE k.events = Append(n.events, "progress")
      BY <1>1, <2>2, <3>2, MoreStagesOnly DEF Stage
    <3> QED
      BY <2>2, <3>1, <3>2
  <2>4. KeepsStages(n, k)
    <3>1. k.phase = n.phase /\ k.result = n.result /\ n.phase \notin Opening
          /\ (Copied(k) => Copied(n))
      BY <1>9, <2>2 DEF AlikeButEvents, Copied, Opening
    <3>2. CASE k.events = n.events
      BY <3>1, <3>2, StagesKept
    <3>3. CASE k.events = Append(n.events, "progress")
      BY <2>2, <3>1, <3>3, StagesWithMore
    <3> QED
      BY <2>2, <3>2, <3>3
  <2>5. Copies(n, k)
    BY <1>1, <2>2, <2>3, <2>4 DEF Copies, AlikeButEvents, SameFiles
  <2>6. NextBlock(k) = Ask(k, "read")
    BY <2>2 DEF NextBlock, AlikeButEvents, SameFiles
  <2>7. NextBlock(k).phase # "close"
    BY <2>2, <2>6, AskFacts DEF Asked, RemoteCall
  <2> QED
    BY <1>1, <1>9, <2>1, <2>2, <2>5, <2>7, NextBlockMoves
<1>10. CASE n.phase = "read"
  <2>1. CASE n.reply = "eof"
    <3>1. m = CopyEnds(n)
      BY <1>10, <2>1 DEF AfterGet
    <3>2. CopyEnds(n).phase = "close" /\ CopyEnds(n).result = None => CanTell(n, 2)
      BY <1>3, <1>10, <3>1 DEF Announces
    <3> QED
      BY <1>1, <1>10, <3>1, <3>2, CopyEndsMoves
  <2>2. CASE n.reply # "eof"
    <3> DEFINE k == [n EXCEPT !.copied = @ + 1, !.localTemp.blocks = @ + 1]
    <3>1. m = NextBlock(k)
      BY <1>10, <2>2 DEF AfterGet
    <3>2. n.reply = "ok"
      BY <1>5, <1>10, <2>2 DEF GetInv
    <3>3. k \in Record
      BY <1>10, <3>2, BlockTyped
    <3>4. Copies(n, k) /\ k.events = n.events
      BY <1>10, <3>2, <3>3, BlockCopied
    <3> HIDE DEF k
    <3>5. NextBlock(k).phase = "close" /\ NextBlock(k).result = None => CanTell(k, 2)
      <4>1. NextBlock(k).phase = "close" /\ NextBlock(k).result = None => CanTell(n, 2)
        BY <1>3, <1>10, <3>1 DEF Announces
      <4> QED
        BY <3>4, <4>1, Zenon DEF CanTell
    <3> QED
      BY <1>1, <1>10, <3>1, <3>3, <3>4, <3>5, NextBlockMoves
  <2> QED
    BY <2>1, <2>2
<1>11. CASE n.phase = "close"
  <2>1. CASE n.result # None
    <3>1. m = Finish(n, n.result)
      BY <1>11, <2>1 DEF AfterGet
    <3>2. n.result \in Failure \cup {"cancelled"} /\ n.result # "ok"
      BY <1>4, <1>5, <1>11, <2>1 DEF ResultInv
    <3> QED
      BY <1>11, <3>1, <3>2, AnswerFinishes
  <2>2. CASE n.result = None
    <3> DEFINE a == [n EXCEPT !.phase = "flush", !.reply = None]
    <3>1. m = a
      BY <1>11, <2>2 DEF AfterGet
    <3>2. "flush" \in Phase /\ "flush" \in LocalCall
      BY DEF Phase, Executing, LocalCall
    <3>3. a \in Record
      BY <3>2 DEF Record
    <3>4. /\ a.phase = "flush" /\ a.reply = None /\ SameFiles(n, a) /\ a.requests = n.requests
          /\ a.result = n.result /\ a.localTemp = n.localTemp /\ a.copied = n.copied
          /\ a.events = n.events
      BY DEF Record, SameFiles
    <3>5. n.copied = Blocks
      BY <1>5, <1>11, <2>2 DEF GetInv
    <3> HIDE DEF a
    <3> QED
      BY <1>1, <1>11, <2>2, <3>1, <3>2, <3>3, <3>4, <3>5, FlushMoves
  <2> QED
    BY <2>1, <2>2
<1> QED
  BY <1>2, <1>7, <1>8, <1>9, <1>10, <1>11

LEMMA TakeReplyMoves ==
    ASSUME native \in [Transfer -> Record], NEW t \in Transfer, TransferInv(native[t]),
           Linked(native[t]), TakeReply(t)
    PROVE  MovesTo(t)
<1> DEFINE n == native[t]
<1>1. /\ n \in Record /\ n.phase \in RemoteCall /\ n.reply # None
      /\ Announces(n) => CanTell(n, 2)
      /\ Become(t, After(n))
  BY Zenon DEF TakeReply
<1>2. n.direction \in {"put", "get"}
  BY <1>1, RecordFields
<1>3. CASE n.direction = "put"
  BY <1>1, <1>3, AfterPutMoves DEF After, MovesTo
<1>4. CASE n.direction = "get"
  BY <1>1, <1>4, AfterGetMoves DEF After, MovesTo
<1> QED
  BY <1>2, <1>3, <1>4
LEMMA LocalStepMoves ==
    ASSUME native \in [Transfer -> Record], NEW t \in Transfer, TransferInv(native[t]),
           Linked(native[t]), LocalStep(t)
    PROVE  MovesTo(t)
<1> DEFINE n == native[t]
           synced == [n EXCEPT !.phase = "sync"]
<1>1. n \in Record /\ n.phase \in LocalCall
  BY DEF LocalStep
<1>2. n.phase \notin Quiet \cup {"report", "close", "remove"} \cup Over \cup RemoteCall
  BY <1>1 DEF LocalCall, Quiet, Over, RemoteCall
<1>3. n.direction = "get" /\ n.requests = <<>> /\ n.result = None /\ n.reply = None
  <2>1. n.direction \in {"put", "get"} /\ n.phase \in PhaseOf(n.direction)
    BY <1>1, RecordFields DEF TransferInv, QueueInv
  <2>2. n.direction = "get"
    BY <1>1, <2>1, Calls DEF LocalCall
  <2> QED
    BY <1>1, <1>2, <2>2 DEF TransferInv, QueueInv, ResultInv
<1>4. n.copied = Blocks
  BY <1>1, <1>3 DEF TransferInv, GetInv
<1>5. CASE n.phase = "flush" /\ Become(t, synced)
  <2>1. "sync" \in Phase /\ "sync" \in LocalCall
    BY DEF Phase, Executing, LocalCall
  <2>2. synced \in Record
    BY <1>1, <2>1 DEF Record
  <2>3. /\ synced.phase = "sync" /\ synced.reply = n.reply /\ SameFiles(n, synced)
        /\ synced.requests = n.requests /\ synced.result = n.result
        /\ synced.localTemp = n.localTemp /\ synced.copied = n.copied
        /\ synced.events = n.events
    BY <1>1 DEF Record, SameFiles
  <2> HIDE DEF synced
  <2>4. Moves(n, synced)
    BY <1>1, <1>3, <1>4, <1>5, <2>1, <2>2, <2>3, FlushMoves
  <2> QED
    BY <1>5, <2>2, <2>4 DEF MovesTo
<1>6. ASSUME NEW result \in {"ok", "LOCAL_IO"}, result = "ok" => n.phase = "sync"
      PROVE  Finish(n, result) \in Record /\ Moves(n, Finish(n, result))
  <2> DEFINE m == Finish(n, result)
  <2>1. /\ m \in Record /\ SameFiles(n, m) /\ m.phase = "report" /\ m.result = result
        /\ m.reply = None /\ m.localTemp = n.localTemp /\ m.copied = n.copied
        /\ m.events = n.events /\ m.requests = n.requests
    BY <1>1, FinishFacts DEF Failure
  <2> HIDE DEF m
  <2>2. Less(n, m) /\ result # None
    BY <2>1, NoneFacts DEF Less, Failure
  <2>3. Moves(n, m)
    BY <1>1, <1>2, <1>3, <1>6, <2>1, <2>2, Finishes
  <2> QED
    BY <2>1, <2>3 DEF m
<1>7. n.phase = "flush" \/ n.phase = "sync"
  BY <1>1 DEF LocalCall
<1>8. \/ n.phase = "flush" /\ Become(t, synced)
      \/ n.phase # "flush" /\ Become(t, Finish(n, "ok"))
      \/ Become(t, Finish(n, "LOCAL_IO"))
  BY DEF LocalStep
<1>9. CASE n.phase # "flush" /\ Become(t, Finish(n, "ok"))
  BY <1>6, <1>7, <1>9 DEF MovesTo
<1>10. CASE Become(t, Finish(n, "LOCAL_IO"))
  BY <1>6, <1>10 DEF MovesTo
<1> QED
  BY <1>5, <1>8, <1>9, <1>10

-----------------------------------------------------------------------------
(* Giving up.                                                               *)

LEMMA GivenUpMoves ==
    ASSUME NEW n \in Record, TransferInv(n), Linked(n), n.phase \in Opening \cup Executing,
           NEW result \in {"cancelled", "SFTP_TIMEOUT"}
    PROVE  GivenUp(n, result) \in Record /\ Moves(n, GivenUp(n, result))
<1> DEFINE kept == IF n.result = None THEN result ELSE n.result
           abandoned == n.abandoned \/ (n.phase = "open" /\ n.direction = "put")
           left == [n EXCEPT !.abandoned = abandoned]
<1>1. n.phase \notin Quiet \cup {"report"} /\ n.phase \notin Over
      /\ n.direction \in {"put", "get"} /\ n.phase \in PhaseOf(n.direction)
  BY RecordFields DEF Opening, Executing, RemoteCall, LocalCall, Quiet, Over, TransferInv, QueueInv
<1>2. kept \in Failure \cup {"cancelled"}
  <2>1. n.result \in Failure \cup {None, "ok", "cancelled"}
    BY RecordFields
  <2>2. n.result # "ok"
    BY <1>1, NoneFacts DEF TransferInv, ResultInv
  <2> QED
    BY <2>1, <2>2 DEF Failure
<1>3. abandoned \in BOOLEAN
  BY RecordFields
<1>4. left \in Record
  BY <1>3 DEF Record
<1>5. /\ SameFiles(n, left) /\ left.localTemp = n.localTemp /\ left.copied = n.copied
      /\ left.phase = n.phase /\ left.result = n.result /\ left.reply = n.reply
      /\ left.requests = n.requests /\ left.events = n.events /\ left.abandoned = abandoned
      /\ left.direction = n.direction
  BY DEF Record, SameFiles
<1> HIDE DEF kept
<1>6. GivenUp(n, result) =
        CASE n.phase \in {"write", "read"} -> CopyFails(left, kept)
          [] n.phase \in {"close", "rename"} /\ n.direction = "put" -> RemoveTemp(left, kept)
          [] n.phase = "conflict" -> RemoveTemp(left, "REMOTE_ERROR")
          [] n.phase = "remove" -> Finish(left, "REMOTE_CLEANUP")
          [] OTHER -> Finish(left, kept)
  BY DEF GivenUp, kept
<1> HIDE DEF left
<1>7. Copies(n, left)
  <2>1. StagesOnly(left) /\ (n.direction = "get" => n.localTemp = Ours(n.copied))
    BY <1>1, <1>5, AtWork DEF StagesOnly
  <2>2. n.direction = "put" => n.localTemp = Absent
    BY DEF TransferInv, PutInv
  <2>3. KeepsStages(n, left)
    BY <1>5, StagesKept DEF Copied
  <2> QED
    BY <1>5, <2>1, <2>2, <2>3 DEF Copies
<1>8. CASE n.phase \in {"write", "read"}
  BY <1>2, <1>4, <1>6, <1>7, <1>8, CopyFailsMoves
<1>9. CASE n.phase \in {"close", "rename"} /\ n.direction = "put"
  <2>1. GivenUp(n, result) = RemoveTemp(left, kept)
    BY <1>6, <1>9
  <2> QED
    BY <1>2, <1>4, <1>7, <1>9, <2>1, RemoveMoves
<1>10. CASE n.phase = "conflict"
  <2>1. n.direction = "put"
    BY <1>1, <1>10, Calls
  <2>2. GivenUp(n, result) = RemoveTemp(left, "REMOTE_ERROR")
    BY <1>6, <1>10
  <2> QED
    BY <1>4, <1>7, <1>10, <2>1, <2>2, RemoveMoves DEF Failure
<1>11. ASSUME NEW reason \in Failure \cup {"cancelled"},
              n.direction = "put" /\ reason # "REMOTE_CLEANUP" =>
                    n.phase \in Early \cup {"lstat", "open"}
       PROVE  Finish(left, reason) \in Record /\ Moves(n, Finish(left, reason))
  <2> DEFINE m == Finish(left, reason)
  <2>1. /\ m \in Record /\ SameFiles(left, m) /\ m.phase = "report" /\ m.result = reason
        /\ m.reply = None /\ m.localTemp = left.localTemp /\ m.copied = left.copied
        /\ m.events = left.events /\ m.requests = left.requests
        /\ m.abandoned = left.abandoned
    BY <1>4, FinishFacts
  <2> HIDE DEF m
  <2>2. Less(n, m) /\ reason \notin {None, "ok"} /\ SameFiles(n, m)
    BY <1>5, <2>1, NoneFacts DEF Less, Failure, SameFiles
  <2>3. n.direction = "put" /\ m.result \notin {"ok", "REMOTE_CLEANUP"} /\ ~m.abandoned =>
            n.phase \in Early \cup {"lstat"}
    BY <1>5, <1>11, <2>1
  <2>4. Moves(n, m)
    BY <1>1, <1>5, <2>1, <2>2, <2>3, Finishes
  <2> QED
    BY <2>1, <2>4 DEF m
<1>12. CASE n.phase = "remove"
  <2>1. GivenUp(n, result) = Finish(left, "REMOTE_CLEANUP")
    BY <1>6, <1>12
  <2> QED
    BY <1>11, <2>1 DEF Failure
<1>13. CASE /\ n.phase \notin {"write", "read", "conflict", "remove"}
            /\ ~(n.phase \in {"close", "rename"} /\ n.direction = "put")
  <2>1. GivenUp(n, result) = Finish(left, kept)
    BY <1>6, <1>13
  <2>2. n.direction = "put" => n.phase \in Early \cup {"lstat", "open"}
    BY <1>1, <1>13 DEF PhaseOf
  <2> QED
    BY <1>2, <1>11, <2>1, <2>2
<1> QED
  BY <1>8, <1>9, <1>10, <1>12, <1>13

LEMMA CancelledMoves ==
    ASSUME native \in [Transfer -> Record], NEW t \in Transfer, TransferInv(native[t]),
           Linked(native[t]), Cancelled(t)
    PROVE  MovesTo(t)
<1> DEFINE n == native[t]
           k == GivenUp(n, "cancelled")
           m == [k EXCEPT !.disconnect = FALSE]
<1>1. n \in Record /\ n.phase \in Opening \cup Executing /\ Become(t, m)
  BY DEF Cancelled, Opening
<1>2. k \in Record /\ Moves(n, k)
  BY <1>1, GivenUpMoves
<1> HIDE DEF k
<1>3. m \in Record
  BY <1>2 DEF Record
<1>4. Alike(k, m)
  BY <1>2 DEF Record, Alike, AlikeButEvents, SameFiles
<1> HIDE DEF m
<1> QED
  BY <1>1, <1>2, <1>3, <1>4, AlikeMoves DEF MovesTo

LEMMA TimesOutMoves ==
    ASSUME native \in [Transfer -> Record], NEW t \in Transfer, TransferInv(native[t]),
           Linked(native[t]), TimesOut(t)
    PROVE  MovesTo(t)
<1>1. native[t] \in Record /\ native[t].phase \in Opening \cup Executing
      /\ Become(t, GivenUp(native[t], "SFTP_TIMEOUT"))
  BY DEF TimesOut
<1> QED
  BY <1>1, GivenUpMoves DEF MovesTo
LEMMA ConnectionEndsMoves ==
    ASSUME native \in [Transfer -> Record], NEW t \in Transfer, TransferInv(native[t]),
           Linked(native[t]), ConnectionEnds(t)
    PROVE  MovesTo(t)
<1> DEFINE n == native[t]
           given == [i \in DOMAIN n.requests |-> [n.requests[i] EXCEPT !.awaited = FALSE]]
           k == Finish(n, "NETWORK")
           m1 == [k EXCEPT !.abandoned = TRUE, !.requests = <<>>]
           m2 == [k EXCEPT !.abandoned = TRUE, !.requests = given]
<1>1. n \in Record /\ n.phase \in Executing
  BY DEF ConnectionEnds
<1>2. n.phase \notin Quiet \cup {"report"} /\ "NETWORK" \in Failure /\ None # "NETWORK"
  BY <1>1, NoneFacts DEF Executing, RemoteCall, LocalCall, Quiet, Failure
<1>3. /\ k \in Record /\ SameFiles(n, k) /\ k.phase = "report" /\ k.result = "NETWORK"
      /\ k.reply = None /\ k.localTemp = n.localTemp /\ k.copied = n.copied
      /\ k.events = n.events /\ k.requests = n.requests
  BY <1>1, <1>2, FinishFacts
<1>4. Become(t, m1) \/ Become(t, m2)
  <2>1. k.requests = n.requests
    BY <1>3
  <2>2. \/ Become(t, [[k EXCEPT !.abandoned = TRUE] EXCEPT !.requests = <<>>])
        \/ Become(t, [[k EXCEPT !.abandoned = TRUE] EXCEPT
                !.requests = [i \in DOMAIN @ |-> [@[i] EXCEPT !.awaited = FALSE]]])
    BY Zenon DEF ConnectionEnds
  <2>3. [k EXCEPT !.abandoned = TRUE].requests = n.requests
    BY <1>3 DEF Record
  <2> QED
    BY <2>2, <2>3
<1>5. /\ given \in Seq(RequestRecord)
      /\ \A i \in DOMAIN given : i \in DOMAIN n.requests
                    /\ given[i].call = n.requests[i].call /\ ~given[i].awaited
  BY <1>1, GivenUpSeq
<1> HIDE DEF k, given
<1>6. ASSUME NEW queue \in Seq(RequestRecord),
             \A i \in DOMAIN queue : i \in DOMAIN n.requests
                    /\ queue[i].call = n.requests[i].call /\ ~queue[i].awaited
      PROVE  [k EXCEPT !.abandoned = TRUE, !.requests = queue] \in Record
             /\ Moves(n, [k EXCEPT !.abandoned = TRUE, !.requests = queue])
  <2> DEFINE m == [k EXCEPT !.abandoned = TRUE, !.requests = queue]
  <2>1. m \in Record
    BY <1>3 DEF Record, RequestRecord
  <2>2. /\ SameFiles(k, m) /\ m.phase = k.phase /\ m.result = k.result /\ m.reply = k.reply
        /\ m.localTemp = k.localTemp /\ m.copied = k.copied /\ m.events = k.events
        /\ m.requests = queue /\ m.abandoned = TRUE
    BY <1>3 DEF Record, SameFiles
  <2> HIDE DEF m
  <2>3. Less(n, m) /\ SameFiles(n, m)
    BY <1>3, <1>6, <2>2 DEF Less, SameFiles
  <2>4. Moves(n, m)
    BY <1>1, <1>2, <1>3, <2>1, <2>2, <2>3, Finishes
  <2> QED
    BY <2>1, <2>4 DEF m
<1>7. <<>> \in Seq(RequestRecord) /\ DOMAIN <<>> = {}
  OBVIOUS
<1>8. m1 \in Record /\ Moves(n, m1)
  BY <1>6, <1>7
<1>9. m2 \in Record /\ Moves(n, m2)
  BY <1>5, <1>6
<1> HIDE DEF m1, m2
<1> QED
  BY <1>4, <1>8, <1>9 DEF MovesTo

-----------------------------------------------------------------------------
(* The final event, and leaving.                                            *)

LEMMA TerminalEvents ==
    ASSUME NEW result
    PROVE  TerminalEvent(result) \in Terminal /\ TerminalEvent(result) \in EventName
           /\ (TerminalEvent(result) = "completed" <=> result = "ok")
  BY DEF TerminalEvent, Terminal, EventName

LEMMA ReportMoves ==
    ASSUME native \in [Transfer -> Record], NEW t \in Transfer, TransferInv(native[t]),
           Linked(native[t]), Report(t)
    PROVE  MovesTo(t)
<1> DEFINE n == native[t]
           event == TerminalEvent(n.result)
           more == Append(n.events, event)
           m == [n EXCEPT !.phase = "leaving", !.events = more]
<1>1. n \in Record /\ n.phase = "report" /\ Become(t, m)
  BY DEF Report
<1>2. event \in Terminal /\ event \in EventName /\ n.events \in Seq(EventName)
  BY <1>1, RecordFields, TerminalEvents
<1> HIDE DEF event
<1>3. /\ more \in Seq(EventName) /\ Len(more) = Len(n.events) + 1
      /\ DOMAIN more = 1..(Len(n.events) + 1) /\ DOMAIN n.events = 1..Len(n.events)
      /\ \A i \in DOMAIN n.events : more[i] = n.events[i]
      /\ more[Len(n.events) + 1] = event /\ more # <<>> /\ Len(n.events) \in Nat
  BY <1>2, AppendFacts, LastFacts
<1> HIDE DEF more
<1>4. m \in Record
  BY <1>1, <1>3 DEF Record, EventName, Phase
<1>5. /\ m.phase = "leaving" /\ m.events = more /\ SameFiles(n, m)
      /\ m.result = n.result /\ m.reply = n.reply /\ m.requests = n.requests
      /\ m.localTemp = n.localTemp /\ m.copied = n.copied /\ m.abandoned = n.abandoned
  BY <1>1 DEF Record, SameFiles
<1> HIDE DEF m
<1>6. /\ m.direction = n.direction /\ m.temp = n.temp /\ m.remote = n.remote
  BY <1>5 DEF SameFiles
<1>7. QueueInv(m)
  BY <1>1, <1>5, <1>6 DEF TransferInv, QueueInv, PhaseOf, Over, Early, Alone, LocalCall, RemoteCall
<1>8. ResultInv(m)
  BY <1>5 DEF ResultInv, Over
<1>9. PutInv(m)
  BY <1>1, <1>5, <1>6 DEF TransferInv, PutInv, Over, Early, Queued
<1>10. GetInv(m)
  BY <1>1, <1>5, <1>6 DEF TransferInv, GetInv, Over, Early, LocalCall
<1>11. NamesInv(m) /\ KeepsNames(n, m) /\ (NoOurs(n) => NoOurs(m))
  BY <1>1, <1>4, <1>5, NamesKept DEF TransferInv
<1>12. StagesOnly(n) /\ Running(n)
  BY <1>1, AtWork DEF Quiet
<1>13. EventInv(m)
  <2>1. \A i \in DOMAIN more : i \in DOMAIN n.events \/ i = Len(n.events) + 1
    BY <1>3
  <2>2. \A i \in DOMAIN more : more[i] \in Terminal => i = Len(more) /\ more[i] = event
    BY <1>3, <1>12, <2>1 DEF StagesOnly
  <2> QED
    BY <1>5, <2>2 DEF EventInv, event
<1>14. Running(m)
  <2>1. more[Len(more)] \in Terminal
    BY <1>2, <1>3
  <2> QED
    BY <1>1, <1>3, <1>5, <1>6, <1>12, <2>1 DEF Running
<1>15. KeepsLink(n, m)
  BY <1>1, <1>6, <1>11, <1>14 DEF KeepsLink, Finished
<1>16. KeepsStages(n, m)
  <2>1. (Copied(m) => Copied(n)) /\ m.phase \notin Opening \cup Copying
    BY <1>1, <1>5 DEF Copied, Over, Opening, Copying
  <2>2. m.events = Append(n.events, event)
    BY <1>5 DEF more
  <2> QED
    BY <1>1, <1>2, <1>4, <2>1, <2>2, StagesWithMore
<1> QED
  BY <1>1, <1>4, <1>7, <1>8, <1>9, <1>10, <1>11, <1>13, <1>15, <1>16
  DEF MovesTo, Moves, TransferInv

LEMMA LeaveMoves ==
    ASSUME native \in [Transfer -> Record], NEW t \in Transfer, TransferInv(native[t]),
           Linked(native[t]), Leave(t)
    PROVE  MovesTo(t)
<1> DEFINE n == native[t]
           local == IF n.result = "ok" THEN n.localTemp ELSE Absent
           m == [n EXCEPT !.phase = "ended", !.disconnect = FALSE, !.localTemp = local]
<1>1. n \in Record /\ n.phase = "leaving" /\ Become(t, m)
  BY DEF Leave
<1>2. local \in File
  BY <1>1, RecordFields, Files
<1>3. m \in Record
  BY <1>1, <1>2, ZenonT(60) DEF Record, Phase
<1>4. /\ m.phase = "ended" /\ m.events = n.events /\ SameFiles(n, m)
      /\ m.result = n.result /\ m.reply = n.reply /\ m.requests = n.requests
      /\ m.localTemp = local /\ m.copied = n.copied /\ m.abandoned = n.abandoned
  BY <1>1 DEF Record, SameFiles
<1>5. (n.localTemp = Absent => local = Absent) /\ (n.result # "ok" => local = Absent)
      /\ (n.result = "ok" => local = n.localTemp)
  OBVIOUS
<1> HIDE DEF m, local
<1>6. /\ m.direction = n.direction /\ m.temp = n.temp /\ m.remote = n.remote
      /\ m.names = n.names
  BY <1>4 DEF SameFiles
<1>7. QueueInv(m)
  BY <1>1, <1>4, <1>6 DEF TransferInv, QueueInv, PhaseOf, Over, Early, Alone, LocalCall, RemoteCall
<1>8. ResultInv(m)
  BY <1>4 DEF ResultInv, Over
<1>9. PutInv(m)
  BY <1>1, <1>4, <1>5, <1>6 DEF TransferInv, PutInv, Over, Early, Queued
<1>10. GetInv(m)
  BY <1>1, <1>4, <1>5, <1>6 DEF TransferInv, GetInv, Over, Early, LocalCall
<1>11. NamesInv(m) /\ KeepsNames(n, m) /\ (NoOurs(n) => NoOurs(m))
  BY <1>1, <1>3, <1>4, NamesKept DEF TransferInv
<1>12. EventInv(m)
  BY <1>1, <1>4 DEF TransferInv, EventInv
<1>13. KeepsLink(n, m)
  <2>1. Running(n) => Running(m)
    BY <1>1, <1>4, <1>5, <1>6 DEF Running
  <2>2. Finished(n) => Finished(m)
    BY <1>4, <1>5 DEF Finished
  <2>3. Arrived(n) => Arrived(m)
    BY <1>6, Zenon DEF Arrived, LocalNames
  <2>4. \A outcome : Told(n, outcome) => Told(m, outcome)
    BY <1>4, <1>6, <1>11, <2>3 DEF Told
  <2> QED
    BY <1>1, <1>6, <1>11, <2>1, <2>2, <2>4 DEF KeepsLink
<1>14. KeepsStages(n, m)
  <2>1. (Copied(m) => Copied(n)) /\ m.phase \notin Opening \cup Copying
    BY <1>1, <1>4 DEF Copied, Over, Opening, Copying
  <2> QED
    BY <1>4, <2>1, StagesKept
<1> QED
  BY <1>1, <1>3, <1>7, <1>8, <1>9, <1>10, <1>11, <1>12, <1>13, <1>14
  DEF MovesTo, Moves, TransferInv

-----------------------------------------------------------------------------
(* The server.                                                              *)

\* What becomes of the files when a request is handled, and the answer.
HandledAs(k, call, m, answer) ==
    /\ m \in Record
    /\ m = [k EXCEPT !.remote = m.remote, !.temp = m.temp]
    /\ answer \in {"ok", "error", "absent", "directory", "eof"}
    /\ call \notin {"open", "write", "rename", "remove"} =>
          m.remote = k.remote /\ m.temp = k.temp
    /\ call # "rename" => m.remote = k.remote
    /\ call = "open" /\ k.direction = "get" => m.temp = k.temp
    /\ call = "open" /\ k.direction = "put" =>
          m.temp = IF answer = "ok" THEN Ours(0) ELSE k.temp
    /\ call = "write" =>
          m.temp = IF answer = "ok" THEN Ours(k.copied + 1) ELSE k.temp
    /\ call = "rename" /\ answer = "ok" =>
          k.remote.kind = "absent" /\ m.remote = k.temp /\ m.temp = Absent
    /\ call = "rename" /\ answer # "ok" => m.remote = k.remote /\ m.temp = k.temp
    /\ call = "remove" =>
          m.temp = (IF answer = "error" THEN k.temp ELSE Absent) /\ answer # "eof"
    /\ call = "read" => answer \in {"ok", "eof"} /\ (answer = "ok" => k.copied <= Blocks)

LEMMA HandledFacts ==
    ASSUME NEW k \in Record, NEW call \in RemoteCall,
           k.temp.kind = "absent" => k.temp = Absent,
           call = "write" => k.temp = Ours(k.copied) /\ k.copied <= Blocks
    PROVE  HandledAs(k, call, Handled(k, call)[1], Handled(k, call)[2])
<1> DEFINE h == Handled(k, call)
           goal == HandledAs(k, call, h[1], h[2])
<1>1. k = [k EXCEPT !.remote = k.remote, !.temp = k.temp]
  BY DEF Record
<1>2. ASSUME NEW file \in File
      PROVE  LET m == [k EXCEPT !.temp = file] IN
             /\ m \in Record /\ m.temp = file /\ m.remote = k.remote
             /\ m = [k EXCEPT !.remote = k.remote, !.temp = file]
  BY DEF Record
<1>3. Absent \in File /\ Ours(0) \in File
  BY Files
<1>4. ASSUME call \in {"lstat", "conflict"} PROVE goal
  <2>1. h = Inspected(k)
    BY <1>4 DEF Handled, h
  <2>2. h[1] = k /\ h[2] \in {"ok", "absent", "directory"}
    BY <2>1 DEF Inspected
  <2> QED
    BY <1>1, <1>4, <2>2 DEF HandledAs
<1>5. ASSUME call = "open" PROVE goal
  <2>1. h = Opened(k)
    BY <1>5 DEF Handled, h
  <2>2. k.direction \in {"put", "get"}
    BY RecordFields
  <2>3. \/ h = <<k, "error">>
        \/ k.direction = "get" /\ h \in {<<k, "error">>, <<k, "ok">>}
        \/ k.direction = "put" /\ h = <<[k EXCEPT !.temp = Ours(0)], "ok">>
    BY <2>1, <2>2 DEF Opened
  <2>4. CASE h = <<k, "error">>
    <3>1. h[1] = k /\ h[2] = "error"
      BY <2>4
    <3> QED
      BY <1>1, <1>5, <3>1 DEF HandledAs
  <2>5. CASE k.direction = "get" /\ h \in {<<k, "error">>, <<k, "ok">>}
    <3>1. h[1] = k /\ h[2] \in {"error", "ok"}
      BY <2>5
    <3> QED
      BY <1>1, <1>5, <2>5, <3>1 DEF HandledAs
  <2>6. CASE k.direction = "put" /\ h = <<[k EXCEPT !.temp = Ours(0)], "ok">>
    <3>1. h[1] = [k EXCEPT !.temp = Ours(0)] /\ h[2] = "ok"
      BY <2>6
    <3>2. /\ h[1] \in Record /\ h[1].temp = Ours(0) /\ h[1].remote = k.remote
          /\ h[1] = [k EXCEPT !.remote = h[1].remote, !.temp = h[1].temp]
      BY <1>2, <1>3, <3>1
    <3> QED
      BY <1>5, <2>6, <3>1, <3>2 DEF HandledAs
  <2> QED
    BY <2>3, <2>4, <2>5, <2>6
<1>6. ASSUME call = "write" PROVE goal
  <2>1. h = Written(k)
    BY <1>6 DEF Handled, h
  <2>2. k.temp = Ours(k.copied) /\ k.copied <= Blocks /\ k.copied \in Nat
    BY <1>6, RecordFields
  <2>3. Ours(k.copied + 1) \in File
    <3>1. k.copied + 1 \in 0..(Blocks + 1)
      BY <2>2, Constants
    <3> QED
      BY <3>1, Files
  <2>4. [k EXCEPT !.temp.blocks = @ + 1] = [k EXCEPT !.temp = Ours(k.copied + 1)]
    BY <2>2 DEF Record, Ours
  <2>5. h = <<k, "error">> \/ h = <<[k EXCEPT !.temp = Ours(k.copied + 1)], "ok">>
    BY <2>1, <2>4 DEF Written
  <2>6. CASE h = <<k, "error">>
    <3>1. h[1] = k /\ h[2] = "error"
      BY <2>6
    <3> QED
      BY <1>1, <1>6, <3>1 DEF HandledAs
  <2>7. CASE h = <<[k EXCEPT !.temp = Ours(k.copied + 1)], "ok">>
    <3> DEFINE file == Ours(k.copied + 1)
    <3>1. file \in File
      BY <2>3
    <3>2. h[1] = [k EXCEPT !.temp = file] /\ h[2] = "ok"
      BY <2>7
    <3> HIDE DEF file
    <3>3. /\ h[1] \in Record /\ h[1].temp = file /\ h[1].remote = k.remote
          /\ h[1] = [k EXCEPT !.remote = h[1].remote, !.temp = h[1].temp]
      BY <1>2, <3>1, <3>2
    <3> QED
      BY <1>6, <3>2, <3>3 DEF HandledAs, file
  <2> QED
    BY <2>5, <2>6, <2>7
<1>7. ASSUME call = "rename" PROVE goal
  <2>1. h = Renamed(k)
    BY <1>7 DEF Handled, h
  <2>2. CASE h = <<k, "error">>
    <3>1. h[1] = k /\ h[2] = "error"
      BY <2>2
    <3> QED
      BY <1>1, <1>7, <3>1 DEF HandledAs
  <2>3. CASE h # <<k, "error">>
    <3> DEFINE m == [k EXCEPT !.remote = k.temp, !.temp = Absent]
    <3>1. k.remote.kind = "absent" /\ h = <<m, "ok">>
      BY <2>1, <2>3 DEF Renamed
    <3>2. /\ m \in Record /\ m.temp = Absent /\ m.remote = k.temp
          /\ m = [k EXCEPT !.remote = m.remote, !.temp = m.temp]
      BY <1>3 DEF Record
    <3> HIDE DEF m
    <3>3. h[1] = m /\ h[2] = "ok"
      BY <3>1
    <3> QED
      BY <1>7, <3>1, <3>2, <3>3 DEF HandledAs
  <2> QED
    BY <2>2, <2>3
<1>8. ASSUME call = "remove" PROVE goal
  <2>1. h = Removed(k)
    BY <1>8 DEF Handled, h
  <2>2. \/ h = <<k, "error">>
        \/ h = <<k, "absent">> /\ k.temp = Absent
        \/ h = <<[k EXCEPT !.temp = Absent], "ok">>
    BY <2>1 DEF Removed
  <2>3. CASE h = <<k, "error">>
    <3>1. h[1] = k /\ h[2] = "error"
      BY <2>3
    <3> QED
      BY <1>1, <1>8, <3>1 DEF HandledAs
  <2>4. CASE h = <<k, "absent">> /\ k.temp = Absent
    <3>1. h[1] = k /\ h[2] = "absent"
      BY <2>4
    <3> QED
      BY <1>1, <1>8, <2>4, <3>1 DEF HandledAs
  <2>5. CASE h = <<[k EXCEPT !.temp = Absent], "ok">>
    <3>1. h[1] = [k EXCEPT !.temp = Absent] /\ h[2] = "ok"
      BY <2>5
    <3>2. /\ h[1] \in Record /\ h[1].temp = Absent /\ h[1].remote = k.remote
          /\ h[1] = [k EXCEPT !.remote = h[1].remote, !.temp = h[1].temp]
      BY <1>2, <1>3, <3>1
    <3> QED
      BY <1>8, <3>1, <3>2 DEF HandledAs
  <2> QED
    BY <2>2, <2>3, <2>4, <2>5
<1>9. ASSUME call = "read" PROVE goal
  <2>1. h = <<k, IF k.copied >= k.size THEN "eof" ELSE "ok">>
    BY <1>9 DEF Handled, h
  <2>2. h[1] = k /\ h[2] = IF k.copied >= k.size THEN "eof" ELSE "ok"
    BY <2>1
  <2>3. h[2] = "ok" => k.copied <= Blocks
    <3>1. k.copied \in Int /\ k.size \in Int /\ k.size <= Blocks + 1 /\ Blocks \in Int
      BY RecordFields, Constants
    <3> QED
      BY <2>2, <3>1
  <2> QED
    BY <1>1, <1>9, <2>2, <2>3 DEF HandledAs
<1>10. ASSUME call \in {"fstat", "close"} PROVE goal
  <2>1. h = <<k, "ok">>
    BY <1>10 DEF Handled, h
  <2>2. h[1] = k /\ h[2] = "ok"
    BY <2>1
  <2> QED
    BY <1>1, <1>10, <2>2 DEF HandledAs
<1>11. goal
  BY <1>4, <1>5, <1>6, <1>7, <1>8, <1>9, <1>10 DEF RemoteCall
<1> QED
  BY <1>11 DEF h
\* m is n after its first request has been handled.
Served(n, m) ==
    /\ m.direction = n.direction /\ m.phase = n.phase /\ m.result = n.result
    /\ m.size = n.size /\ m.copied = n.copied /\ m.localTemp = n.localTemp
    /\ m.names = n.names /\ m.events = n.events /\ m.abandoned = n.abandoned
    /\ m.requests = Tail(n.requests)

\* What Serve makes of n.
AfterFirst(n) ==
    LET request == Head(n.requests)
        done == Handled([n EXCEPT !.requests = Tail(@)], request.call)
    IN  IF request.awaited THEN [done[1] EXCEPT !.reply = done[2]] ELSE done[1]

LEMMA ServeFacts ==
    ASSUME NEW n \in Record, n.requests # <<>>, NEW m, m = AfterFirst(n),
           n.temp.kind = "absent" => n.temp = Absent,
           Head(n.requests).call = "write" => n.temp = Ours(n.copied) /\ n.copied <= Blocks
    PROVE  \E answer :
              /\ HandledAs(n, Head(n.requests).call, [n EXCEPT !.remote = m.remote, !.temp = m.temp], answer)
              /\ m \in Record /\ Served(n, m)
              /\ m.reply = IF Head(n.requests).awaited THEN answer ELSE n.reply
<1> DEFINE request == Head(n.requests)
           rest == Tail(n.requests)
           k == [n EXCEPT !.requests = rest]
           done == Handled(k, request.call)
           d == done[1]
           answer == done[2]
<1>1. rest \in Seq(RequestRecord) /\ request \in RequestRecord
  BY RecordFields, TailFacts
<1>2. request.call \in RemoteCall /\ request.awaited \in BOOLEAN
  BY <1>1 DEF RequestRecord
<1> HIDE DEF rest, request
<1>3. k \in Record
  BY <1>1 DEF Record, RequestRecord
<1>4. /\ k.direction = n.direction /\ k.phase = n.phase /\ k.result = n.result
      /\ k.size = n.size /\ k.copied = n.copied /\ k.localTemp = n.localTemp
      /\ k.names = n.names /\ k.events = n.events /\ k.abandoned = n.abandoned
      /\ k.requests = rest /\ k.reply = n.reply /\ k.remote = n.remote /\ k.temp = n.temp
  BY DEF Record
<1>5. m = IF request.awaited THEN [d EXCEPT !.reply = answer] ELSE d
  BY DEF request, rest, AfterFirst
<1> HIDE DEF k
<1>6. HandledAs(k, request.call, d, answer)
  BY <1>2, <1>3, <1>4, HandledFacts DEF request
<1> HIDE DEF done
<1>7. /\ d \in Record /\ d = [k EXCEPT !.remote = d.remote, !.temp = d.temp]
      /\ answer \in {"ok", "error", "absent", "directory", "eof"}
  BY <1>6, Zenon DEF HandledAs
<1> HIDE DEF d, answer
<1>8. /\ d.direction = k.direction /\ d.phase = k.phase /\ d.result = k.result
      /\ d.size = k.size /\ d.copied = k.copied /\ d.localTemp = k.localTemp
      /\ d.names = k.names /\ d.events = k.events /\ d.abandoned = k.abandoned
      /\ d.requests = k.requests /\ d.reply = k.reply
  <2> DEFINE remote == d.remote
             temp == d.temp
  <2>1. d = [k EXCEPT !.remote = remote, !.temp = temp]
    BY <1>7
  <2> HIDE DEF remote, temp
  <2> QED
    BY <1>3, <2>1 DEF Record
<1> DEFINE r == [d EXCEPT !.reply = answer]
<1>9. r \in Record
  BY <1>7 DEF Record
<1>10. /\ r.direction = d.direction /\ r.phase = d.phase /\ r.result = d.result
       /\ r.size = d.size /\ r.copied = d.copied /\ r.localTemp = d.localTemp
       /\ r.names = d.names /\ r.events = d.events /\ r.abandoned = d.abandoned
       /\ r.requests = d.requests /\ r.reply = answer
       /\ r.remote = d.remote /\ r.temp = d.temp
  BY <1>7 DEF Record
<1> HIDE DEF r
<1>11. m = IF request.awaited THEN r ELSE d
  BY <1>5 DEF r
<1>12. m \in Record /\ m.remote = d.remote /\ m.temp = d.temp /\ Served(n, m)
       /\ m.reply = IF request.awaited THEN answer ELSE n.reply
  <2>1. CASE request.awaited
    BY <1>4, <1>8, <1>9, <1>10, <1>11, <2>1 DEF Served, rest
  <2>2. CASE ~request.awaited
    BY <1>4, <1>7, <1>8, <1>11, <2>2 DEF Served, rest
  <2> QED
    BY <2>1, <2>2
<1> DEFINE f == [n EXCEPT !.remote = m.remote, !.temp = m.temp]
<1>13. f \in Record /\ f.remote = m.remote /\ f.temp = m.temp
       /\ f = [n EXCEPT !.remote = f.remote, !.temp = f.temp]
  <2>1. m.remote \in File /\ m.temp \in File
    BY <1>12, RecordFields
  <2> DEFINE remote == m.remote
             temp == m.temp
  <2> HIDE DEF remote, temp
  <2>2. [n EXCEPT !.remote = remote, !.temp = temp] \in Record
    BY <2>1 DEF Record, remote, temp
  <2>3. /\ [n EXCEPT !.remote = remote, !.temp = temp].remote = remote
        /\ [n EXCEPT !.remote = remote, !.temp = temp].temp = temp
    BY DEF Record
  <2> QED
    BY <2>2, <2>3 DEF remote, temp
<1> HIDE DEF f
<1>14. HandledAs(n, request.call, f, answer)
  BY <1>4, <1>6, <1>12, <1>13 DEF HandledAs, d, answer
<1> QED
  BY <1>12, <1>14 DEF f, request
\* The same of n itself: m's are the files, answer the answer.
Effects(n, call, m, answer) ==
    /\ answer \in {"ok", "error", "absent", "directory", "eof"}
    /\ call \notin {"open", "write", "rename", "remove"} => m.temp = n.temp
    /\ call # "rename" => m.remote = n.remote
    /\ call = "open" /\ n.direction = "get" => m.temp = n.temp
    /\ call = "open" /\ n.direction = "put" =>
          m.temp = IF answer = "ok" THEN Ours(0) ELSE n.temp
    /\ call = "write" =>
          m.temp = IF answer = "ok" THEN Ours(n.copied + 1) ELSE n.temp
    /\ call = "rename" /\ answer = "ok" =>
          n.remote.kind = "absent" /\ m.remote = n.temp /\ m.temp = Absent
    /\ call = "rename" /\ answer # "ok" => m.remote = n.remote /\ m.temp = n.temp
    /\ call = "remove" => m.temp = (IF answer = "error" THEN n.temp ELSE Absent)
    /\ call = "read" => answer \in {"ok", "eof"} /\ (answer = "ok" => n.copied <= Blocks)

LEMMA EffectsOf ==
    ASSUME NEW n \in Record, NEW m \in Record, NEW call, NEW answer,
           HandledAs(n, call, [n EXCEPT !.remote = m.remote, !.temp = m.temp], answer)
    PROVE  Effects(n, call, m, answer)
<1> DEFINE remote == m.remote
           temp == m.temp
           f == [n EXCEPT !.remote = remote, !.temp = temp]
<1> HIDE DEF remote, temp
<1>1. f.remote = remote /\ f.temp = temp
  BY DEF Record
<1> HIDE DEF f
<1>2. HandledAs(n, call, f, answer)
  BY DEF f, remote, temp
<1>3. f.remote = m.remote /\ f.temp = m.temp
  BY <1>1 DEF remote, temp
<1> QED
  BY <1>2, <1>3 DEF HandledAs, Effects

\* m is n after its first request, for call, has been handled with this answer.
Answers(n, m, call, answer) ==
    /\ Effects(n, call, m, answer) /\ Served(n, m)
    /\ call = Head(n.requests).call
    /\ m.reply = IF Head(n.requests).awaited THEN answer ELSE n.reply

LEMMA ServedQueue ==
    ASSUME NEW n \in Record, n.requests # <<>>, QueueInv(n), NEW m \in Record, NEW call,
           NEW answer, Answers(n, m, call, answer)
    PROVE  /\ QueueInv(m) /\ call \in CallOf(n.direction) /\ Queued(n, call)
           /\ Head(n.requests).awaited => n.phase \in {call} \cup Over
           /\ n.reply # None => n.phase \notin RemoteCall
           /\ n.phase \in Alone \cup {"lstat"} \/ (n.phase = "close" /\ n.result = None) =>
                    Head(n.requests).awaited
           /\ n.phase \notin Early \cup LocalCall /\ (n.phase \in Over => n.result # "ok")
           /\ \A c : Queued(m, c) => Queued(n, c) /\ c \notin Alone
           /\ (\A i \in DOMAIN n.requests : n.requests[i].call = "lstat") =>
                    \A i \in DOMAIN m.requests : m.requests[i].call = "lstat"
<1> DEFINE q == n.requests
           r == m.requests
<1>1. /\ r \in Seq(RequestRecord) /\ Len(r) = Len(q) - 1 /\ Len(q) \in Nat /\ Len(q) >= 1
      /\ DOMAIN r = 1..(Len(q) - 1) /\ DOMAIN q = 1..Len(q)
      /\ \A i \in DOMAIN r : i + 1 \in DOMAIN q /\ r[i] = q[i + 1]
      /\ Head(q) = q[1] /\ 1 \in DOMAIN q /\ (r = <<>> <=> Len(q) = 1)
  BY RecordFields, TailFacts, SMTT(30) DEF Answers, Served
<1>2. /\ m.phase = n.phase /\ m.result = n.result /\ m.direction = n.direction
      /\ call = q[1].call /\ m.reply = IF q[1].awaited THEN answer ELSE n.reply
  BY <1>1 DEF Answers, Served
<1>3. /\ q[1].awaited => Len(q) = 1 /\ n.phase \in {call} \cup Over
      /\ call \in CallOf(n.direction)
  BY <1>1, <1>2 DEF QueueInv
<1>4. \A i \in DOMAIN r : /\ r[i].awaited => i = Len(r) /\ n.phase \in {r[i].call} \cup Over
                          /\ r[i].call \notin Alone /\ r[i].call \in CallOf(n.direction)
  <2> SUFFICES ASSUME NEW i \in DOMAIN r
               PROVE  /\ r[i].awaited => i = Len(r) /\ n.phase \in {r[i].call} \cup Over
                      /\ r[i].call \notin Alone /\ r[i].call \in CallOf(n.direction)
    OBVIOUS
  <2>1. i + 1 \in DOMAIN q /\ r[i] = q[i + 1] /\ i + 1 # 1
    BY <1>1
  <2>2. /\ q[i + 1].awaited => i + 1 = Len(q) /\ n.phase \in {q[i + 1].call} \cup Over
        /\ q[i + 1].call \in Alone => i + 1 = 1
        /\ q[i + 1].call \in CallOf(n.direction)
    BY <2>1, Zenon DEF QueueInv
  <2>3. i + 1 = Len(q) => i = Len(r)
    BY <1>1
  <2> QED
    BY <2>1, <2>2, <2>3
<1>5. n.reply # None => n.phase \notin RemoteCall
  BY DEF QueueInv
<1>6. n.phase \notin Early \cup LocalCall /\ (n.phase \in Over => n.result # "ok")
  BY DEF QueueInv
<1>7. n.phase \in Alone \cup {"lstat"} \/ (n.phase = "close" /\ n.result = None) =>
            q[1].awaited /\ \A i \in DOMAIN r : r[i].awaited
  BY <1>1 DEF QueueInv
<1>8. m.reply # None => n.phase \in RemoteCall \cup Over
  <2>1. CASE q[1].awaited
    BY <1>3, <2>1 DEF CallOf
  <2>2. CASE ~q[1].awaited
    BY <1>2, <2>2 DEF QueueInv
  <2> QED
    BY <2>1, <2>2
<1>9. m.reply # None /\ n.phase \in RemoteCall => r = <<>>
  BY <1>1, <1>2, <1>3, <1>5
<1>10. QueueInv(m)
  <2>1. m.phase \in PhaseOf(m.direction)
    BY <1>2 DEF QueueInv
  <2> QED
    BY <1>2, <1>4, <1>6, <1>7, <1>8, <1>9, <2>1 DEF QueueInv
<1>11. \A c : Queued(m, c) => Queued(n, c) /\ c \notin Alone
  BY <1>1, <1>4 DEF Queued
<1>12. Queued(n, call)
  BY <1>1, <1>2 DEF Queued
<1>13. (\A i \in DOMAIN q : q[i].call = "lstat") => \A i \in DOMAIN r : r[i].call = "lstat"
  BY <1>1
<1> QED
  BY <1>1, <1>3, <1>5, <1>6, <1>7, <1>10, <1>11, <1>12, <1>13

LEMMA ServedPut ==
    ASSUME NEW n \in Record, n.requests # <<>>, TransferInv(n), NEW m \in Record, NEW call,
           NEW answer, Answers(n, m, call, answer)
    PROVE  PutInv(m)
<1> SUFFICES ASSUME n.direction = "put" PROVE PutInv(m)
  BY DEF Answers, Served, PutInv
<1>1. QueueInv(n) /\ PutInv(n)
  BY DEF TransferInv
<1> DEFINE awaited == Head(n.requests).awaited
<1>2. /\ m.direction = n.direction /\ m.phase = n.phase /\ m.result = n.result
      /\ m.copied = n.copied /\ m.localTemp = n.localTemp /\ m.abandoned = n.abandoned
      /\ m.reply = IF awaited THEN answer ELSE n.reply
  BY DEF Answers, Served
<1>3. /\ call \in CallOf("put") /\ Queued(n, call)
      /\ awaited => n.phase \in {call} \cup Over
      /\ n.reply # None => n.phase \notin RemoteCall
      /\ n.phase \in Alone \cup {"lstat"} \/ (n.phase = "close" /\ n.result = None) => awaited
      /\ n.phase \notin Early \cup LocalCall /\ (n.phase \in Over => n.result # "ok")
      /\ \A c : Queued(m, c) => Queued(n, c) /\ c \notin Alone
      /\ (\A i \in DOMAIN n.requests : n.requests[i].call = "lstat") =>
                    \A i \in DOMAIN m.requests : m.requests[i].call = "lstat"
  BY <1>1, ServedQueue
<1> HIDE DEF awaited
<1>4. Effects(n, call, m, answer)
  BY DEF Answers
<1>5. answer # None
  BY <1>4, NoneFacts, Zenon DEF Effects
<1>6. n.phase \in RemoteCall => n.reply = None
  BY <1>3
<1>7. Absent.kind = "absent" /\ \A b : Ours(b).kind = "ours"
  BY DEF Absent, Ours
<1>8. m.localTemp = Absent /\ (m.temp.kind = "absent" => m.temp = Absent)
  BY <1>1, <1>2, <1>3, <1>4, <1>7 DEF PutInv, Effects
<1>9. ~Queued(m, "open") /\ ~Queued(m, "write") /\ ~Queued(m, "rename")
  BY <1>3 DEF Alone
<1>10. m.phase = "lstat" => m.temp = Absent /\ m.copied = 0
  BY <1>1, <1>2, <1>3, <1>4 DEF PutInv, Effects, Over
<1>11. m.phase = "open" =>
            m.copied = 0 /\ m.temp = IF m.reply = "ok" THEN Ours(0) ELSE Absent
  <2> SUFFICES ASSUME n.phase = "open"
               PROVE  m.copied = 0 /\ m.temp = IF m.reply = "ok" THEN Ours(0) ELSE Absent
    BY <1>2
  <2>1. awaited /\ call = "open" /\ n.reply # "ok"
    BY <1>3, <1>6, NoneFacts DEF Alone, Over, RemoteCall
  <2>2. n.temp = Absent /\ n.copied = 0
    BY <1>1, <2>1 DEF PutInv
  <2> QED
    BY <1>2, <1>4, <2>1, <2>2 DEF Effects
<1>12. m.phase = "write" => m.temp = Ours(IF m.reply = "ok" THEN m.copied + 1 ELSE m.copied)
  <2> SUFFICES ASSUME n.phase = "write"
               PROVE  m.temp = Ours(IF m.reply = "ok" THEN m.copied + 1 ELSE m.copied)
    BY <1>2
  <2>1. awaited /\ call = "write" /\ n.reply # "ok"
    BY <1>3, <1>6, NoneFacts DEF Alone, Over, RemoteCall
  <2>2. n.temp = Ours(n.copied)
    BY <1>1, <2>1, Zenon DEF PutInv
  <2>3. m.temp = IF answer = "ok" THEN Ours(n.copied + 1) ELSE n.temp
    BY <1>4, <2>1, Zenon DEF Effects
  <2>4. m.reply = answer /\ m.copied = n.copied
    BY <1>2, <2>1
  <2>5. CASE answer = "ok"
    BY <2>3, <2>4, <2>5, Zenon
  <2>6. CASE answer # "ok"
    BY <2>2, <2>3, <2>4, <2>6, Zenon
  <2> QED
    BY <2>5, <2>6
<1>13. m.phase = "write" \/ Queued(m, "write") => m.copied <= Blocks
  BY <1>1, <1>2, <1>9, Zenon DEF PutInv
<1>14. m.phase = "close" /\ m.result = None => m.temp = Ours(Blocks)
  BY <1>1, <1>2, <1>3, <1>4 DEF PutInv, Effects, Over
<1>15. m.phase = "rename" =>
            IF m.reply = "ok" THEN m.temp = Absent /\ m.remote = Ours(Blocks)
            ELSE m.temp = Ours(Blocks)
  <2> SUFFICES ASSUME n.phase = "rename"
               PROVE  IF m.reply = "ok" THEN m.temp = Absent /\ m.remote = Ours(Blocks)
                      ELSE m.temp = Ours(Blocks)
    BY <1>2
  <2>1. awaited /\ call = "rename" /\ n.reply # "ok"
    BY <1>3, <1>6, NoneFacts DEF Alone, Over, RemoteCall
  <2>2. n.temp = Ours(Blocks)
    BY <1>1, <2>1 DEF PutInv
  <2> QED
    BY <1>2, <1>4, <2>1, <2>2 DEF Effects
<1>16. m.phase = "remove" /\ m.reply \notin {None, "error"} => m.temp = Absent
  <2> SUFFICES ASSUME n.phase = "remove", m.reply \notin {None, "error"}
               PROVE  m.temp = Absent
    BY <1>2
  <2>1. awaited
    BY <1>2, <1>6 DEF RemoteCall
  <2> QED
    BY <1>2, <1>3, <1>4, <2>1 DEF Effects, Over
<1>17. m.phase \in Over /\ m.result # "REMOTE_CLEANUP" /\ ~m.abandoned =>
                m.temp = Absent /\ \A i \in DOMAIN m.requests : m.requests[i].call = "lstat"
  <2> SUFFICES ASSUME n.phase \in Over, n.result # "REMOTE_CLEANUP", ~n.abandoned
               PROVE  m.temp = Absent /\ \A i \in DOMAIN m.requests : m.requests[i].call = "lstat"
    BY <1>2
  <2>1. n.temp = Absent /\ \A i \in DOMAIN n.requests : n.requests[i].call = "lstat"
    BY <1>1 DEF PutInv
  <2>2. call = "lstat"
    BY <1>3, <2>1 DEF Queued
  <2> QED
    BY <1>3, <1>4, <2>1, <2>2 DEF Effects
<1>18. m.phase \notin Early /\ (m.phase \in Over => m.result # "ok")
  BY <1>2, <1>3
<1> QED
  BY <1>8, <1>9, <1>10, <1>11, <1>12, <1>13, <1>14, <1>15, <1>16, <1>17, <1>18, Zenon DEF PutInv
LEMMA ServedGet ==
    ASSUME NEW n \in Record, n.requests # <<>>, TransferInv(n), NEW m \in Record, NEW call,
           NEW answer, Answers(n, m, call, answer)
    PROVE  GetInv(m)
<1> SUFFICES ASSUME n.direction = "get" PROVE GetInv(m)
  BY DEF Answers, Served, GetInv
<1>1. QueueInv(n) /\ GetInv(n)
  BY DEF TransferInv
<1> DEFINE awaited == Head(n.requests).awaited
<1>2. /\ m.direction = n.direction /\ m.phase = n.phase /\ m.result = n.result
      /\ m.copied = n.copied /\ m.localTemp = n.localTemp
      /\ m.reply = IF awaited THEN answer ELSE n.reply
  BY DEF Answers, Served
<1>3. /\ call \in CallOf("get") /\ (awaited => n.phase \in {call} \cup Over)
      /\ n.reply # None => n.phase \notin RemoteCall
  BY <1>1, ServedQueue
<1> HIDE DEF awaited
<1>4. Effects(n, call, m, answer)
  BY DEF Answers
<1>5. call \notin {"write", "rename", "remove"}
  BY <1>3 DEF CallOf, PhaseOf, Early, Over
<1>6. m.temp = n.temp /\ m.remote = n.remote
  BY <1>4, <1>5 DEF Effects
<1>7. ASSUME n.phase = "read"
      PROVE  m.reply \in {None, "ok", "eof"} /\ (m.reply = "ok" => m.copied <= Blocks)
  <2>1. CASE awaited
    <3>1. call = "read" /\ m.reply = answer
      BY <1>2, <1>3, <1>7, <2>1 DEF Over
    <3> QED
      BY <1>2, <1>4, <3>1 DEF Effects
  <2>2. CASE ~awaited
    BY <1>1, <1>2, <1>7, <2>2 DEF GetInv
  <2> QED
    BY <2>1, <2>2
<1> QED
  BY <1>1, <1>2, <1>6, <1>7 DEF GetInv

LEMMA ServedMoves ==
    ASSUME NEW n \in Record, n.requests # <<>>, TransferInv(n), NEW m \in Record, NEW call,
           NEW answer, Answers(n, m, call, answer)
    PROVE  Moves(n, m)
<1>1. QueueInv(n) /\ PutInv(n) /\ ResultInv(n) /\ NamesInv(n) /\ EventInv(n)
  BY DEF TransferInv
<1>2. /\ m.direction = n.direction /\ m.phase = n.phase /\ m.result = n.result
      /\ m.copied = n.copied /\ m.localTemp = n.localTemp /\ m.names = n.names
      /\ m.events = n.events
  BY DEF Answers, Served
<1>3. /\ QueueInv(m) /\ call \in CallOf(n.direction) /\ Queued(n, call)
      /\ n.phase \notin Early
  BY <1>1, ServedQueue
<1>4. PutInv(m) /\ GetInv(m)
  BY ServedPut, ServedGet
<1>5. Effects(n, call, m, answer)
  BY DEF Answers
<1>6. call = "rename" => n.temp = Ours(Blocks)
  <2>1. call = "rename" => n.direction = "put"
    <3>1. n.direction \in {"put", "get"}
      BY RecordFields
    <3> QED
      BY <1>3, <3>1 DEF CallOf, PhaseOf, Early, Over
  <2> QED
    BY <1>1, <1>3, <2>1 DEF PutInv
<1>7. m.remote = n.remote \/ (n.remote.kind = "absent" /\ m.remote = Ours(Blocks))
  <2>1. call # "rename" => m.remote = n.remote
    BY <1>5, Zenon DEF Effects
  <2>2. call = "rename" /\ answer # "ok" => m.remote = n.remote
    BY <1>5, Zenon DEF Effects
  <2>3. call = "rename" /\ answer = "ok" => n.remote.kind = "absent" /\ m.remote = n.temp
    BY <1>5, Zenon DEF Effects
  <2>4. CASE call = "rename" /\ answer = "ok"
    BY <1>6, <2>3, <2>4, Zenon
  <2> QED
    BY <2>1, <2>2, <2>4, Zenon
<1>8. NamesInv(m) /\ KeepsNames(n, m) /\ (NoOurs(n) => NoOurs(m))
  <2>1. NamesInv(m)
    BY <1>1, <1>2, <1>7 DEF NamesInv
  <2>2. KeepsNames(n, m)
    BY <1>2, <1>7 DEF KeepsNames
  <2> QED
    BY <1>2, <2>1, <2>2 DEF NoOurs
<1>9. ResultInv(m) /\ EventInv(m)
  BY <1>1, <1>2 DEF ResultInv, EventInv
<1>10. KeepsLink(n, m)
  <2>1. (Finished(n) => Finished(m)) /\ (Running(n) => Running(m))
    BY <1>2 DEF Finished, Running
  <2>2. \A outcome \in {None} \cup Ended : Told(n, outcome) => Told(m, outcome)
    BY <1>2, <1>8 DEF Told
  <2> QED
    BY <1>2, <1>3, <1>8, <2>1, <2>2 DEF KeepsLink, Early
<1>11. KeepsStages(n, m)
  <2>1. Copied(m) => Copied(n)
    BY <1>2 DEF Copied
  <2> QED
    BY <1>2, <2>1, StagesKept
<1> QED
  BY <1>3, <1>4, <1>8, <1>9, <1>10, <1>11 DEF Moves, TransferInv

LEMMA ServeMoves ==
    ASSUME native \in [Transfer -> Record], NEW t \in Transfer, TransferInv(native[t]), Serve(t)
    PROVE  MovesTo(t)
<1> DEFINE n == native[t]
           call == Head(n.requests).call
           m == AfterFirst(n)
<1>1. n \in Record /\ n.requests # <<>> /\ Become(t, m)
  BY DEF Serve, AfterFirst
<1>2. n.direction \in {"put", "get"} /\ n.requests \in Seq(RequestRecord)
  BY <1>1, RecordFields
<1>3. Head(n.requests) = n.requests[1] /\ 1 \in DOMAIN n.requests
  BY <1>1, <1>2, TailFacts
<1>4. call \in CallOf(n.direction) /\ Queued(n, call)
  BY <1>3 DEF TransferInv, QueueInv, Queued
<1>5. n.temp.kind = "absent" => n.temp = Absent
  BY <1>2 DEF TransferInv, PutInv, GetInv
<1>6. call = "write" => n.temp = Ours(n.copied) /\ n.copied <= Blocks
  <2> SUFFICES ASSUME call = "write" PROVE n.temp = Ours(n.copied) /\ n.copied <= Blocks
    OBVIOUS
  <2>1. n.direction = "put"
    BY <1>2, <1>4 DEF CallOf, PhaseOf, Early, Over
  <2>2. Queued(n, "write")
    BY <1>4
  <2> QED
    BY <2>1, <2>2, Zenon DEF TransferInv, PutInv
<1>7. PICK answer :
              /\ HandledAs(n, call, [n EXCEPT !.remote = m.remote, !.temp = m.temp], answer)
              /\ m \in Record /\ Served(n, m)
              /\ m.reply = IF Head(n.requests).awaited THEN answer ELSE n.reply
  BY <1>1, <1>5, <1>6, ServeFacts
<1> HIDE DEF m
<1>8. Answers(n, m, call, answer)
  <2>1. Effects(n, call, m, answer)
    BY <1>1, <1>7, EffectsOf
  <2> QED
    BY <1>7, <2>1 DEF Answers
<1>9. Moves(n, m)
  BY <1>1, <1>7, <1>8, ServedMoves
<1> QED
  BY <1>1, <1>7, <1>9 DEF MovesTo
-----------------------------------------------------------------------------
(* Others, and all steps beside the pane.                                   *)

LEMMA ClaimsRemoteMoves ==
    ASSUME native \in [Transfer -> Record], NEW t \in Transfer, TransferInv(native[t]),
           ClaimsRemote(t)
    PROVE  MovesTo(t)
<1> DEFINE n == native[t]
           m == [n EXCEPT !.remote = Other]
           call == Head(n.requests).call
<1>1. /\ n \in Record /\ n.requests # <<>> /\ call \in {"rename", "conflict"}
      /\ n.remote.kind = "absent" /\ Become(t, m)
  BY DEF ClaimsRemote
<1>2. n.direction \in {"put", "get"} /\ n.requests \in Seq(RequestRecord)
  BY <1>1, RecordFields
<1>3. Head(n.requests) = n.requests[1] /\ 1 \in DOMAIN n.requests
  BY <1>1, <1>2, TailFacts
<1>4. call \in CallOf(n.direction)
  BY <1>3 DEF TransferInv, QueueInv
<1>5. n.direction = "put"
  BY <1>1, <1>2, <1>4 DEF CallOf, PhaseOf, Early, Over
<1>6. m \in Record
  BY <1>1, Files DEF Record
<1>7. /\ m.remote = Other /\ m.direction = n.direction /\ m.phase = n.phase
      /\ m.result = n.result /\ m.temp = n.temp /\ m.copied = n.copied
      /\ m.requests = n.requests /\ m.reply = n.reply /\ m.localTemp = n.localTemp
      /\ m.names = n.names /\ m.events = n.events /\ m.abandoned = n.abandoned
  BY <1>1 DEF Record
<1> HIDE DEF m
<1>8. QueueInv(n) /\ ResultInv(n) /\ PutInv(n) /\ NamesInv(n) /\ EventInv(n)
  BY DEF TransferInv
<1>9. /\ n.phase \notin Early /\ ~(n.phase \in Over /\ n.result = "ok")
      /\ ~(n.phase = "rename" /\ n.reply = "ok")
  <2>1. n.phase = "rename" => n.reply = None
    BY <1>1, <1>8 DEF QueueInv, RemoteCall
  <2> QED
    BY <1>1, <1>8, <2>1, NoneFacts DEF QueueInv
<1>10. QueueInv(m) /\ ResultInv(m) /\ EventInv(m)
  BY <1>7, <1>8 DEF QueueInv, ResultInv, EventInv
<1>11. PutInv(m)
  <2>1. \A c : Queued(m, c) <=> Queued(n, c)
    BY <1>7 DEF Queued
  <2> QED
    BY <1>5, <1>7, <1>8, <1>9, <2>1, Zenon DEF PutInv
<1>12. GetInv(m)
  BY <1>5, <1>7 DEF GetInv
<1>13. NamesInv(m) /\ KeepsNames(n, m) /\ (NoOurs(n) => NoOurs(m))
  BY <1>1, <1>7, <1>8, Files DEF NamesInv, KeepsNames, NoOurs
<1>14. KeepsLink(n, m)
  <2>1. (Finished(n) => Finished(m)) /\ (Running(n) => Running(m))
    BY <1>7 DEF Finished, Running
  <2>2. \A outcome \in {None} \cup Ended : Told(n, outcome) => Told(m, outcome)
    BY <1>1, <1>7, <1>13 DEF Told
  <2> QED
    BY <1>7, <1>9, <1>13, <2>1, <2>2 DEF KeepsLink, Early
<1>15. KeepsStages(n, m)
  <2>1. Copied(m) => Copied(n)
    BY <1>7 DEF Copied
  <2> QED
    BY <1>7, <2>1, StagesKept
<1> QED
  BY <1>1, <1>6, <1>10, <1>11, <1>12, <1>13, <1>14, <1>15 DEF MovesTo, Moves, TransferInv

LEMMA MovesNot ==
    ASSUME NEW n, TransferInv(n), n.phase # "none"
    PROVE  Moves(n, n)
  BY DEF Moves, KeepsLink, KeepsStages, KeepsNames

LEMMA SourceChangesMoves ==
    ASSUME native \in [Transfer -> Record], NEW t \in Transfer, TransferInv(native[t]),
           SourceChanges(t)
    PROVE  MovesTo(t)
<1> DEFINE n == native[t]
<1>1. n \in Record /\ n.copied < Blocks /\ n.phase \in {"open", "write", "read"}
  BY DEF SourceChanges
<1>2. PICK size \in {n.copied, Blocks + 1} : Become(t, [n EXCEPT !.size = size])
  BY DEF SourceChanges
<1>3. size \in 0..(Blocks + 1)
  BY <1>1, Constants, RecordFields
<1> DEFINE m == [n EXCEPT !.size = size]
<1>4. m \in Record /\ Alike(n, m)
  BY <1>1, <1>3 DEF Record, Alike, AlikeButEvents, SameFiles
<1>5. Become(t, m)
  BY <1>2
<1> HIDE DEF m
<1>6. Moves(n, n)
  BY <1>1, MovesNot
<1>7. Moves(n, m)
  BY <1>4, <1>6, AlikeMoves
<1> QED
  BY <1>4, <1>5, <1>7 DEF MovesTo

LEMMA ClaimsLocalMoves ==
    ASSUME native \in [Transfer -> Record], NEW t \in Transfer, TransferInv(native[t]),
           ClaimsLocal(t)
    PROVE  MovesTo(t)
<1> DEFINE n == native[t]
<1>1. n \in Record /\ n.events # <<>> /\ Head(n.events) = "completed"
  BY DEF ClaimsLocal
<1>2. PICK i \in DOMAIN n.names :
          n.names[i].kind = "absent" /\ Become(t, [n EXCEPT !.names[i] = Other])
  BY DEF ClaimsLocal
<1> DEFINE names == [n.names EXCEPT ![i] = Other]
           m == [n EXCEPT !.names = names]
<1>3. /\ names \in [0..(MaxNames - 1) -> File] /\ DOMAIN names = DOMAIN n.names
      /\ \A j \in DOMAIN names : names[j] = Other \/ names[j] = n.names[j]
      /\ \A j \in DOMAIN names : n.names[j].kind # "absent" => names[j] = n.names[j]
  BY <1>1, <1>2, RecordFields, Files
<1>4. Become(t, m)
  BY <1>2
<1> HIDE DEF names
<1>5. m \in Record
  BY <1>1, <1>3 DEF Record
<1>6. /\ m.names = names /\ m.direction = n.direction /\ m.phase = n.phase
      /\ m.result = n.result /\ m.temp = n.temp /\ m.copied = n.copied
      /\ m.requests = n.requests /\ m.reply = n.reply /\ m.localTemp = n.localTemp
      /\ m.remote = n.remote /\ m.events = n.events /\ m.abandoned = n.abandoned
  BY <1>1 DEF Record
<1> HIDE DEF m
<1>7. QueueInv(n) /\ ResultInv(n) /\ PutInv(n) /\ GetInv(n) /\ NamesInv(n) /\ EventInv(n)
  BY DEF TransferInv
<1>8. n.phase \in {"leaving", "ended"}
  <2>1. n.events[1] = "completed" /\ 1 \in DOMAIN n.events
    BY <1>1, RecordFields, TailFacts
  <2> QED
    BY <1>7, <2>1 DEF EventInv, Terminal
<1>9. QueueInv(m) /\ ResultInv(m) /\ EventInv(m)
  BY <1>6, <1>7 DEF QueueInv, ResultInv, EventInv
<1>10. PutInv(m) /\ GetInv(m)
  <2>1. \A c : Queued(m, c) <=> Queued(n, c)
    BY <1>6 DEF Queued
  <2>2. PutInv(m)
    BY <1>6, <1>7, <2>1, Zenon DEF PutInv
  <2>3. GetInv(m)
    BY <1>6, <1>7, Zenon DEF GetInv
  <2> QED
    BY <2>2, <2>3
<1>11. NamesInv(m) /\ KeepsNames(n, m) /\ (NoOurs(n) => NoOurs(m))
  <2>1. Other.kind = "other"
    BY Files
  <2>2. NamesInv(m)
    BY <1>3, <1>6, <1>7, <2>1 DEF NamesInv
  <2>3. KeepsNames(n, m)
    BY <1>3, <1>6 DEF KeepsNames
  <2> QED
    BY <1>3, <1>6, <2>1, <2>2, <2>3 DEF NoOurs
<1>12. KeepsLink(n, m)
  <2>1. ~Finished(n) /\ (Running(n) => Running(m))
    BY <1>1, <1>6 DEF Finished, Running
  <2> QED
    BY <1>6, <1>8, <1>11, <2>1 DEF KeepsLink
<1>13. KeepsStages(n, m)
  <2>1. Copied(m) => Copied(n)
    BY <1>6 DEF Copied
  <2> QED
    BY <1>6, <2>1, StagesKept
<1> QED
  BY <1>4, <1>5, <1>9, <1>10, <1>11, <1>12, <1>13 DEF MovesTo, Moves, TransferInv

LEMMA NativeMoves ==
    ASSUME native \in [Transfer -> Record], NEW t \in Transfer, TransferInv(native[t]),
           Linked(native[t]), NativeStep(t) \/ Surroundings(t)
    PROVE  MovesTo(t)
<1>1. CASE Progress(t)
  BY <1>1, ConnectStepMoves, OpenSftpMoves, TakeReplyMoves, LocalStepMoves, CancelledMoves,
     TimesOutMoves, ReportMoves, LeaveMoves DEF Progress
<1>2. CASE PromptFails(t)
  BY <1>2, PromptFailsMoves
<1>3. CASE ConnectionEnds(t)
  BY <1>3, ConnectionEndsMoves
<1>4. CASE Serve(t)
  BY <1>4, ServeMoves
<1>5. CASE ClaimsRemote(t)
  BY <1>5, ClaimsRemoteMoves
<1>6. CASE SourceChanges(t)
  BY <1>6, SourceChangesMoves
<1>7. CASE ClaimsLocal(t)
  BY <1>7, ClaimsLocalMoves
<1> QED
  BY <1>1, <1>2, <1>3, <1>4, <1>5, <1>6, <1>7 DEF NativeStep, Surroundings
-----------------------------------------------------------------------------
(* Steps beside the pane, and what the pane does without a change of its     *)
(* transfer.                                                                *)

NamesStep == \A t \in Transfer : KeepsNames(native[t], native'[t])

LEMMA PaneFields ==
    ASSUME NEW p \in PaneRecord
    PROVE  /\ p.phase \in FileTransferPhase /\ p.mode \in Mode
           /\ p.current \in {NoneYet} \cup Transfer /\ p.begun \in {NoneYet} \cup Transfer
           /\ p.awaiting \in BOOLEAN /\ p.cancel \in BOOLEAN
           /\ p.controlFailure \in BOOLEAN /\ p.closing \in BOOLEAN /\ p.closed \in BOOLEAN
           /\ p.told \in [Transfer -> {None} \cup Ended]
           /\ \A t \in Transfer : t # NoneYet
           /\ p.current # NoneYet => p.current \in Transfer
  BY Constants DEF PaneRecord, Transfer, NoneYet

LEMMA AreLinked ==
    ASSUME IInv, NEW t \in Transfer
    PROVE  Linked(native[t])
  BY DEF IInv, LinkInv, Linked

LEMMA Changed ==
    ASSUME native \in [Transfer -> Record], NEW t \in Transfer, NEW m, Become(t, m)
    PROVE  /\ native'[t] = m /\ \A u \in Transfer \ {t} : native'[u] = native[u]
           /\ m \in Record => native' \in [Transfer -> Record]
  BY DEF Become

LEMMA OneChanges ==
    ASSUME IInv, NEW t \in Transfer, NEW m \in Record, Become(t, m),
           TransferInv(m), KeepsNames(native[t], m), LinkInv(t, m, pane'),
           \A u \in Transfer \ {t} : LinkInv(u, native[u], pane'),
           PaneInv(pane'), NothingDropped(pane)'
    PROVE  IInv' /\ NamesStep
<1>1. /\ native'[t] = m /\ (\A u \in Transfer \ {t} : native'[u] = native[u])
      /\ native' \in [Transfer -> Record]
  BY Changed DEF IInv
<1>2. \A u \in Transfer : TransferInv(native'[u]) /\ LinkInv(u, native'[u], pane')
  BY <1>1 DEF IInv
<1>3. NamesStep
  <2>1. \A n : KeepsNames(n, n)
    BY DEF KeepsNames
  <2> QED
    BY <1>1, <2>1 DEF NamesStep
<1> QED
  BY <1>1, <1>2, <1>3 DEF IInv

\* The pane's part in the invariant is the same.
PaneKept(p, q) ==
    /\ q \in PaneRecord /\ q.phase = p.phase /\ q.current = p.current /\ q.begun = p.begun
    /\ q.awaiting = p.awaiting /\ q.told = p.told /\ (q.mode = "IDLE" <=> p.mode = "IDLE")

\* One transfer moves, or changes in what the invariant does not see.
Beside ==
    \/ native' = native
    \/ \E t \in Transfer : \E m \in Record :
            Become(t, m) /\ (Moves(native[t], m) \/ Alike(native[t], m))

LEMMA BesideKeepsInv ==
    ASSUME IInv, Beside, PaneKept(pane, pane')
    PROVE  IInv' /\ NamesStep
<1>1. PaneInv(pane') /\ pane' \in PaneRecord
  BY DEF IInv, PaneInv, PaneKept
<1>2. \A u \in Transfer : \A n : LinkInv(u, n, pane') <=> LinkInv(u, n, pane)
  BY DEF LinkInv, PaneKept
<1>3. CASE native' = native
  <2>1. IInv'
    BY <1>1, <1>2, <1>3 DEF IInv, NothingDropped, PaneKept
  <2> QED
    BY <1>3, <2>1 DEF NamesStep, KeepsNames
<1>4. CASE native' # native
  <2>1. PICK t \in Transfer, m \in Record :
            Become(t, m) /\ (Moves(native[t], m) \/ Alike(native[t], m))
    BY <1>4 DEF Beside
  <2> DEFINE n == native[t]
  <2>2. n \in Record /\ TransferInv(n) /\ LinkInv(t, n, pane)
    BY DEF IInv
  <2>3. pane.told[t] \in {None} \cup Ended /\ pane.phase \in FileTransferPhase
    BY PaneFields DEF IInv, PaneInv
  <2>4. TransferInv(m) /\ KeepsNames(n, m)
    <3>1. CASE Moves(n, m)
      BY <3>1 DEF Moves
    <3>2. CASE Alike(n, m)
      BY <2>2, <3>2, AlikeInv DEF Alike, AlikeButEvents, SameFiles, KeepsNames
    <3> QED
      BY <2>1, <3>1, <3>2
  <2>5. LinkInv(t, m, pane)
    <3>1. CASE Moves(n, m)
      <4>1. KeepsLink(n, m)
        BY <3>1 DEF Moves
      <4>2. ~Waiting(n)
        BY <4>1 DEF KeepsLink, Waiting
      <4> QED
        BY <2>2, <2>3, <4>1, <4>2 DEF LinkInv, KeepsLink
    <3>2. CASE Alike(n, m)
      BY <2>2, <3>2, AlikeLinks DEF LinkInv
    <3> QED
      BY <2>1, <3>1, <3>2
  <2>6. NothingDropped(pane)'
    <3> SUFFICES ASSUME "dropped stage" \in Excluded
                 PROVE  /\ pane.phase = "IDLE" <=> pane.current = NoneYet
                        /\ pane.awaiting => pane.phase = "PREPARING"
                        /\ pane.current # NoneYet /\ ~pane.awaiting =>
                                StageInv(native'[pane.current], pane.phase)
      BY DEF NothingDropped, PaneKept
    <3>1. /\ pane.phase = "IDLE" <=> pane.current = NoneYet
          /\ pane.awaiting => pane.phase = "PREPARING"
          /\ pane.current # NoneYet /\ ~pane.awaiting =>
                  StageInv(native[pane.current], pane.phase)
      BY DEF IInv, NothingDropped
    <3>2. native'[t] = m /\ \A u \in Transfer \ {t} : native'[u] = native[u]
      BY <2>1, Changed DEF IInv
    <3>3. StageInv(n, pane.phase) => StageInv(m, pane.phase)
      <4>1. CASE Moves(n, m)
        BY <2>3, <4>1 DEF Moves, KeepsStages
      <4>2. CASE Alike(n, m)
        BY <4>2, AlikeLinks
      <4> QED
        BY <2>1, <4>1, <4>2
    <3>4. pane.current # NoneYet => pane.current \in Transfer
      BY PaneFields DEF IInv, PaneInv
    <3>5. CASE pane.current = t
      BY <3>1, <3>2, <3>3, <3>5
    <3>6. CASE pane.current # t
      BY <3>1, <3>2, <3>4, <3>6
    <3> QED
      BY <3>5, <3>6
  <2>7. LinkInv(t, m, pane') /\ \A u \in Transfer \ {t} : LinkInv(u, native[u], pane')
    BY <1>2, <2>5 DEF IInv
  <2> QED
    BY <1>1, <2>1, <2>4, <2>6, <2>7, OneChanges
<1> QED
  BY <1>3, <1>4

LEMMA NativeKeepsInv ==
    ASSUME IInv, NEW t \in Transfer, Native(t) \/ Around(t)
    PROVE  IInv' /\ NamesStep
<1>1. MovesTo(t)
  BY AreLinked, NativeMoves DEF Native, Around, IInv
<1>2. Beside
  BY <1>1 DEF Beside, MovesTo
<1>3. PaneKept(pane, pane')
  BY DEF Native, Around, PaneKept, IInv, PaneInv
<1> QED
  BY <1>2, <1>3, BesideKeepsInv

LEMMA SignalledBeside ==
    ASSUME IInv, NEW t \in Transfer, native' = Signalled(t)
    PROVE  Beside
<1> DEFINE m == [native[t] EXCEPT !.disconnect = TRUE]
<1>1. native[t] \in Record
  BY DEF IInv
<1>2. m \in Record /\ Alike(native[t], m)
  BY <1>1 DEF Record, Alike, AlikeButEvents, SameFiles
<1>3. native' = native \/ Become(t, m)
  BY DEF Signalled, Become
<1> QED
  BY <1>2, <1>3 DEF Beside

LEMMA TakeControlKeepsInv ==
    ASSUME IInv, NEW t \in Transfer, TakeControl(t)
    PROVE  IInv' /\ NamesStep
<1> DEFINE n == native[t]
           rest == Tail(n.control)
           m == [n EXCEPT !.control = rest]
           s == [n EXCEPT !.control = rest, !.disconnect = TRUE]
<1>1. n \in Record /\ n.control # <<>> /\ native \in [Transfer -> Record]
  BY DEF IInv, TakeControl
<1>2. rest \in Seq({"prompt", "changed"})
  BY <1>1, RecordFields, TailFacts
<1> HIDE DEF rest
<1>3. m \in Record /\ Alike(n, m) /\ s \in Record /\ Alike(n, s)
  BY <1>1, <1>2 DEF Record, Alike, AlikeButEvents, SameFiles
<1>4. Become(t, m) \/ Become(t, s)
  <2>1. \/ native' = [native EXCEPT ![t].control = Tail(@)]
        \/ native' = [Signalled(t) EXCEPT ![t].control = Tail(@)]
    BY DEF TakeControl
  <2>2. \/ native' = [native EXCEPT ![t].control = Tail(@)]
        \/ native' = [[native EXCEPT ![t].disconnect = TRUE] EXCEPT ![t].control = Tail(@)]
    BY <2>1 DEF Signalled
  <2>3. ASSUME native' = [native EXCEPT ![t].control = Tail(@)] PROVE Become(t, m)
    BY <2>3 DEF Become, rest
  <2>4. ASSUME native' = [[native EXCEPT ![t].disconnect = TRUE] EXCEPT ![t].control = Tail(@)]
        PROVE  Become(t, s)
    <3> DEFINE d == [n EXCEPT !.disconnect = TRUE]
    <3>1. [native EXCEPT ![t].disconnect = TRUE] = [native EXCEPT ![t] = d]
      OBVIOUS
    <3>2. d.control = n.control /\ [d EXCEPT !.control = rest] = s
      BY <1>1 DEF Record
    <3> HIDE DEF d
    <3>3. native' = [[native EXCEPT ![t] = d] EXCEPT ![t].control = Tail(@)]
      BY <2>4, <3>1
    <3>4. native' = [native EXCEPT ![t] = [d EXCEPT !.control = Tail(d.control)]]
      BY <1>1, <3>3
    <3> QED
      BY <3>2, <3>4 DEF Become, rest
  <2> QED
    BY <2>2, <2>3, <2>4
<1>5. Beside
  BY <1>3, <1>4 DEF Beside
<1>6. PaneKept(pane, pane')
  <2>1. pane \in PaneRecord /\ (pane.mode = "IDLE" <=> pane.current = NoneYet) /\ t # NoneYet
    BY PaneFields DEF IInv, PaneInv
  <2>2. \/ pane' = pane
        \/ pane.current = t /\ pane' = [pane EXCEPT !.mode = "PROMPT"]
        \/ pane' = [pane EXCEPT !.controlFailure = TRUE]
    BY DEF TakeControl, IsCurrent
  <2> QED
    BY <2>1, <2>2 DEF PaneKept, PaneRecord, Mode
<1> QED
  BY <1>5, <1>6, BesideKeepsInv

LEMMA AnswerPromptKeepsInv ==
    ASSUME IInv, AnswerPrompt
    PROVE  IInv' /\ NamesStep
<1> DEFINE t == pane.current
<1>1. pane \in PaneRecord /\ (pane.mode = "IDLE" <=> pane.current = NoneYet)
  BY DEF IInv, PaneInv
<1>2. t \in Transfer
  BY <1>1, PaneFields DEF AnswerPrompt
<1>3. native' \in PromptAnswered(t)
  BY DEF AnswerPrompt
<1>4. native' = native \/ MovesTo(t)
  BY <1>2, <1>3, AreLinked, PromptAnsweredMoves DEF IInv
<1>5. Beside
  BY <1>2, <1>4 DEF Beside, MovesTo
<1>6. PaneKept(pane, pane')
  BY <1>1 DEF AnswerPrompt, PaneKept, PaneRecord, Mode
<1> QED
  BY <1>5, <1>6, BesideKeepsInv

LEMMA HostKeyNotRetainedKeepsInv ==
    ASSUME IInv, HostKeyNotRetained
    PROVE  IInv' /\ NamesStep
<1>1. pane \in PaneRecord /\ pane.current \in Transfer
  BY PaneFields DEF IInv, PaneInv, HostKeyNotRetained
<1>2. Beside
  BY <1>1, SignalledBeside DEF HostKeyNotRetained
<1>3. PaneKept(pane, pane')
  BY <1>1 DEF HostKeyNotRetained, PaneKept, PaneRecord
<1> QED
  BY <1>2, <1>3, BesideKeepsInv

LEMMA RequestBeside ==
    ASSUME IInv, native' = Request
    PROVE  Beside
<1>1. CASE pane.current = NoneYet
  BY <1>1 DEF Request, Beside
<1>2. CASE pane.current # NoneYet
  <2>1. pane.current \in Transfer
    BY <1>2, PaneFields DEF IInv, PaneInv
  <2> QED
    BY <1>2, <2>1, SignalledBeside DEF Request
<1> QED
  BY <1>1, <1>2

LEMMA CancelTransferKeepsInv ==
    ASSUME IInv, CancelTransfer
    PROVE  IInv' /\ NamesStep
<1>1. Beside
  BY RequestBeside DEF CancelTransfer
<1>2. PaneKept(pane, pane')
  BY DEF CancelTransfer, PaneKept, PaneRecord, Mode, IInv, PaneInv
<1> QED
  BY <1>1, <1>2, BesideKeepsInv

LEMMA CloseKeepsInv ==
    ASSUME IInv, Close
    PROVE  IInv' /\ NamesStep
<1>1. Beside
  BY RequestBeside DEF Close, Beside
<1>2. PaneKept(pane, pane')
  <2>1. \/ pane' = [pane EXCEPT !.cancel = TRUE, !.closed = TRUE]
        \/ pane' = [pane EXCEPT !.cancel = TRUE, !.closing = TRUE]
        \/ pane' = [pane EXCEPT !.closed = TRUE]
    BY DEF Close
  <2>2. pane \in PaneRecord
    BY DEF IInv, PaneInv
  <2> QED
    BY <2>1, <2>2 DEF PaneKept, PaneRecord
<1> QED
  BY <1>1, <1>2, BesideKeepsInv
-----------------------------------------------------------------------------
(* A transfer begins, and is started or given up.                           *)

\* A transfer that is not under way.
LEMMA AtRestInv ==
    ASSUME NEW n \in Record, n.phase \in {"none", "ended"}, n.result = None, n.copied = 0,
           n.temp = Absent, n.requests = <<>>, n.reply = None, n.localTemp = Absent,
           n.events = <<>>, n.remote.kind # "ours", NoOurs(n)
    PROVE  TransferInv(n) /\ Finished(n)
<1>1. QueueInv(n)
  BY DEF QueueInv, PhaseOf, Early, Over, Alone, LocalCall
<1>2. ResultInv(n)
  BY DEF ResultInv
<1>3. n.result # "ok"
  BY NoneFacts
<1>4. \A c : ~Queued(n, c)
  BY DEF Queued
<1>5. PutInv(n)
  <2>1. n.phase \in {"none", "ended"} /\ DOMAIN n.requests = {}
    OBVIOUS
  <2> QED
    BY <1>3, <1>4, <2>1 DEF PutInv, Early, Over
<1>6. GetInv(n)
  BY <1>3 DEF GetInv, LocalCall
<1>7. NamesInv(n) /\ EventInv(n)
  BY DEF NamesInv, NoOurs, EventInv
<1>8. Finished(n)
  BY DEF Finished
<1> QED
  BY <1>1, <1>2, <1>5, <1>6, <1>7, <1>8 DEF TransferInv

LEMMA NoTransferFacts ==
    ASSUME NEW direction \in {"put", "get"}
    PROVE  NoTransfer(direction) \in Record
<1> DEFINE names == [i \in 0..(MaxNames - 1) |-> Absent]
<1>1. names \in [0..(MaxNames - 1) -> File] /\ Absent \in File
  BY Files
<1>2. Blocks \in 0..(Blocks + 1) /\ 0 \in 0..(Blocks + 1)
  BY Files
<1>3. "None" \in Faults
  BY Zenon, SftpTransferAssumption
<1>4. <<>> \in Seq(RequestRecord) /\ <<>> \in Seq(EventName) /\ <<>> \in Seq({"prompt", "changed"})
  OBVIOUS
<1> HIDE DEF names
<1> QED
  BY <1>1, <1>2, <1>3, <1>4 DEF NoTransfer, Record, Phase, names, RequestRecord, EventName

\* What a put and what a get may find.
FoundPut(file, fault) == [NoTransfer("put") EXCEPT !.remote = file, !.fault = fault]
FoundGet(file, fault, automatic, names) ==
    [NoTransfer("get") EXCEPT !.remote = file, !.fault = fault, !.automatic = automatic,
                              !.names = names]

\* It is about to begin, and none of its files is this transfer's.
Fresh(n) ==
    /\ n \in Record /\ n.phase = "none" /\ n.result = None /\ n.copied = 0
    /\ n.temp = Absent /\ n.requests = <<>> /\ n.reply = None /\ n.localTemp = Absent
    /\ n.events = <<>> /\ n.remote.kind # "ours" /\ NoOurs(n)

LEMMA FreshPut ==
    ASSUME NEW file \in File, NEW fault \in Faults, file.kind # "ours"
    PROVE  Fresh(FoundPut(file, fault))
<1> DEFINE k == NoTransfer("put")
           n == [k EXCEPT !.remote = file, !.fault = fault]
<1>1. /\ k \in Record /\ k.phase = "none" /\ k.result = None /\ k.copied = 0
      /\ k.temp = Absent /\ k.requests = <<>> /\ k.reply = None /\ k.localTemp = Absent
      /\ k.events = <<>> /\ \A i \in DOMAIN k.names : k.names[i].kind # "ours"
  BY NoTransferFacts, Files DEF NoTransfer
<1>2. FoundPut(file, fault) = n
  BY DEF FoundPut
<1> HIDE DEF k
<1>3. n \in Record
  BY <1>1, ZenonT(60) DEF Record
<1>4. /\ n.phase = k.phase /\ n.result = k.result /\ n.copied = k.copied
      /\ n.temp = k.temp /\ n.requests = k.requests /\ n.reply = k.reply
      /\ n.localTemp = k.localTemp /\ n.events = k.events /\ n.remote = file
      /\ n.names = k.names
  BY <1>1 DEF Record
<1> HIDE DEF n
<1> QED
  BY <1>1, <1>2, <1>3, <1>4 DEF Fresh, NoOurs

LEMMA FreshGet ==
    ASSUME NEW file \in File, NEW fault \in Faults, NEW automatic \in BOOLEAN,
           NEW names \in [0..(MaxNames - 1) -> File], file.kind # "ours",
           \A i \in DOMAIN names : names[i].kind # "ours"
    PROVE  Fresh(FoundGet(file, fault, automatic, names))
<1> DEFINE k == NoTransfer("get")
           n == [k EXCEPT !.remote = file, !.fault = fault, !.automatic = automatic,
                          !.names = names]
<1>1. /\ k \in Record /\ k.phase = "none" /\ k.result = None /\ k.copied = 0
      /\ k.temp = Absent /\ k.requests = <<>> /\ k.reply = None /\ k.localTemp = Absent
      /\ k.events = <<>>
  BY NoTransferFacts DEF NoTransfer
<1>2. FoundGet(file, fault, automatic, names) = n
  BY DEF FoundGet
<1> HIDE DEF k
<1>3. n \in Record
  BY <1>1, ZenonT(60) DEF Record
<1>4. /\ n.phase = k.phase /\ n.result = k.result /\ n.copied = k.copied
      /\ n.temp = k.temp /\ n.requests = k.requests /\ n.reply = k.reply
      /\ n.localTemp = k.localTemp /\ n.events = k.events /\ n.remote = file
      /\ n.names = names
  BY <1>1 DEF Record
<1> HIDE DEF n
<1> QED
  BY <1>1, <1>2, <1>3, <1>4 DEF Fresh, NoOurs

Names0 == {[NoTransfer("get").names EXCEPT ![0] = name] : name \in {Absent, Other}}
Puts == {[NoTransfer("put") EXCEPT !.remote = file, !.fault = fault] :
            file \in {Absent, Other, Directory}, fault \in Faults}
Gets == {[NoTransfer("get") EXCEPT !.remote = file, !.fault = fault, !.automatic = automatic,
                                   !.names = names] :
            file \in {Absent, Other, Directory}, fault \in Faults, automatic \in BOOLEAN,
            names \in Names0}

LEMMA FoundBy ==
    Found = {FoundPut(file, fault) : file \in {Absent, Other, Directory}, fault \in Faults}
            \cup
            {FoundGet(file, fault, automatic, names) :
                file \in {Absent, Other, Directory}, fault \in Faults,
                automatic \in BOOLEAN, names \in Names0}
<1>1. Found = Puts \cup Gets
  BY DEF Found, Puts, Gets, Names0
<1>2. Puts = {FoundPut(file, fault) : file \in {Absent, Other, Directory}, fault \in Faults}
  BY DEF Puts, FoundPut
<1>3. Gets = {FoundGet(file, fault, automatic, names) :
                file \in {Absent, Other, Directory}, fault \in Faults,
                automatic \in BOOLEAN, names \in Names0}
  BY DEF Gets, FoundGet
<1> QED
  BY <1>1, <1>2, <1>3

LEMMA FoundFacts ==
    ASSUME NEW n \in Found
    PROVE  Fresh(n)
<1>1. \A file \in {Absent, Other, Directory} : file \in File /\ file.kind # "ours"
  BY Files
<1>2. ASSUME NEW names \in Names0
      PROVE  names \in [0..(MaxNames - 1) -> File] /\ \A i \in DOMAIN names : names[i].kind # "ours"
  <2> DEFINE none == [i \in 0..(MaxNames - 1) |-> Absent]
  <2>1. NoTransfer("get").names = none
    BY DEF NoTransfer
  <2>2. none \in [0..(MaxNames - 1) -> File] /\ \A i \in DOMAIN none : none[i] = Absent
    BY Files
  <2> HIDE DEF none
  <2>3. PICK name \in {Absent, Other} : names = [none EXCEPT ![0] = name]
    BY <2>1 DEF Names0
  <2>4. name \in File /\ name.kind # "ours" /\ Absent.kind # "ours"
    BY Files
  <2> QED
    BY <2>2, <2>3, <2>4
<1>3. CASE n \in {FoundPut(file, fault) : file \in {Absent, Other, Directory}, fault \in Faults}
  <2>1. PICK file \in {Absent, Other, Directory}, fault \in Faults : n = FoundPut(file, fault)
    BY <1>3
  <2> QED
    BY <1>1, <2>1, FreshPut
<1>4. CASE n \in {FoundGet(file, fault, automatic, names) :
                    file \in {Absent, Other, Directory}, fault \in Faults,
                    automatic \in BOOLEAN, names \in Names0}
  <2>1. PICK file \in {Absent, Other, Directory}, fault \in Faults, automatic \in BOOLEAN,
             names \in Names0 : n = FoundGet(file, fault, automatic, names)
    BY <1>4
  <2>2. file \in File /\ file.kind # "ours" /\ names \in [0..(MaxNames - 1) -> File]
        /\ \A i \in DOMAIN names : names[i].kind # "ours"
    BY <1>1, <1>2
  <2>3. Fresh(FoundGet(file, fault, automatic, names))
    BY <2>2, FreshGet
  <2> QED
    BY <2>1, <2>3
<1> QED
  BY FoundBy, <1>3, <1>4

\* What is left of an earlier transfer.
LEMMA ForgottenFacts ==
    ASSUME NEW k \in Record, k.phase \in {"none", "ended"}, NEW n,
           n = [NoTransfer("put") EXCEPT !.phase = k.phase, !.control = k.control]
    PROVE  /\ n \in Record /\ n.phase \in {"none", "ended"} /\ n.result = None /\ n.copied = 0
           /\ n.temp = Absent /\ n.requests = <<>> /\ n.reply = None /\ n.localTemp = Absent
           /\ n.events = <<>> /\ n.remote.kind # "ours" /\ NoOurs(n)
<1> DEFINE o == NoTransfer("put")
           phase == k.phase
           control == k.control
<1>1. /\ o.result = None /\ o.copied = 0 /\ o.remote = Absent
      /\ o.temp = Absent /\ o.requests = <<>> /\ o.reply = None /\ o.localTemp = Absent
      /\ o.events = <<>> /\ \A i \in DOMAIN o.names : o.names[i] = Absent
  BY DEF NoTransfer
<1>2. o \in Record
  BY NoTransferFacts
<1>3. phase \in Phase /\ control \in Seq({"prompt", "changed"}) /\ phase \in {"none", "ended"}
  BY RecordFields
<1> HIDE DEF o, phase, control
<1>4. n = [o EXCEPT !.phase = phase, !.control = control]
  BY DEF o, phase, control
<1>5. n \in Record /\ n.phase = phase
  BY <1>2, <1>3, <1>4 DEF Record
<1>6. /\ n.result = o.result /\ n.copied = o.copied /\ n.remote = o.remote
      /\ n.temp = o.temp /\ n.requests = o.requests /\ n.reply = o.reply
      /\ n.localTemp = o.localTemp /\ n.events = o.events /\ n.names = o.names
  BY <1>2, <1>4 DEF Record
<1>7. Absent.kind # "ours"
  BY Files
<1> QED
  BY <1>1, <1>3, <1>5, <1>6, <1>7 DEF NoOurs

LEMMA BeginKeepsInv ==
    ASSUME IInv, Begin
    PROVE  IInv' /\ pane'.begun # pane.begun
<1> DEFINE t == pane.begun + 1
<1>1. /\ t \in Transfer /\ \A u \in Transfer : AtRest(u)
      /\ pane' = [pane EXCEPT !.phase = "PREPARING", !.mode = "TRANSFERRING", !.current = t,
                            !.begun = t, !.awaiting = TRUE, !.cancel = FALSE,
                            !.controlFailure = FALSE,
                            !.told = [u \in Transfer |-> None]]
  BY DEF Begin
<1>2. PICK found \in Found : native' = Forgetting(t, found)
  BY DEF Begin
<1>3. native \in [Transfer -> Record] /\ pane \in PaneRecord
  BY DEF IInv, PaneInv
<1>4. pane.begun \in Int /\ t # pane.begun /\ t # NoneYet
  BY <1>1, <1>3, PaneFields DEF Transfer, NoneYet
<1> HIDE DEF t
<1>5. /\ pane' \in PaneRecord /\ pane'.phase = "PREPARING" /\ pane'.mode = "TRANSFERRING"
      /\ pane'.current = t /\ pane'.begun = t /\ pane'.awaiting = TRUE
      /\ \A u \in Transfer : pane'.told[u] = None
  BY <1>1, <1>3 DEF PaneRecord, FileTransferPhase, Active, Mode
<1>6. /\ native'[t] = found
      /\ \A u \in Transfer \ {t} :
            native'[u] = [NoTransfer("put") EXCEPT !.phase = native[u].phase,
                                                   !.control = native[u].control]
      /\ native' = [u \in Transfer |-> native'[u]]
  BY <1>1, <1>2 DEF Forgetting
<1>7. found \in Record /\ TransferInv(found) /\ Waiting(found) /\ NoOurs(found)
  <2>1. /\ found \in Record /\ found.phase = "none" /\ found.result = None /\ found.copied = 0
        /\ found.temp = Absent /\ found.requests = <<>> /\ found.reply = None
        /\ found.localTemp = Absent
        /\ found.events = <<>> /\ found.remote.kind # "ours" /\ NoOurs(found)
    BY FoundFacts DEF Fresh
  <2>2. TransferInv(found)
    BY <2>1, AtRestInv
  <2> QED
    BY <2>1, <2>2 DEF Waiting
<1>8. ASSUME NEW u \in Transfer \ {t}
      PROVE  native'[u] \in Record /\ TransferInv(native'[u]) /\ Finished(native'[u])
  <2> DEFINE n == native'[u]
  <2>1. native[u] \in Record /\ native[u].phase \in {"none", "ended"}
    BY <1>1, <1>3 DEF AtRest
  <2>2. n = [NoTransfer("put") EXCEPT !.phase = native[u].phase, !.control = native[u].control]
    BY <1>6
  <2> HIDE DEF n
  <2>3. /\ n \in Record /\ n.phase \in {"none", "ended"} /\ n.result = None /\ n.copied = 0
        /\ n.temp = Absent /\ n.requests = <<>> /\ n.reply = None /\ n.localTemp = Absent
        /\ n.events = <<>> /\ n.remote.kind # "ours" /\ NoOurs(n)
    BY <2>1, <2>2, ForgottenFacts
  <2>4. n \in Record /\ TransferInv(n) /\ Finished(n)
    BY <2>3, AtRestInv
  <2> QED
    BY <2>4 DEF n
<1>9. native' \in [Transfer -> Record]
  BY <1>6, <1>7, <1>8
<1>10. LinkInv(t, found, pane')
  BY <1>1, <1>5, <1>7 DEF LinkInv
<1>11. ASSUME NEW u \in Transfer \ {t} PROVE LinkInv(u, native'[u], pane')
  <2>1. Told(native'[u], None)
    BY NoneFacts DEF Told, Ended
  <2> QED
    BY <1>5, <1>8, <2>1 DEF LinkInv
<1>12. PaneInv(pane')
  BY <1>4, <1>5 DEF PaneInv, Active
<1>13. NothingDropped(pane)'
  BY <1>4, <1>5 DEF NothingDropped
<1>14. \A u \in Transfer : TransferInv(native'[u]) /\ LinkInv(u, native'[u], pane')
  BY <1>6, <1>7, <1>8, <1>10, <1>11
<1> QED
  BY <1>4, <1>5, <1>9, <1>12, <1>13, <1>14 DEF IInv
-----------------------------------------------------------------------------
(* Its preparation ends, and its final event is taken.                      *)

\* Of the pane's own transfer.
LEMMA OfCurrent ==
    ASSUME IInv, pane.current # NoneYet
    PROVE  /\ pane.current \in Transfer /\ native[pane.current] \in Record
           /\ TransferInv(native[pane.current]) /\ NoOurs(native[pane.current])
           /\ pane.phase \in Active /\ pane.mode # "IDLE" /\ pane.current = pane.begun
           /\ pane \in PaneRecord /\ native \in [Transfer -> Record]
           /\ IF pane.awaiting THEN Waiting(native[pane.current])
              ELSE Running(native[pane.current])
<1>1. pane.current \in Transfer
  BY PaneFields DEF IInv, PaneInv
<1> QED
  BY <1>1 DEF IInv, PaneInv, LinkInv

\* Where finishFileTransferState leaves the lifecycle.
LEMMA EndOfPhase ==
    ASSUME NEW phase \in Active, NEW outcome \in Ended
    PROVE  /\ To(To(phase, outcome), "IDLE") \in {"IDLE"} \cup Active
           /\ outcome \in {"FAILED", "CANCELLED"} \/ phase = "FINALIZING" =>
                    To(To(phase, outcome), "IDLE") = "IDLE"
<1>1. outcome \in {"FAILED", "CANCELLED"} => To(phase, outcome) = outcome
  BY DEF To, CanTransition, Active
<1>2. phase = "FINALIZING" /\ outcome = "SUCCEEDED" => To(phase, outcome) = outcome
  BY DEF To, CanTransition
<1>3. To(outcome, "IDLE") = "IDLE"
  BY DEF To, CanTransition, Ended
<1>4. To(phase, outcome) \in {phase, outcome}
  BY DEF To
<1>5. To(phase, "IDLE") \in {phase, "IDLE"}
  BY DEF To
<1> QED
  BY <1>1, <1>2, <1>3, <1>4, <1>5 DEF Ended

\* m is what is left of the pane's transfer when it ends.
LEMMA FinishTransferKeepsInv ==
    ASSUME IInv, pane.current # NoneYet, NEW m \in Record, Become(pane.current, m),
           NEW outcome \in Ended, pane' = FinishTransfer(pane, outcome),
           TransferInv(m), KeepsNames(native[pane.current], m),
           Finished(m), Told(m, outcome),
           "dropped stage" \in Excluded =>
                outcome \in {"FAILED", "CANCELLED"} \/ pane.phase = "FINALIZING"
    PROVE  IInv' /\ NamesStep
<1> DEFINE t == pane.current
           phase == To(To(pane.phase, outcome), "IDLE")
           told == [pane.told EXCEPT ![t] = outcome]
           closed == pane.closed \/ pane.closing
<1>1. t \in Transfer /\ pane \in PaneRecord /\ pane.phase \in Active
  BY OfCurrent
<1>2. phase \in {"IDLE"} \cup Active
      /\ ("dropped stage" \in Excluded => phase = "IDLE")
  BY <1>1, EndOfPhase
<1>3. /\ told \in [Transfer -> {None} \cup Ended] /\ told[t] = outcome
      /\ \A u \in Transfer \ {t} : told[u] = pane.told[u]
  BY <1>1, PaneFields
<1>4. closed \in BOOLEAN
  OBVIOUS
<1>5. pane' = [pane EXCEPT !.phase = phase, !.mode = "IDLE", !.current = NoneYet,
                           !.awaiting = FALSE, !.controlFailure = FALSE, !.cancel = FALSE,
                           !.told = told, !.closed = closed]
  BY <1>1 DEF FinishTransfer, PaneRecord
<1> HIDE DEF phase, told, closed
<1>6. /\ pane' \in PaneRecord /\ pane'.phase = phase /\ pane'.mode = "IDLE"
      /\ pane'.current = NoneYet /\ pane'.awaiting = FALSE /\ pane'.told = told
  BY <1>1, <1>2, <1>3, <1>4, <1>5 DEF PaneRecord, FileTransferPhase, Mode
<1>7. PaneInv(pane')
  BY <1>2, <1>6 DEF PaneInv
<1>8. NothingDropped(pane)'
  BY <1>2, <1>6 DEF NothingDropped
<1>9. LinkInv(t, m, pane')
  BY <1>3, <1>6 DEF LinkInv
<1>10. \A u \in Transfer \ {t} : LinkInv(u, native[u], pane')
  <2> SUFFICES ASSUME NEW u \in Transfer \ {t} PROVE LinkInv(u, native[u], pane')
    OBVIOUS
  <2>1. Finished(native[u]) /\ Told(native[u], pane.told[u])
    BY DEF IInv, LinkInv
  <2>2. u # NoneYet
    BY <1>1, PaneFields
  <2> QED
    BY <1>3, <1>6, <2>1, <2>2 DEF LinkInv
<1> QED
  BY <1>1, <1>7, <1>8, <1>9, <1>10, OneChanges

LEMMA StartedFacts ==
    ASSUME NEW n \in Record, TransferInv(n), Waiting(n), NoOurs(n)
    PROVE  /\ Started(n) \in Record /\ TransferInv(Started(n)) /\ KeepsNames(n, Started(n))
           /\ Running(Started(n)) /\ NoOurs(Started(n)) /\ StageInv(Started(n), "PREPARING")
<1> DEFINE local == IF n.direction = "get" THEN Ours(0) ELSE Absent
           events == <<"preparing">>
           m == [n EXCEPT !.phase = "connecting", !.events = events, !.localTemp = local]
<1>1. Started(n) = m
  BY DEF Started
<1>2. local \in File
  BY Files
<1>3. events \in Seq(EventName) /\ DOMAIN events = {1} /\ events[1] = "preparing"
  BY DEF EventName, Stage
<1>4. (n.direction = "get" => local = Ours(0)) /\ (n.direction = "put" => local = Absent)
  OBVIOUS
<1> HIDE DEF local, events
<1>5. m \in Record
  BY <1>2, <1>3 DEF Record, Phase, EventName
<1>6. /\ m.phase = "connecting" /\ m.events = events /\ m.localTemp = local /\ SameFiles(n, m)
      /\ m.result = n.result /\ m.reply = n.reply /\ m.requests = n.requests
      /\ m.copied = n.copied /\ m.abandoned = n.abandoned
  BY DEF Record, SameFiles
<1> HIDE DEF m
<1>7. /\ m.direction = n.direction /\ m.temp = n.temp /\ m.remote = n.remote
      /\ m.names = n.names /\ n.direction \in {"put", "get"}
  BY <1>6, RecordFields DEF SameFiles
<1>8. n.phase = "none" /\ QueueInv(n) /\ ResultInv(n) /\ PutInv(n) /\ GetInv(n)
  BY DEF Waiting, TransferInv
<1>9. n.requests = <<>> /\ n.reply = None /\ n.result = None /\ n.copied = 0
  BY <1>7, <1>8 DEF QueueInv, ResultInv, PutInv, GetInv, Early, Over, RemoteCall
<1>10. QueueInv(m)
  BY <1>6, <1>7, <1>9 DEF QueueInv, PhaseOf, Early, Over, Alone, LocalCall
<1>11. ResultInv(m)
  BY <1>6, <1>9 DEF ResultInv
<1>12. PutInv(m)
  <2>1. \A c : ~Queued(m, c)
    BY <1>6, <1>9 DEF Queued
  <2> QED
    BY <1>4, <1>6, <1>7, <1>8, <1>9, <2>1 DEF PutInv, Early, Over
<1>13. GetInv(m)
  BY <1>6, <1>7, <1>8, <1>9 DEF GetInv, Early, Over, LocalCall
<1>14. NamesInv(m) /\ KeepsNames(n, m) /\ NoOurs(m)
  BY <1>5, <1>6, NamesKept DEF TransferInv
<1>15. EventInv(m)
  BY <1>3, <1>6 DEF EventInv, Terminal
<1>16. Running(m)
  BY <1>4, <1>6, <1>7, <1>9 DEF Running
<1>17. StageInv(m, "PREPARING")
  BY <1>3, <1>6 DEF StageInv, InOrder, Coming, LeadsToTransferring, LeadsToFinalizing, Copied,
                    Over
<1> QED
  BY <1>1, <1>5, <1>10, <1>11, <1>12, <1>13, <1>14, <1>15, <1>16, <1>17 DEF TransferInv

LEMMA PreparationEndsKeepsInv ==
    ASSUME IInv, PreparationEnds
    PROVE  IInv' /\ NamesStep
<1> DEFINE t == pane.current
           n == native[t]
<1>1. pane.awaiting /\ t # NoneYet
  BY DEF PreparationEnds, IInv, PaneInv
<1>2. /\ t \in Transfer /\ n \in Record /\ TransferInv(n) /\ NoOurs(n) /\ Waiting(n)
      /\ pane.phase \in Active /\ pane.mode # "IDLE" /\ pane.current = pane.begun
      /\ pane \in PaneRecord /\ native \in [Transfer -> Record]
  BY <1>1, OfCurrent
<1>3. ASSUME native' = [native EXCEPT ![t] = Started(@)], pane' = [pane EXCEPT !.awaiting = FALSE]
      PROVE  IInv' /\ NamesStep
  <2> DEFINE m == Started(n)
  <2>1. /\ m \in Record /\ TransferInv(m) /\ KeepsNames(n, m)
        /\ Running(m) /\ NoOurs(m) /\ StageInv(m, "PREPARING")
    BY <1>2, StartedFacts
  <2>2. Become(t, m)
    BY <1>2, <1>3 DEF Become
  <2> HIDE DEF m
  <2>3. /\ pane' \in PaneRecord /\ pane'.phase = pane.phase /\ pane'.mode = pane.mode
        /\ pane'.current = t /\ pane'.begun = pane.begun /\ ~pane'.awaiting
        /\ pane'.told = pane.told
    BY <1>2, <1>3 DEF PaneRecord
  <2>4. PaneInv(pane')
    BY <1>1, <1>2, <2>3 DEF PaneInv
  <2>5. LinkInv(t, m, pane')
    <3>1. pane.told[t] = None
      BY <1>2 DEF IInv, LinkInv
    <3> QED
      BY <2>1, <2>3, <3>1 DEF LinkInv
  <2>6. \A u \in Transfer \ {t} : LinkInv(u, native[u], pane')
    BY <2>3 DEF IInv, LinkInv
  <2>7. NothingDropped(pane)'
    <3> SUFFICES ASSUME "dropped stage" \in Excluded
                 PROVE  /\ pane'.phase = "IDLE" <=> pane'.current = NoneYet
                        /\ StageInv(native'[t], pane'.phase)
      BY <2>3 DEF NothingDropped
    <3>1. pane.phase = "PREPARING"
      BY <1>1 DEF IInv, NothingDropped
    <3>2. native'[t] = m
      BY <1>2, <2>2, Changed
    <3> QED
      BY <1>1, <2>1, <2>3, <3>1, <3>2
  <2> QED
    BY <1>2, <2>1, <2>2, <2>4, <2>5, <2>6, <2>7, OneChanges
<1>4. ASSUME NEW outcome \in {"CANCELLED", "FAILED"}, pane' = FinishTransfer(pane, outcome),
             native' = native
      PROVE  IInv' /\ NamesStep
  <2>1. Become(t, n)
    BY <1>2, <1>4 DEF Become
  <2>2. outcome \in Ended /\ KeepsNames(n, n)
    BY DEF Ended, KeepsNames
  <2>3. Finished(n) /\ Told(n, outcome)
    BY <1>2 DEF Waiting, Finished, Told
  <2> QED
    BY <1>1, <1>2, <1>4, <2>1, <2>2, <2>3, FinishTransferKeepsInv
<1> QED
  BY <1>3, <1>4 DEF PreparationEnds
\* The transfer after its first event has been taken.
LEMMA TakenFacts ==
    ASSUME NEW n \in Record, TransferInv(n), n.events # <<>>, NEW m,
           m = [n EXCEPT !.events = Tail(@)]
    PROVE  /\ m \in Record /\ AlikeButEvents(n, m) /\ m.events = Tail(n.events)
           /\ TransferInv(m) /\ KeepsNames(n, m) /\ (NoOurs(n) => NoOurs(m))
           /\ Running(n) /\ Head(n.events) \notin Terminal => Running(m)
<1> DEFINE rest == Tail(n.events)
<1>1. /\ rest \in Seq(EventName) /\ Len(rest) = Len(n.events) - 1
      /\ Len(n.events) \in Nat /\ Len(n.events) >= 1
      /\ DOMAIN rest = 1..(Len(n.events) - 1) /\ DOMAIN n.events = 1..Len(n.events)
      /\ \A i \in DOMAIN rest : i + 1 \in DOMAIN n.events /\ rest[i] = n.events[i + 1]
      /\ Head(n.events) = n.events[1]
      /\ rest = <<>> <=> Len(n.events) = 1
  BY RecordFields, TailFacts
<1> HIDE DEF rest
<1>2. m = [n EXCEPT !.events = rest]
  BY DEF rest
<1>3. m \in Record /\ m.events = rest /\ AlikeButEvents(n, m)
  BY <1>1, <1>2, ZenonT(60) DEF Record, EventName, AlikeButEvents, SameFiles
<1>4. QueueInv(m) /\ ResultInv(m)
  BY <1>3 DEF TransferInv, AlikeButEvents, SameFiles, QueueInv, ResultInv
<1>5. PutInv(m)
  BY <1>3 DEF TransferInv, AlikeButEvents, SameFiles, PutInv, Queued
<1>6. GetInv(m)
  BY <1>3 DEF TransferInv, AlikeButEvents, SameFiles, GetInv
<1>7. NamesInv(m) /\ KeepsNames(n, m) /\ (NoOurs(n) => NoOurs(m))
  BY <1>3, NamesKept DEF TransferInv, AlikeButEvents
<1>8. EventInv(m)
  <2> SUFFICES ASSUME NEW i \in DOMAIN rest, rest[i] \in Terminal
               PROVE  /\ i = Len(rest) /\ n.phase \in {"leaving", "ended"}
                      /\ rest[i] = TerminalEvent(n.result)
    BY <1>3 DEF EventInv, AlikeButEvents
  <2>1. i + 1 \in DOMAIN n.events /\ rest[i] = n.events[i + 1]
    BY <1>1
  <2>2. /\ i + 1 = Len(n.events) /\ n.phase \in {"leaving", "ended"}
        /\ n.events[i + 1] = TerminalEvent(n.result)
    BY <2>1 DEF TransferInv, EventInv
  <2> QED
    BY <1>1, <2>1, <2>2
<1>9. Running(n) /\ Head(n.events) \notin Terminal => Running(m)
  <2> SUFFICES ASSUME Running(n), Head(n.events) \notin Terminal PROVE Running(m)
    OBVIOUS
  <2>1. ASSUME n.phase \in {"leaving", "ended"}
        PROVE  rest # <<>> /\ rest[Len(rest)] \in Terminal
    <3>1. n.events[Len(n.events)] \in Terminal
      BY <2>1 DEF Running
    <3>2. Len(n.events) # 1
      BY <1>1, <3>1
    <3>3. Len(rest) \in DOMAIN rest /\ Len(rest) + 1 = Len(n.events)
      BY <1>1, <3>2
    <3> QED
      BY <1>1, <3>1, <3>2, <3>3
  <2> QED
    BY <1>3, <2>1 DEF Running, AlikeButEvents, SameFiles
<1> QED
  BY <1>3, <1>4, <1>5, <1>6, <1>7, <1>8, <1>9 DEF TransferInv, rest

\* An event that announces no stage leaves the stages as they are, one that does
\* leads to its own.
LEMMA StageTaken ==
    ASSUME NEW n \in Record, n.events # <<>>, NEW m, AlikeButEvents(n, m),
           m.events = Tail(n.events), NEW phase \in Active, StageInv(n, phase)
    PROVE  /\ Head(n.events) = "progress" => StageInv(m, phase)
           /\ Head(n.events) \in {"preparing", "transferring", "finalizing"} =>
                    StageInv(m, To(phase, StagePhase(Head(n.events))))
<1> DEFINE event == Head(n.events)
           rest == m.events
<1>1. /\ \A i \in DOMAIN rest : i \in Int /\ i >= 1
      /\ \A i \in DOMAIN rest : i + 1 \in DOMAIN n.events /\ rest[i] = n.events[i + 1]
      /\ event = n.events[1] /\ 1 \in DOMAIN n.events
      /\ \A i \in DOMAIN n.events : i = 1 \/ (i - 1 \in DOMAIN rest /\ rest[i - 1] = n.events[i])
  <2>1. /\ Len(n.events) \in Nat /\ DOMAIN rest = 1..(Len(n.events) - 1)
        /\ DOMAIN n.events = 1..Len(n.events)
        /\ \A i \in DOMAIN rest : i + 1 \in DOMAIN n.events /\ rest[i] = n.events[i + 1]
        /\ event = n.events[1] /\ 1 \in DOMAIN n.events
    BY RecordFields, TailFacts
  <2> HIDE DEF rest, event
  <2>2. ASSUME NEW i \in DOMAIN n.events, i # 1
        PROVE  i - 1 \in DOMAIN rest /\ rest[i - 1] = n.events[i]
    <3>1. i - 1 \in DOMAIN rest
      BY <2>1, <2>2
    <3>2. rest[i - 1] = n.events[(i - 1) + 1] /\ (i - 1) + 1 = i
      BY <2>1, <2>2, <3>1
    <3> QED
      BY <3>1, <3>2
  <2>3. \A i \in DOMAIN rest : i \in Int /\ i >= 1
    BY <2>1
  <2> QED
    BY <2>1, <2>2, <2>3
<1>2. m.phase = n.phase /\ (Copied(m) <=> Copied(n))
  BY DEF AlikeButEvents, Copied
<1>3. \A stage : Coming(n, stage) <=> (stage = event \/ Coming(m, stage))
  <2>1. ASSUME NEW i \in DOMAIN n.events, i # 1, ~Coming(m, n.events[i]) PROVE FALSE
    <3>1. i - 1 \in DOMAIN rest /\ rest[i - 1] = n.events[i]
      BY <1>1, <2>1
    <3> QED
      BY <2>1, <3>1 DEF Coming
  <2>2. ASSUME NEW i \in DOMAIN rest PROVE Coming(n, rest[i])
    <3>1. i + 1 \in DOMAIN n.events /\ rest[i] = n.events[i + 1]
      BY <1>1
    <3> QED
      BY <3>1 DEF Coming
  <2>3. Coming(n, event)
    BY <1>1 DEF Coming
  <2> HIDE DEF event
  <2>4. \A stage : Coming(n, stage) => (stage = event \/ Coming(m, stage))
    BY <1>1, <2>1 DEF Coming
  <2>5. \A stage : Coming(m, stage) => Coming(n, stage)
    BY <2>2 DEF Coming
  <2> QED
    BY <2>3, <2>4, <2>5
<1>4. InOrder(m)
  <2> SUFFICES ASSUME NEW i \in DOMAIN rest, NEW j \in DOMAIN rest, i < j
               PROVE  /\ rest[i] = "transferring" => rest[j] \notin {"preparing", "transferring"}
                      /\ rest[i] = "finalizing" =>
                            rest[j] \notin {"preparing", "transferring", "finalizing"}
    BY DEF InOrder
  <2>1. /\ i + 1 \in DOMAIN n.events /\ j + 1 \in DOMAIN n.events /\ i + 1 < j + 1
        /\ rest[i] = n.events[i + 1] /\ rest[j] = n.events[j + 1]
    BY <1>1
  <2> QED
    BY <2>1 DEF StageInv, InOrder
<1>5. /\ event = "transferring" => ~Coming(m, "preparing") /\ ~Coming(m, "transferring")
      /\ event = "finalizing" => ~Coming(m, "preparing") /\ ~Coming(m, "transferring")
                                 /\ ~Coming(m, "finalizing")
  <2>1. ASSUME NEW i \in DOMAIN rest
        PROVE  /\ event = "transferring" => rest[i] \notin {"preparing", "transferring"}
               /\ event = "finalizing" => rest[i] \notin {"preparing", "transferring", "finalizing"}
    <3>1. i + 1 \in DOMAIN n.events /\ 1 < i + 1 /\ rest[i] = n.events[i + 1]
      BY <1>1
    <3> QED
      BY <1>1, <3>1 DEF StageInv, InOrder
  <2> QED
    BY <2>1 DEF Coming
<1>6. \A i \in DOMAIN rest : (\A j \in DOMAIN n.events : n.events[j] = "preparing") =>
                                rest[i] = "preparing"
  BY <1>1
<1> HIDE DEF event, rest
<1>7. CASE event = "progress"
  BY <1>2, <1>3, <1>4, <1>6, <1>7
  DEF StageInv, LeadsToTransferring, LeadsToFinalizing, event, rest
<1>8. CASE event = "preparing"
  <2>1. phase = "PREPARING" /\ To(phase, StagePhase(event)) = "PREPARING"
    BY <1>3, <1>8 DEF StageInv, To, CanTransition, StagePhase, Active
  <2> QED
    BY <1>2, <1>3, <1>4, <1>6, <1>8, <2>1
    DEF StageInv, LeadsToTransferring, LeadsToFinalizing, event, rest
<1>9. CASE event = "transferring"
  <2>1. phase = "PREPARING" /\ To(phase, StagePhase(event)) = "TRANSFERRING"
    BY <1>3, <1>9 DEF StageInv, To, CanTransition, StagePhase, Active
  <2>2. n.phase \notin Opening
    BY <1>1, <1>9 DEF StageInv, Opening, event
  <2> QED
    BY <1>2, <1>3, <1>4, <1>5, <1>9, <2>1, <2>2
    DEF StageInv, LeadsToTransferring, LeadsToFinalizing, Opening, event
<1>10. CASE event = "finalizing"
  <2>1. ~Coming(n, "transferring")
    BY <1>3, <1>5, <1>10
  <2>2. phase = "TRANSFERRING" /\ To(phase, StagePhase(event)) = "FINALIZING"
    BY <1>3, <1>10, <2>1 DEF StageInv, LeadsToTransferring, To, CanTransition, StagePhase, Active
  <2>3. n.phase \notin Opening /\ n.phase \notin Copying
    BY <1>3, <1>10, <2>2 DEF StageInv, Opening, Copying
  <2> QED
    BY <1>2, <1>4, <1>5, <1>10, <2>2, <2>3
    DEF StageInv, LeadsToTransferring, LeadsToFinalizing, Opening, Copying, event
<1> QED
  BY <1>7, <1>8, <1>9, <1>10 DEF event
\* It is over, and its local file is gone: k has at most one name more, for a whole file.
WithNames(k, names) == [k EXCEPT !.names = names, !.localTemp = Absent]

LEMMA LocalFileGone ==
    ASSUME NEW k \in Record, TransferInv(k), k.events = <<>>, k.phase \in {"leaving", "ended"},
           NEW names \in [0..(MaxNames - 1) -> File],
           \A i \in DOMAIN k.names :
                \/ names[i] = k.names[i]
                \/ k.names[i].kind = "absent" /\ names[i] = Ours(Blocks),
           NEW m, m = WithNames(k, names)
    PROVE  /\ m \in Record /\ TransferInv(m) /\ Finished(m) /\ KeepsNames(k, m)
           /\ m.direction = k.direction /\ m.names = names /\ m.temp = k.temp
           /\ m.requests = k.requests /\ m.remote = k.remote
<1>1. Absent \in File /\ DOMAIN names = DOMAIN k.names
  BY Files, RecordFields
<1>2. m \in Record
  BY <1>1 DEF Record, WithNames
<1>3. /\ m.direction = k.direction /\ m.names = names /\ m.localTemp = Absent
      /\ m.phase = k.phase /\ m.result = k.result /\ m.reply = k.reply
      /\ m.requests = k.requests /\ m.temp = k.temp /\ m.remote = k.remote
      /\ m.copied = k.copied /\ m.abandoned = k.abandoned /\ m.events = <<>>
  BY DEF Record, WithNames
<1>4. QueueInv(m) /\ ResultInv(m)
  BY <1>3 DEF TransferInv, QueueInv, ResultInv
<1>5. PutInv(m)
  BY <1>3 DEF TransferInv, PutInv, Queued
<1>6. GetInv(m)
  BY <1>3 DEF TransferInv, GetInv
<1>7. NamesInv(m) /\ KeepsNames(k, m)
  <2>1. \A i \in DOMAIN names : names[i].kind = "ours" => names[i] = Ours(Blocks)
    BY <1>1 DEF TransferInv, NamesInv
  <2>2. NamesInv(m)
    BY <1>3, <2>1 DEF TransferInv, NamesInv
  <2>3. \A i \in DOMAIN k.names : k.names[i].kind = "other" => names[i] = k.names[i]
    OBVIOUS
  <2> QED
    BY <1>1, <1>3, <2>2, <2>3 DEF KeepsNames
<1>8. EventInv(m) /\ Finished(m)
  BY <1>3 DEF EventInv, Finished
<1> QED
  BY <1>2, <1>3, <1>4, <1>5, <1>6, <1>7, <1>8 DEF TransferInv

LEMMA CleanedFacts ==
    ASSUME NEW k \in Record, TransferInv(k), k.events = <<>>, k.phase \in {"leaving", "ended"},
           NoOurs(k), NEW outcome \in {"FAILED", "CANCELLED"}
    PROVE  /\ Cleaned(k) \in Record /\ TransferInv(Cleaned(k)) /\ Finished(Cleaned(k))
           /\ KeepsNames(k, Cleaned(k)) /\ Told(Cleaned(k), outcome)
<1> DEFINE names == k.names
<1>1. names \in [0..(MaxNames - 1) -> File]
  BY RecordFields
<1>2. Cleaned(k) = WithNames(k, names)
  BY DEF Cleaned, WithNames, Record
<1>3. \A i \in DOMAIN k.names :
                \/ names[i] = k.names[i]
                \/ k.names[i].kind = "absent" /\ names[i] = Ours(Blocks)
  OBVIOUS
<1> HIDE DEF names
<1>4. /\ Cleaned(k) \in Record /\ TransferInv(Cleaned(k)) /\ Finished(Cleaned(k))
      /\ KeepsNames(k, Cleaned(k)) /\ Cleaned(k).names = names
  BY <1>1, <1>2, <1>3, LocalFileGone, ZenonT(60)
<1>5. NoOurs(Cleaned(k))
  BY <1>4 DEF NoOurs, names
<1> QED
  BY <1>4, <1>5 DEF Told

\* What is left of k, m, is what the outcome says.
Ends(k, m, outcome) ==
    /\ m \in Record /\ TransferInv(m) /\ Finished(m) /\ KeepsNames(k, m) /\ Told(m, outcome)
    /\ outcome \in {"SUCCEEDED", "FAILED"}

\* The local file gets the name i, which is free.
LEMMA Committed ==
    ASSUME NEW k \in Record, TransferInv(k), k.events = <<>>, k.phase \in {"leaving", "ended"},
           k.direction = "get", k.requests = <<>>, k.localTemp = Ours(Blocks),
           NEW i \in DOMAIN k.names, k.names[i].kind = "absent",
           NEW m, m = WithNames(k, [k.names EXCEPT ![i] = k.localTemp])
    PROVE  Ends(k, m, "SUCCEEDED")
<1> DEFINE names == [k.names EXCEPT ![i] = k.localTemp]
<1>1. k.names \in [0..(MaxNames - 1) -> File] /\ k.localTemp \in File
  BY RecordFields
<1>2. /\ names \in [0..(MaxNames - 1) -> File] /\ names[i] = Ours(Blocks)
      /\ i \in DOMAIN names /\ \A j \in DOMAIN k.names : names[j] = k.names[j] \/ j = i
  BY <1>1
<1>3. m = WithNames(k, names)
  OBVIOUS
<1> HIDE DEF names
<1>4. \A j \in DOMAIN k.names :
                \/ names[j] = k.names[j]
                \/ k.names[j].kind = "absent" /\ names[j] = Ours(Blocks)
  BY <1>2
<1>5. /\ m \in Record /\ TransferInv(m) /\ Finished(m) /\ KeepsNames(k, m)
      /\ m.direction = k.direction /\ m.names = names /\ m.requests = k.requests
  <2>1. names \in [0..(MaxNames - 1) -> File]
    BY <1>2
  <2> QED
    BY <1>3, <1>4, <2>1, LocalFileGone, ZenonT(60)
<1>6. Arrived(m)
  <2>1. names[i].kind = "ours"
    BY <1>2 DEF Ours
  <2> QED
    BY <1>2, <1>5, <2>1 DEF Arrived, LocalNames
<1>7. m.temp = Absent
  BY <1>5 DEF TransferInv, GetInv
<1> QED
  BY <1>5, <1>6, <1>7 DEF Ends, Told

\* completeFileTransfer, of a transfer that says it is complete.
LEMMA CompletionFacts ==
    ASSUME NEW k \in Record, TransferInv(k), k.events = <<>>, k.phase \in {"leaving", "ended"},
           k.result = "ok", NoOurs(k), k.direction = "get" => k.localTemp = Ours(k.copied)
    PROVE  Ends(k, Completion(k)[1], Completion(k)[2])
<1> DEFINE c == Completion(k)
<1>1. k.direction \in {"put", "get"} /\ k.names \in [0..(MaxNames - 1) -> File]
  BY RecordFields
<1>2. k.phase \in Over /\ k.requests = <<>>
  BY DEF Over, TransferInv, QueueInv
<1>3. CASE k.direction = "put"
  <2>1. c = <<k, "SUCCEEDED">>
    BY <1>3 DEF Completion
  <2>2. c[1] = k /\ c[2] = "SUCCEEDED"
    BY <2>1
  <2>3. k.localTemp = Absent /\ k.temp = Absent /\ k.remote = Ours(Blocks)
    BY <1>2, <1>3 DEF TransferInv, PutInv
  <2>4. k.remote.kind = "ours"
    BY <2>3 DEF Ours
  <2>5. Finished(k) /\ Told(k, "SUCCEEDED")
    BY <1>2, <1>3, <2>3, <2>4 DEF Finished, Told, Arrived
  <2>6. KeepsNames(k, k)
    BY DEF KeepsNames
  <2>7. Ends(k, k, "SUCCEEDED")
    BY <2>5, <2>6 DEF Ends
  <2> QED
    BY <2>2, <2>7
<1>4. CASE k.direction = "get" /\ CommitNames(k) = {}
  <2>1. c = <<Cleaned(k), "FAILED">>
    BY <1>4 DEF Completion
  <2>2. c[1] = Cleaned(k) /\ c[2] = "FAILED"
    BY <2>1
  <2>3. /\ Cleaned(k) \in Record /\ TransferInv(Cleaned(k)) /\ Finished(Cleaned(k))
        /\ KeepsNames(k, Cleaned(k)) /\ Told(Cleaned(k), "FAILED")
    BY CleanedFacts
  <2>4. Ends(k, Cleaned(k), "FAILED")
    BY <2>3 DEF Ends
  <2> QED
    BY <2>2, <2>4
<1>5. CASE k.direction = "get" /\ CommitNames(k) # {}
  <2> DEFINE i == CHOOSE i \in CommitNames(k) : TRUE
             m == WithNames(k, [k.names EXCEPT ![i] = k.localTemp])
  <2>1. i \in CommitNames(k)
    BY <1>5
  <2>2. c = <<[k EXCEPT !.names[i] = k.localTemp, !.localTemp = Absent], "SUCCEEDED">>
    BY <1>5 DEF Completion
  <2> HIDE DEF i
  <2>3. c[1] = m /\ c[2] = "SUCCEEDED"
    BY <2>2 DEF Record, WithNames
  <2>4. i \in DOMAIN k.names /\ k.names[i].kind = "absent"
    <3>1. i \in 0..(MaxNames - 1) /\ k.names[i].kind = "absent"
      BY <2>1, Constants DEF CommitNames
    <3> QED
      BY <1>1, <3>1
  <2>5. k.localTemp = Ours(Blocks)
    <3>1. k.copied = Blocks
      BY <1>2, <1>5 DEF TransferInv, GetInv
    <3> QED
      BY <1>5, <3>1, Zenon
  <2>6. Ends(k, m, "SUCCEEDED")
    BY <1>2, <1>5, <2>4, <2>5, Committed, Zenon
  <2> QED
    BY <2>3, <2>6
<1> QED
  BY <1>1, <1>3, <1>4, <1>5

LEMMA OnlyOne ==
    \A i \in 1..1 : i = 1
  OBVIOUS

LEMMA TakeEventKeepsInv ==
    ASSUME IInv, NEW t \in Transfer, TakeEvent(t)
    PROVE  IInv' /\ NamesStep
<1> DEFINE n == native[t]
           event == Head(n.events)
           taken == [n EXCEPT !.events = Tail(@)]
           ended == IF event = "completed" THEN Completion(taken) ELSE Failing(taken, event)
<1>1. n.events # <<>> /\ native \in [Transfer -> Record]
  BY DEF TakeEvent, IInv
<1>2. pane.current = t /\ t # NoneYet
  <2>1. t # NoneYet
    BY PaneFields DEF IInv, PaneInv
  <2> QED
    BY <1>1, <2>1 DEF IInv, LinkInv, Finished
<1>3. /\ n \in Record /\ TransferInv(n) /\ NoOurs(n) /\ pane.phase \in Active
      /\ pane.mode # "IDLE" /\ pane.current = pane.begun /\ pane \in PaneRecord
      /\ ~pane.awaiting /\ Running(n)
  BY <1>1, <1>2, OfCurrent DEF Waiting
<1>4. /\ taken \in Record /\ AlikeButEvents(n, taken) /\ taken.events = Tail(n.events)
      /\ TransferInv(taken) /\ KeepsNames(n, taken) /\ NoOurs(taken)
      /\ event \notin Terminal => Running(taken)
  BY <1>1, <1>3, TakenFacts
<1>5. /\ n.events \in Seq(EventName) /\ event \in EventName /\ event = n.events[1]
      /\ 1 \in DOMAIN n.events /\ (Tail(n.events) = <<>> <=> Len(n.events) = 1)
      /\ DOMAIN n.events = 1..Len(n.events)
  BY <1>1, <1>3, RecordFields, TailFacts
<1>6. /\ event = "progress" => Become(t, taken) /\ pane' = pane
      /\ event \in Terminal => Become(t, ended[1]) /\ pane' = FinishTransfer(pane, ended[2])
      /\ event \notin {"progress"} \cup Terminal =>
            /\ Become(t, taken)
            /\ pane' = [pane EXCEPT !.phase = To(@, StagePhase(event)), !.mode = "TRANSFERRING"]
  BY <1>2 DEF TakeEvent, IsCurrent, Terminal
<1> HIDE DEF taken, ended
<1>7. ASSUME event \notin Terminal
      PROVE  IInv' /\ NamesStep
  <2> DEFINE phase == IF event = "progress" THEN pane.phase ELSE To(pane.phase, StagePhase(event))
  <2>1. event \in {"progress", "preparing", "transferring", "finalizing"}
    BY <1>5, <1>7 DEF EventName, Stage
  <2>2. Become(t, taken)
    BY <1>6, <1>7
  <2>3. phase \in Active
    BY <1>3, <2>1 DEF To, StagePhase, Active
  <2>4. pane' = pane \/ pane' = [pane EXCEPT !.phase = phase, !.mode = "TRANSFERRING"]
    BY <1>6, <1>7
  <2>5. pane' = pane => phase = pane.phase
    <3>1. CASE event = "progress"
      BY <3>1
    <3>2. CASE event # "progress"
      <4>1. pane' = [pane EXCEPT !.phase = phase, !.mode = "TRANSFERRING"]
        BY <1>6, <1>7, <3>2
      <4> HIDE DEF phase
      <4>2. pane'.phase = phase
        BY <1>3, <4>1 DEF PaneRecord
      <4> QED
        BY <4>2
    <3> QED
      BY <3>1, <3>2
  <2> HIDE DEF phase
  <2>6. /\ pane' \in PaneRecord /\ pane'.phase = phase /\ pane'.mode # "IDLE"
        /\ pane'.current = pane.current /\ pane'.begun = pane.begun
        /\ pane'.awaiting = pane.awaiting /\ pane'.told = pane.told
    <3>1. phase \in FileTransferPhase
      BY <2>3 DEF FileTransferPhase
    <3>2. CASE pane' = pane
      BY <1>3, <2>5, <3>2
    <3>3. CASE pane' = [pane EXCEPT !.phase = phase, !.mode = "TRANSFERRING"]
      BY <1>3, <3>1, <3>3 DEF PaneRecord, Mode
    <3> QED
      BY <2>4, <3>2, <3>3
  <2>7. PaneInv(pane')
    BY <1>2, <1>3, <2>3, <2>6 DEF PaneInv
  <2>8. LinkInv(t, taken, pane')
    <3>1. pane.told[t] = None
      BY <1>2 DEF IInv, LinkInv
    <3> QED
      BY <1>2, <1>3, <1>4, <1>7, <2>6, <3>1 DEF LinkInv
  <2>9. \A u \in Transfer \ {t} : LinkInv(u, native[u], pane')
    BY <1>2, <2>6 DEF IInv, LinkInv
  <2>10. NothingDropped(pane)'
    <3> SUFFICES ASSUME "dropped stage" \in Excluded
                 PROVE  phase # "IDLE" /\ StageInv(native'[t], phase)
      BY <1>2, <1>3, <2>6 DEF NothingDropped
    <3>1. StageInv(n, pane.phase)
      BY <1>2, <1>3 DEF IInv, NothingDropped
    <3>2. native'[t] = taken
      BY <1>1, <2>2, Changed
    <3>3. StageInv(taken, phase)
      BY <1>1, <1>3, <1>4, <2>1, <3>1, StageTaken DEF phase
    <3> QED
      BY <2>3, <3>2, <3>3 DEF Active
  <2> QED
    BY <1>4, <2>2, <2>7, <2>8, <2>9, <2>10, OneChanges
<1>8. ASSUME event \in Terminal
      PROVE  IInv' /\ NamesStep
  <2>1. /\ Len(n.events) = 1 /\ n.phase \in {"leaving", "ended"}
        /\ event = TerminalEvent(n.result)
    BY <1>3, <1>5, <1>8 DEF TransferInv, EventInv
  <2>2. /\ taken.events = <<>> /\ taken.phase = n.phase /\ taken.result = n.result
        /\ taken.direction = n.direction /\ taken.localTemp = n.localTemp
        /\ taken.copied = n.copied
    BY <1>4, <1>5, <2>1 DEF AlikeButEvents, SameFiles
  <2>3. event = "completed" <=> n.result = "ok"
    BY <2>1, TerminalEvents
  <2> DEFINE m == ended[1]
             outcome == ended[2]
  <2>4. /\ m \in Record /\ TransferInv(m) /\ Finished(m) /\ KeepsNames(taken, m)
        /\ Told(m, outcome) /\ outcome \in Ended
        /\ outcome = "SUCCEEDED" => n.result = "ok"
    <3>1. CASE event = "completed"
      <4>1. n.direction = "get" => n.localTemp = Ours(n.copied)
        BY <1>3, <2>3, <3>1 DEF Running
      <4>2. ended = Completion(taken)
        BY <3>1 DEF ended
      <4>3. taken.direction = "get" => taken.localTemp = Ours(taken.copied)
        BY <2>2, <4>1
      <4>4. /\ m \in Record /\ TransferInv(m) /\ Finished(m) /\ KeepsNames(taken, m)
            /\ Told(m, outcome) /\ outcome \in {"SUCCEEDED", "FAILED"}
        BY <1>4, <2>1, <2>2, <2>3, <3>1, <4>2, <4>3, CompletionFacts DEF Ends
      <4> QED
        BY <2>3, <3>1, <4>4 DEF Ended
    <3>2. CASE event # "completed"
      <4>1. ended = Failing(taken, event)
        BY <3>2 DEF ended
      <4>2. m = Cleaned(taken) /\ outcome \in {"FAILED", "CANCELLED"}
        BY <4>1 DEF Failing
      <4>3. /\ m \in Record /\ TransferInv(m) /\ Finished(m)
            /\ KeepsNames(taken, m) /\ Told(m, outcome)
        BY <1>4, <2>1, <2>2, <4>2, CleanedFacts
      <4> QED
        BY <4>2, <4>3 DEF Ended
    <3> QED
      BY <3>1, <3>2
  <2>5. Become(t, m) /\ pane' = FinishTransfer(pane, outcome)
    BY <1>6, <1>8
  <2> HIDE DEF m, outcome
  <2>6. KeepsNames(n, m)
    BY <1>4, <2>4 DEF KeepsNames
  <2>7. "dropped stage" \in Excluded =>
                outcome \in {"FAILED", "CANCELLED"} \/ pane.phase = "FINALIZING"
    <3> SUFFICES ASSUME "dropped stage" \in Excluded, outcome = "SUCCEEDED"
                 PROVE  pane.phase = "FINALIZING"
      BY <2>4 DEF Ended
    <3>1. StageInv(n, pane.phase)
      BY <1>2, <1>3 DEF IInv, NothingDropped
    <3>2. Copied(n)
      BY <2>1, <2>4 DEF Copied, Over
    <3>3. ~Coming(n, "finalizing")
      <4>1. \A i \in DOMAIN n.events : i = 1
        <5>1. DOMAIN n.events = 1..1
          BY <1>5, <2>1, Zenon
        <5> QED
          BY <5>1, OnlyOne, Zenon
      <4>2. n.events[1] # "finalizing"
        BY <1>5, <1>8 DEF Terminal
      <4> QED
        BY <4>1, <4>2 DEF Coming
    <3> QED
      BY <3>1, <3>2, <3>3 DEF StageInv, LeadsToFinalizing
  <2> QED
    BY <1>2, <2>4, <2>5, <2>6, <2>7, FinishTransferKeepsInv
<1> QED
  BY <1>7, <1>8
-----------------------------------------------------------------------------
(* The invariant, and what follows from it.                                 *)

LEMMA InitInv ==
    ASSUME Init
    PROVE  IInv
<1> DEFINE o == NoTransfer("put")
<1>1. /\ o \in Record /\ o.phase = "none" /\ o.result = None /\ o.copied = 0
      /\ o.temp = Absent /\ o.requests = <<>> /\ o.reply = None /\ o.localTemp = Absent
      /\ o.events = <<>> /\ o.remote.kind # "ours" /\ NoOurs(o)
  BY NoTransferFacts, Files DEF NoTransfer, NoOurs
<1>2. \A t \in Transfer : native[t] = o
  BY DEF Init
<1>3. native \in [Transfer -> Record]
  BY <1>1 DEF Init
<1> HIDE DEF o
<1>4. TransferInv(o) /\ Finished(o)
  BY <1>1, AtRestInv
<1>5. /\ pane \in PaneRecord /\ pane.phase = "IDLE" /\ pane.mode = "IDLE"
      /\ pane.current = NoneYet /\ pane.awaiting = FALSE
      /\ \A t \in Transfer : pane.told[t] = None
  BY DEF Init, PaneRecord, FileTransferPhase, Mode
<1>6. Told(o, None)
  BY NoneFacts DEF Told, Ended
<1>7. \A t \in Transfer : LinkInv(t, o, pane)
  <2>1. \A t \in Transfer : t # NoneYet
    BY <1>5, PaneFields
  <2> QED
    BY <1>4, <1>5, <1>6, <2>1 DEF LinkInv
<1>8. PaneInv(pane) /\ NothingDropped(pane)
  BY <1>5 DEF PaneInv, NothingDropped
<1> QED
  BY <1>2, <1>3, <1>4, <1>7, <1>8 DEF IInv

LEMMA NextInv ==
    ASSUME IInv, [Next]_vars
    PROVE  IInv' /\ (pane'.begun = pane.begun => NamesStep)
<1>1. CASE UNCHANGED vars
  <2>1. native' = native /\ pane' = pane
    BY <1>1 DEF vars
  <2>2. PaneKept(pane, pane')
    BY <2>1 DEF PaneKept, IInv, PaneInv
  <2> QED
    BY <2>1, <2>2, BesideKeepsInv DEF Beside
<1>2. CASE Begin
  BY <1>2, BeginKeepsInv
<1>3. CASE PreparationEnds
  BY <1>3, PreparationEndsKeepsInv
<1>4. ASSUME NEW t \in Transfer, TakeEvent(t) PROVE IInv' /\ NamesStep
  BY <1>4, TakeEventKeepsInv
<1>5. ASSUME NEW t \in Transfer, TakeControl(t) PROVE IInv' /\ NamesStep
  BY <1>5, TakeControlKeepsInv
<1>6. ASSUME NEW t \in Transfer, Native(t) \/ Around(t) PROVE IInv' /\ NamesStep
  BY <1>6, NativeKeepsInv
<1>7. CASE AnswerPrompt
  BY <1>7, AnswerPromptKeepsInv
<1>8. CASE HostKeyNotRetained
  BY <1>8, HostKeyNotRetainedKeepsInv
<1>9. CASE CancelTransfer
  BY <1>9, CancelTransferKeepsInv
<1>10. CASE Close
  BY <1>10, CloseKeepsInv
<1> QED
  BY <1>1, <1>2, <1>3, <1>4, <1>5, <1>6, <1>7, <1>8, <1>9, <1>10 DEF Next

\* The inductive invariant: the queue of each transfer, the files of uploads and of
\* downloads, what a transfer still has to say to the pane, and the pane itself.
THEOREM IInvHolds == Spec => []IInv
<1>1. Init => IInv
  BY InitInv
<1>2. IInv /\ [Next]_vars => IInv'
  BY NextInv
<1> QED
  BY <1>1, <1>2, PTL DEF Spec

\* The records of the transfers and of the pane only hold values of their types, whatever
\* answers, requests given up, events and dropped stages come together.
THEOREM TypeCorrect == Spec => []TypeOK
<1>1. IInv => TypeOK
  BY DEF IInv, PaneInv, TypeOK
<1> QED
  BY <1>1, IInvHolds, PTL

\* No upload and no download, however it ends, replaces, removes or writes to a file that
\* has its final name, and each file of a transfer that gets one is whole (rename of
\* transfer.rs, moveFileSync of TransferFileManager.ets).
THEOREM FinalNames == Spec => FinalNamesSafe
<1>1. Blocks \in 0..(Blocks + 1) /\ Ours(Blocks).blocks = Blocks
  BY Files DEF Ours
<1>2. ASSUME IInv, [Next]_vars, pane'.begun = pane.begun, NEW t \in Transfer
      PROVE  /\ native[t].remote.kind \in {"other", "directory"} =>
                    native'[t].remote = native[t].remote
             /\ \A i \in DOMAIN native[t].names :
                    native[t].names[i].kind = "other" => native'[t].names[i] = native[t].names[i]
             /\ \A file \in {native'[t].remote} \cup LocalNames(native'[t]) :
                    file.kind = "ours" => file.blocks = Blocks
  <2>1. KeepsNames(native[t], native'[t]) /\ NamesInv(native'[t])
    BY <1>2, NextInv DEF NamesStep, IInv, TransferInv
  <2>2. \A file \in {native'[t].remote} \cup LocalNames(native'[t]) :
                    file.kind = "ours" => file = Ours(Blocks)
    BY <2>1 DEF NamesInv, LocalNames
  <2> QED
    BY <1>1, <2>1, <2>2 DEF KeepsNames
<1> DEFINE A ==
        pane'.begun = pane.begun => \A t \in Transfer :
          /\ native[t].remote.kind \in {"other", "directory"} => native'[t].remote = native[t].remote
          /\ \A i \in DOMAIN native[t].names :
                native[t].names[i].kind = "other" => native'[t].names[i] = native[t].names[i]
          /\ \A file \in {native'[t].remote} \cup LocalNames(native'[t]) :
                file.kind = "ours" => file.blocks = Blocks
<1>3. IInv /\ [Next]_vars => [A]_vars
  BY <1>2
<1> QED
  BY <1>3, IInvHolds, PTL DEF Spec, FinalNamesSafe

\* finishFileTransferState reports success only when the whole file has its name and no
\* request that could undo it is on its way, and the failure of a download only when
\* nothing of it is left in Downloads.
THEOREM Truth == Spec => []ToldTheTruth
<1>1. ASSUME IInv PROVE ToldTheTruth
  <2> SUFFICES ASSUME NEW t \in Transfer
               PROVE  LET n == native[t] IN
                      /\ pane.told[t] = "SUCCEEDED" => Arrived(n) /\ n.temp.kind = "absent"
                      /\ (pane.told[t] \in {"FAILED", "CANCELLED"} /\ n.direction = "get") =>
                            ~Arrived(n) /\ n.localTemp.kind = "absent"
    BY DEF ToldTheTruth
  <2> DEFINE n == native[t]
  <2>1. LinkInv(t, n, pane) /\ Absent.kind = "absent"
    BY <1>1, Files DEF IInv
  <2>2. CASE pane.current = t
    BY <2>1, <2>2, NoneFacts DEF LinkInv, Ended
  <2>3. CASE pane.current # t
    <3>1. Finished(n) /\ Told(n, pane.told[t])
      BY <2>1, <2>3 DEF LinkInv
    <3>2. n.direction = "get" /\ NoOurs(n) => ~Arrived(n)
      BY DEF Arrived, LocalNames, NoOurs
    <3> QED
      BY <2>1, <3>1, <3>2 DEF Finished, Told
  <2> QED
    BY <2>2, <2>3
<1> QED
  BY <1>1, IInvHolds, PTL

\* Once a transfer is over and its requests have been handled, its temporary files are
\* gone, but for an upload's whose removal is reported to have failed or that lost its
\* connection or gave up the request that creates the file (execute of transfer.rs).
THEOREM TempGone == Spec => []TemporaryFilesGone
<1>1. ASSUME IInv PROVE TemporaryFilesGone
  <2> SUFFICES ASSUME NEW t \in Transfer, AtRest(t)
               PROVE  /\ native[t].localTemp.kind = "absent"
                      /\ \/ native[t].temp.kind = "absent" \/ native[t].result = "REMOTE_CLEANUP"
                         \/ native[t].abandoned
    BY DEF TemporaryFilesGone
  <2> DEFINE n == native[t]
  <2>1. n \in Record /\ TransferInv(n) /\ LinkInv(t, n, pane) /\ Absent.kind = "absent"
    BY <1>1, Files DEF IInv
  <2>2. n.localTemp = Absent
    BY <2>1 DEF LinkInv, Finished, AtRest
  <2>3. n.phase \in Early \cup Over /\ n.direction \in {"put", "get"}
    BY <2>1, RecordFields DEF AtRest, Early, Over
  <2>4. n.temp = Absent \/ n.result = "REMOTE_CLEANUP" \/ n.abandoned
    BY <2>1, <2>3 DEF TransferInv, PutInv, GetInv
  <2> QED
    BY <2>1, <2>2, <2>4
<1> QED
  BY <1>1, IInvHolds, PTL

\* When no stage event is dropped, the pane's mode and the lifecycle of its transfer are
\* idle together.  With one dropped the lifecycle stays where it is: the run
\* transfer_dropped_stage shows that.
THEOREM Freed ==
    ASSUME "dropped stage" \in Excluded
    PROVE  Spec => []PaneFreed
<1>1. IInv => PaneFreed
  BY DEF IInv, PaneInv, NothingDropped, PaneFreed
<1> QED
  BY <1>1, IInvHolds, PTL
=============================================================================
