--------------------------- MODULE Stream_proofs ----------------------------
(***************************************************************************)
(* Proofs about the progress stream, for every number of statuses, repeats *)
(* and losses and every set of requests.  The end of the job is followed   *)
(* from set_status to the page: it is in the subscription's queue, on the  *)
(* wire, in an answer under way, or shown, and where the socket cannot     *)
(* bring it any more the page polls.                                       *)
(***************************************************************************)
EXTENDS Stream, SequenceTheorems, TLAPS

\* The handler has not subscribed yet.
Early == conn \in {"none", "accepted", "checked"}

Frames(s) == {s[i] : i \in 1..Len(s)}

Answers == [at : {"idle", "sent", "answered", "failed"}, read : 0..Last]

TypeOK ==
  /\ row \in 0..Last /\ published \in 0..Last /\ exists \in BOOLEAN
  /\ conn \in {"none", "accepted", "checked", "live", "closed", "leaked"}
  /\ watcher \in {"off", "running", "done"}
  /\ queue \in Seq(0..Last) /\ wire \in Seq(0..Last)
  /\ sock \in {"opening", "open", "closing", "closed"}
  /\ shown \in 0..Last /\ snap \in 0..Last
  /\ polling \in BOOLEAN /\ mounted \in BOOLEAN
  /\ gets \in [Requests -> Answers]

\* What the channel, the page and the answers say was saved before, and
\* nothing is saved for a job the tenant does not have.
Behind ==
  /\ published <= row /\ shown <= row /\ snap <= row
  /\ ~exists => row = 0
  /\ \A f \in Frames(queue) \cup Frames(wire) : f <= published
  /\ \A q \in Requests : gets[q].read <= row

\* Before the subscription there is nothing to forward; and the handler ends,
\* as its watcher does, only once the socket is on its way out.
Handled ==
  /\ Early => watcher = "off" /\ queue = <<>> /\ wire = <<>> /\ ~late
  /\ sock = "opening" => conn = "none"
  /\ conn = "none" => sock # "open"
  /\ conn \in {"closed", "leaked"} \/ watcher = "done" => Gone

\* A page subscribed in time has the last frame coming as long as its socket is
\* open; one subscribed too late sees no other frame.
Coming ==
  /\ late => published = Last /\ Frames(queue) \cup Frames(wire) \subseteq {Last}
  /\ published = Last /\ conn = "live" /\ ~late /\ sock = "open" =>
       Last \in Frames(queue) \cup Frames(wire)

\* The page polls only after the socket closed, and stops only at the end.
Polled ==
  /\ polling => sock = "closed"
  /\ \A q \in Requests \ {Snapshot} : gets[q].at # "idle" => sock = "closed"
  /\ sock = "closed" /\ mounted /\ ~polling => shown = Last \/ overtaken

SnapshotComes == Snapshot \in Requests /\ gets[Snapshot].at = "answered"

\* A snapshot of the end is shown or about to be, unless a frame may still
\* replace it.
Seeded ==
  /\ SnapshotComes => gets[Snapshot].read = snap
  /\ snap = Last /\ mounted /\ sock \in {"opening", "open"} /\ (late \/ Early) =>
       shown = Last \/ SnapshotComes

StreamInv == TypeOK /\ Behind /\ Handled /\ Coming /\ Polled /\ Seeded

\* What the handler, the page and the requests may do.
HandlerStep == Accept \/ CheckJob \/ Subscribe \/ ReceiveDisconnect \/ Loop
PageStep == ConnectionLost \/ OnMessage \/ OnClose \/ Poll \/ Leave

-----------------------------------------------------------------------------
(* Frames.                                                                 *)

\* What a queue holds grows and shrinks by one frame.
LEMMA NoFrames == Frames(<<>>) = {}
  BY DEF Frames

LEMMA FramesTyped ==
  ASSUME NEW S, NEW s \in Seq(S)
  PROVE  Frames(s) \subseteq S
<1>1. \A i \in 1..Len(s) : s[i] \in S
  OBVIOUS
<1> QED
  BY <1>1 DEF Frames

LEMMA FrameAdded ==
  ASSUME NEW S, NEW s \in Seq(S), NEW f \in S
  PROVE  Append(s, f) \in Seq(S) /\ Frames(Append(s, f)) = Frames(s) \cup {f}
<1>1. /\ Append(s, f) \in Seq(S) /\ Len(s) \in Nat /\ Len(Append(s, f)) = Len(s) + 1
      /\ \A i \in 1..Len(s) : Append(s, f)[i] = s[i]
      /\ Append(s, f)[Len(s) + 1] = f
  OBVIOUS
<1> DEFINE t == Append(s, f)
<1> HIDE DEF t
<1>2. 1..Len(t) = 1..Len(s) \cup {Len(s) + 1}
  BY <1>1 DEF t
<1>3. Frames(t) = Frames(s) \cup {f}
  BY <1>1, <1>2 DEF t, Frames
<1> QED
  BY <1>1, <1>3 DEF t

LEMMA FrameTaken ==
  ASSUME NEW S, NEW s \in Seq(S), s # <<>>
  PROVE  /\ Head(s) \in S /\ Tail(s) \in Seq(S)
         /\ Frames(s) = {Head(s)} \cup Frames(Tail(s))
<1>1. /\ Len(s) \in Nat \ {0} /\ Head(s) = s[1] /\ Tail(s) \in Seq(S)
      /\ Len(Tail(s)) = Len(s) - 1 /\ \A i \in 1..Len(s) : s[i] \in S
      /\ \A i \in 1..(Len(s) - 1) : Tail(s)[i] = s[i + 1]
  OBVIOUS
<1> DEFINE t == Tail(s)
           n == Len(s)
<1>2. /\ n \in Nat \ {0} /\ Head(s) = s[1] /\ Len(t) = n - 1
      /\ \A i \in 1..(n - 1) : t[i] = s[i + 1]
  BY <1>1
<1> HIDE DEF t, n
<1>3. \A i \in 1..n : i = 1 \/ (i - 1 \in 1..(n - 1) /\ s[i] = t[i - 1])
  BY <1>2
<1>4. \A i \in 1..(n - 1) : i + 1 \in 1..n /\ t[i] = s[i + 1]
  BY <1>2
<1>5. {s[i] : i \in 1..n} \subseteq {Head(s)} \cup {t[i] : i \in 1..(n - 1)}
  <2>1. ASSUME NEW i \in 1..n PROVE s[i] = Head(s) \/ \E j \in 1..(n - 1) : s[i] = t[j]
    BY <1>2, <1>3
  <2> QED
    BY <2>1
<1>6. {t[i] : i \in 1..(n - 1)} \subseteq {s[i] : i \in 1..n}
  BY <1>4
<1>7. 1 \in 1..n /\ Head(s) = s[1]
  BY <1>2
<1>8. {s[i] : i \in 1..n} = {Head(s)} \cup {t[i] : i \in 1..(n - 1)}
  BY <1>5, <1>6, <1>7
<1> QED
  BY <1>1, <1>2, <1>8 DEF Frames, t, n

\* The same for the statuses of a job.
LEMMA StatusAdded ==
  ASSUME NEW s \in Seq(0..Last), NEW f \in 0..Last
  PROVE  Append(s, f) \in Seq(0..Last) /\ Frames(Append(s, f)) = Frames(s) \cup {f}
<1> DEFINE S == 0..Last
<1>1. s \in Seq(S) /\ f \in S
  OBVIOUS
<1> HIDE DEF S
<1>2. Append(s, f) \in Seq(S) /\ Frames(Append(s, f)) = Frames(s) \cup {f}
  BY <1>1, FrameAdded
<1> QED
  BY <1>2 DEF S

\* What set_status publishes reaches the queue of a live subscription.
LEMMA Delivered ==
  ASSUME TypeOK, NEW f \in 0..Last, Deliver(f)
  PROVE  /\ queue' \in Seq(0..Last)
         /\ conn = "live" => Frames(queue') = Frames(queue) \cup {f}
         /\ conn # "live" => queue' = queue
<1>1. queue \in Seq(0..Last)
  BY DEF TypeOK
<1>2. /\ Append(queue, f) \in Seq(0..Last)
      /\ Frames(Append(queue, f)) = Frames(queue) \cup {f}
  BY <1>1, StatusAdded, Zenon
<1> DEFINE longer == Append(queue, f)
<1>3. queue' = IF conn = "live" THEN longer ELSE queue
  BY DEF Deliver
<1> HIDE DEF longer
<1> QED
  BY <1>1, <1>2, <1>3 DEF longer

-----------------------------------------------------------------------------
(* The initial state.                                                      *)

\* The invariant holds before the first step,
LEMMA StreamInit == Init => StreamInv
<1> SUFFICES ASSUME Init PROVE StreamInv
  OBVIOUS
<1>1. TypeOK
  <2>1. 0 \in 0..Last /\ <<>> \in Seq(0..Last)
    BY LastAssumption
  <2>2. Idle \in Answers /\ Sent \in Answers
    BY <2>1 DEF Idle, Sent, Answers
  <2>3. gets \in [Requests -> Answers]
    BY <2>2 DEF Init
  <2> QED
    BY <2>1, <2>3 DEF Init, TypeOK
<1>2. Behind /\ Handled /\ Coming
  BY NoFrames, LastAssumption DEF Init, Behind, Handled, Coming, Early, Idle, Sent, Gone
<1>3. Polled /\ Seeded
  BY LastAssumption DEF Init, Polled, Seeded, SnapshotComes, Idle, Sent
<1> QED
  BY <1>1, <1>2, <1>3 DEF StreamInv

-----------------------------------------------------------------------------
(* Types.                                                                  *)

\* every variable keeps its type under the steps of set_status,
LEMMA WorkerTyped ==
  ASSUME TypeOK, SaveStatus \/ Publish \/ Republish
  PROVE  TypeOK'
<1>1. CASE SaveStatus
  BY <1>1, LastAssumption DEF SaveStatus, TypeOK, gateway, page
<1>2. CASE Publish \/ Republish
  <2>1. queue' \in Seq(0..Last)
    BY <1>2, Delivered DEF Publish, Republish, TypeOK
  <2> QED
    BY <1>2, <2>1 DEF Publish, Republish, TypeOK, page
<1> QED
  BY <1>1, <1>2

\* of the handler's two tasks,
LEMMA HandlerTyped ==
  ASSUME TypeOK, HandlerStep
  PROVE  TypeOK'
<1>1. CASE Accept
  BY <1>1 DEF Accept, TypeOK, worker
<1>2. CASE CheckJob
  BY <1>2 DEF CheckJob, TypeOK, worker
<1>3. CASE Subscribe
  BY <1>3 DEF Subscribe, TypeOK, worker, page
<1>4. CASE ReceiveDisconnect
  BY <1>4 DEF ReceiveDisconnect, TypeOK, worker, page
<1>5. CASE Forward
  <2>1. queue' \in Seq(0..Last) /\ wire' \in Seq(0..Last)
    BY <1>5, FrameTaken, FrameAdded DEF Forward, TypeOK
  <2> QED
    BY <1>5, <2>1 DEF Forward, TypeOK, worker, page
<1>6. CASE SendFails
  BY <1>6 DEF SendFails, TypeOK, worker, page
<1>7. CASE LoopEnds
  BY <1>7 DEF LoopEnds, TypeOK, worker, page
<1> QED
  BY <1>1, <1>2, <1>3, <1>4, <1>5, <1>6, <1>7 DEF HandlerStep, Loop

\* of the page,
LEMMA PageTyped ==
  ASSUME TypeOK, PageStep
  PROVE  TypeOK'
<1>1. CASE ConnectionLost
  BY <1>1 DEF ConnectionLost, TypeOK, worker, gateway
<1>2. CASE OnMessage
  <2>1. Tail(wire) \in Seq(0..Last) /\ Head(wire) \in 0..Last
    BY <1>2, FrameTaken DEF OnMessage, TypeOK
  <2>2. <<>> \in Seq(0..Last)
    OBVIOUS
  <2>3. wire' \in Seq(0..Last)
    BY <1>2, <2>1, <2>2 DEF OnMessage
  <2> QED
    BY <1>2, <2>1, <2>3 DEF OnMessage, TypeOK, worker, gateway
<1>3. CASE OnClose
  BY <1>3 DEF OnClose, TypeOK, worker, gateway
<1>4. CASE Poll
  BY <1>4, LastAssumption DEF Poll, TypeOK, worker, gateway, page, Sent, Answers
<1>5. CASE Leave
  BY <1>5 DEF Leave, TypeOK, worker, gateway
<1> QED
  BY <1>1, <1>2, <1>3, <1>4, <1>5 DEF PageStep

\* and of a request under way;
LEMMA AnswerTyped ==
  ASSUME TypeOK, NEW q \in Requests, Answer(q)
  PROVE  TypeOK'
<1>1. gets[q] \in Answers
  BY DEF TypeOK
<1>2. CASE GetJob(q)
  BY <1>2 DEF GetJob, TypeOK, worker, gateway, page, Answers
<1>3. CASE ApplyJob(q)
  BY <1>1, <1>3, LastAssumption DEF ApplyJob, TypeOK, worker, gateway, Idle, Answers
<1>4. CASE GetFails(q)
  BY <1>4, LastAssumption DEF GetFails, TypeOK, worker, gateway, page, Idle, Answers
<1> QED
  BY <1>2, <1>3, <1>4 DEF Answer

-----------------------------------------------------------------------------
(* The worker's steps.                                                     *)

\* and no step of set_status loses the end of the job:
LEMMA WorkerKeeps ==
  ASSUME StreamInv, SaveStatus \/ Publish \/ Republish
  PROVE  Behind' /\ Handled' /\ Coming' /\ Polled' /\ Seeded'
<1> USE DEF StreamInv
<1>1. CASE SaveStatus
  <2>1. /\ row' = row + 1 /\ row < Last /\ exists /\ published = row
        /\ UNCHANGED <<published, exists, gateway, wire, page, gets, late, snap, overtaken>>
    BY <1>1 DEF SaveStatus
  <2>2. row \in Nat /\ shown \in Nat /\ snap \in Nat /\ \A q \in Requests : gets[q].read \in Nat
    BY DEF TypeOK, Answers
  <2>3. Behind'
    BY <2>1, <2>2 DEF Behind, gateway, page
  <2>4. Handled' /\ Coming'
    BY <2>1 DEF Handled, Coming, Early, Gone, gateway, page
  <2>5. Polled' /\ Seeded'
    BY <2>1 DEF Polled, Seeded, SnapshotComes, Early, gateway, page
  <2> QED
    BY <2>3, <2>4, <2>5
<1>2. CASE Publish \/ Republish
  <2>1. /\ published' = row /\ Deliver(row)
        /\ UNCHANGED <<row, exists, conn, watcher, wire, page, gets, late, snap, overtaken>>
        /\ published < row \/ published = row
    BY <1>2 DEF Publish, Republish
  <2>2. row \in 0..Last /\ published \in 0..Last /\ Last \in Nat
    BY LastAssumption DEF TypeOK
  <2>3. /\ conn = "live" => Frames(queue') = Frames(queue) \cup {row}
        /\ conn # "live" => queue' = queue
    BY <2>1, <2>2, Delivered
  <2>4. \A f \in Frames(queue) \cup Frames(wire) : f <= published /\ f \in 0..Last
    BY FramesTyped DEF Behind, TypeOK
  <2>5. Behind'
    BY <2>1, <2>2, <2>3, <2>4 DEF Behind, page
  <2>6. Handled'
    BY <2>1, <2>3 DEF Handled, Early, Gone, page
  <2>7. Coming'
    <3>1. late => row = Last
      BY <2>1, <2>2 DEF Coming, Behind
    <3> QED
      BY <2>1, <2>3, <3>1 DEF Coming, Handled, Early, page
  <2>8. Polled' /\ Seeded'
    BY <2>1 DEF Polled, Seeded, SnapshotComes, Early, page
  <2> QED
    BY <2>5, <2>6, <2>7, <2>8
<1> QED
  BY <1>1, <1>2

-----------------------------------------------------------------------------
(* The handler's steps.                                                    *)


\* the handler passes it on in order, or ends because the page is gone;
LEMMA HandlerKeeps ==
  ASSUME StreamInv, HandlerStep
  PROVE  Behind' /\ Handled' /\ Coming' /\ Polled' /\ Seeded'
<1> USE DEF StreamInv
<1>1. CASE Accept
  <2>1. /\ conn = "none" /\ conn' = "accepted" /\ sock = "opening" /\ sock' = "open"
        /\ UNCHANGED <<row, published, exists, watcher, queue, wire, shown, polling, mounted>>
        /\ UNCHANGED <<gets, late, snap, overtaken>>
    BY <1>1 DEF Accept, worker
  <2>2. Behind' /\ Handled' /\ Coming'
    BY <2>1 DEF Behind, Handled, Coming, Early, Gone
  <2>3. Polled' /\ Seeded'
    BY <2>1 DEF Polled, Seeded, SnapshotComes, Early
  <2> QED
    BY <2>2, <2>3
<1>2. CASE CheckJob
  <2>1. /\ conn = "accepted" /\ conn' = IF exists THEN "checked" ELSE "closed"
        /\ sock' = IF exists \/ Gone THEN sock ELSE "closing"
        /\ UNCHANGED <<row, published, exists, watcher, queue, wire, shown, polling, mounted>>
        /\ UNCHANGED <<gets, late, snap, overtaken>>
    BY <1>2 DEF CheckJob, worker
  <2>2. Behind' /\ Handled' /\ Coming'
    BY <2>1 DEF Behind, Handled, Coming, Early, Gone
  <2>3. Polled' /\ Seeded'
    BY <2>1 DEF Polled, Seeded, SnapshotComes, Early, Gone
  <2> QED
    BY <2>2, <2>3
<1>3. CASE Subscribe
  <2>1. /\ conn = "checked" /\ conn' = "live" /\ watcher' = "running" /\ late' = (published = Last)
        /\ UNCHANGED <<row, published, exists, queue, wire, sock, shown, polling, mounted>>
        /\ UNCHANGED <<gets, snap, overtaken>>
    BY <1>3 DEF Subscribe, worker, page
  <2>2. queue = <<>> /\ wire = <<>>
    BY <2>1 DEF Handled, Early
  <2>3. Behind' /\ Handled' /\ Coming'
    BY <2>1, <2>2, NoFrames DEF Behind, Handled, Coming, Early, Gone
  <2>4. Polled' /\ Seeded'
    BY <2>1 DEF Polled, Seeded, SnapshotComes, Early
  <2> QED
    BY <2>3, <2>4
<1>4. CASE ReceiveDisconnect
  <2>1. /\ watcher = "running" /\ watcher' = "done" /\ Gone
        /\ UNCHANGED <<row, published, exists, conn, queue, wire, sock, shown, polling, mounted>>
        /\ UNCHANGED <<gets, late, snap, overtaken>>
    BY <1>4 DEF ReceiveDisconnect, worker, page
  <2>2. Behind' /\ Handled' /\ Coming'
    BY <2>1 DEF Behind, Handled, Coming, Early, Gone
  <2>3. Polled' /\ Seeded'
    BY <2>1 DEF Polled, Seeded, SnapshotComes, Early
  <2> QED
    BY <2>2, <2>3
<1>5. CASE Forward
  <2>1. /\ conn = "live" /\ queue # <<>> /\ queue' = Tail(queue)
        /\ wire' = IF Gone THEN wire ELSE Append(wire, Head(queue))
        /\ conn' = IF watcher = "done" THEN "closed" ELSE conn
        /\ UNCHANGED <<row, published, exists, watcher, sock, shown, polling, mounted>>
        /\ UNCHANGED <<gets, late, snap, overtaken>>
    BY <1>5 DEF Forward, worker, page
  <2> DEFINE f == Head(queue)
  <2>2. f \in 0..Last /\ Frames(queue) = {f} \cup Frames(queue')
    BY <2>1, FrameTaken DEF TypeOK
  <2>3. Frames(wire') = IF Gone THEN Frames(wire) ELSE Frames(wire) \cup {f}
    <3>1. wire \in Seq(0..Last)
      BY DEF TypeOK
    <3> HIDE DEF f
    <3>2. Frames(Append(wire, f)) = Frames(wire) \cup {f}
      BY <2>2, <3>1, StatusAdded, Zenon
    <3> QED
      BY <2>1, <3>2 DEF f
  <2> HIDE DEF f
  <2>4. Behind'
    BY <2>1, <2>2, <2>3 DEF Behind
  <2>5. Handled'
    BY <2>1 DEF Handled, Early, Gone
  <2>6. Coming'
    BY <2>1, <2>2, <2>3 DEF Coming, Gone
  <2>7. Polled' /\ Seeded'
    BY <2>1 DEF Polled, Seeded, SnapshotComes, Early
  <2> QED
    BY <2>4, <2>5, <2>6, <2>7
<1>6. CASE SendFails \/ LoopEnds
  <2>1. /\ conn = "live" /\ conn' \in {"closed", "leaked"} /\ Gone /\ queue' = <<>>
        /\ UNCHANGED <<row, published, exists, wire, sock, shown, polling, mounted>>
        /\ UNCHANGED <<gets, late, snap, overtaken>>
    BY <1>6 DEF SendFails, LoopEnds, worker, page, Handled
  <2>2. Behind' /\ Handled' /\ Coming'
    BY <2>1, NoFrames DEF Behind, Handled, Coming, Early, Gone
  <2>3. Polled' /\ Seeded'
    BY <2>1 DEF Polled, Seeded, SnapshotComes, Early
  <2> QED
    BY <2>2, <2>3
<1> QED
  BY <1>1, <1>2, <1>3, <1>4, <1>5, <1>6 DEF HandlerStep, Loop

-----------------------------------------------------------------------------
(* The page's steps.                                                       *)

\* the page shows it, or polls once its socket has closed;
LEMMA PageKeeps ==
  ASSUME StreamInv, PageStep
  PROVE  Behind' /\ Handled' /\ Coming' /\ Polled' /\ Seeded'
<1> USE DEF StreamInv
<1>1. CASE ConnectionLost
  <2>1. /\ sock \in {"opening", "open"} /\ sock' = "closing" /\ wire' = <<>>
        /\ UNCHANGED <<row, published, exists, conn, watcher, queue, shown, polling, mounted>>
        /\ UNCHANGED <<gets, late, snap, overtaken>>
    BY <1>1 DEF ConnectionLost, worker, gateway
  <2>2. Behind' /\ Handled' /\ Coming'
    BY <2>1, NoFrames DEF Behind, Handled, Coming, Early, Gone
  <2>3. Polled' /\ Seeded'
    BY <2>1 DEF Polled, Seeded, SnapshotComes, Early
  <2> QED
    BY <2>2, <2>3
<1>2. CASE OnMessage
  <2> DEFINE f == Head(wire)
  <2>1. /\ sock = "open" /\ wire # <<>>
        /\ shown' = IF mounted THEN f ELSE shown
        /\ sock' = IF f = Last THEN "closing" ELSE sock
        /\ wire' = IF f = Last THEN <<>> ELSE Tail(wire)
        /\ UNCHANGED <<row, published, exists, conn, watcher, queue, polling, mounted>>
        /\ UNCHANGED <<gets, late, snap, overtaken>>
    BY <1>2 DEF OnMessage, worker, gateway
  <2>2. f \in 0..Last /\ Frames(wire) = {f} \cup Frames(Tail(wire))
    BY <2>1, FrameTaken DEF TypeOK
  <2> HIDE DEF f
  <2>3. Frames(wire') \subseteq Frames(wire) /\ (f # Last => Frames(wire) = {f} \cup Frames(wire'))
    BY <2>1, <2>2, NoFrames
  <2>4. Behind'
    <3>1. f <= published /\ published <= row
      BY <2>2 DEF Behind
    <3>2. f <= row
      BY <2>2, <3>1 DEF TypeOK
    <3> QED
      BY <2>1, <2>3, <3>2 DEF Behind
  <2>5. Handled'
    BY <2>1 DEF Handled, Early, Gone
  <2>6. Coming'
    BY <2>1, <2>2, <2>3 DEF Coming
  <2>7. Polled'
    BY <2>1 DEF Polled
  <2>8. Seeded'
    <3>1. sock' = "open" => ~late /\ ~Early
      BY <2>1, <2>2 DEF Coming, Handled
    <3>2. sock' # "opening"
      BY <2>1
    <3> QED
      BY <2>1, <3>1, <3>2 DEF Seeded, SnapshotComes, Early
  <2> QED
    BY <2>4, <2>5, <2>6, <2>7, <2>8
<1>3. CASE OnClose
  <2>1. /\ sock = "closing" /\ sock' = "closed" /\ wire' = <<>> /\ polling' = mounted
        /\ UNCHANGED <<row, published, exists, conn, watcher, queue, shown, mounted>>
        /\ UNCHANGED <<gets, late, snap, overtaken>>
    BY <1>3 DEF OnClose, worker, gateway
  <2>2. Behind' /\ Handled' /\ Coming'
    BY <2>1, NoFrames DEF Behind, Handled, Coming, Early, Gone
  <2>3. Polled' /\ Seeded'
    BY <2>1 DEF Polled, Seeded, SnapshotComes, Early
  <2> QED
    BY <2>2, <2>3
<1>4. CASE Poll
  <2>1. PICK q \in Requests \ {Snapshot} : gets' = [gets EXCEPT ![q] = Sent]
    BY <1>4 DEF Poll
  <2>2. /\ polling
        /\ UNCHANGED <<row, published, exists, conn, watcher, queue, wire, sock, shown, polling>>
        /\ UNCHANGED <<mounted, late, snap, overtaken>>
    BY <1>4 DEF Poll, worker, gateway, page
  <2>3. /\ \A r \in Requests : gets'[r] = gets[r] \/ gets'[r].read = 0
        /\ Snapshot \in Requests => gets'[Snapshot] = gets[Snapshot]
    BY <2>1 DEF TypeOK, Sent
  <2>4. Behind'
    BY <2>2, <2>3 DEF Behind, TypeOK
  <2>5. Handled' /\ Coming'
    BY <2>2 DEF Handled, Coming, Early, Gone
  <2>6. Polled' /\ Seeded'
    BY <2>2, <2>3 DEF Polled, Seeded, SnapshotComes, Early
  <2> QED
    BY <2>4, <2>5, <2>6
<1>5. CASE Leave
  <2>1. /\ mounted' = FALSE /\ polling' = FALSE
        /\ sock' = IF sock = "closed" THEN sock ELSE "closing"
        /\ UNCHANGED <<row, published, exists, conn, watcher, queue, wire, shown>>
        /\ UNCHANGED <<gets, late, snap, overtaken>>
    BY <1>5 DEF Leave, worker, gateway
  <2>2. Behind' /\ Handled' /\ Coming'
    BY <2>1 DEF Behind, Handled, Coming, Early, Gone
  <2>3. Polled' /\ Seeded'
    BY <2>1 DEF Polled, Seeded, SnapshotComes, Early
  <2> QED
    BY <2>2, <2>3
<1> QED
  BY <1>1, <1>2, <1>3, <1>4, <1>5 DEF PageStep

-----------------------------------------------------------------------------
(* The requests' steps.                                                    *)

\* an answer carries what was saved, and only one of the end stops the polling.
LEMMA AnswerKeeps ==
  ASSUME StreamInv, NEW q \in Requests, Answer(q)
  PROVE  Behind' /\ Handled' /\ Coming' /\ Polled' /\ Seeded'
<1> USE DEF StreamInv
<1>1. UNCHANGED <<row, published, exists, conn, watcher, queue, wire, sock, mounted, late>>
  BY DEF Answer, GetJob, ApplyJob, GetFails, worker, gateway, page
<1>2. Handled' /\ Coming'
  BY <1>1 DEF Handled, Coming, Early, Gone
<1>3. CASE GetJob(q)
  <2> DEFINE state == IF exists THEN "answered" ELSE "failed"
  <2>1. /\ gets[q].at = "sent" /\ gets' = [gets EXCEPT ![q] = [at |-> state, read |-> row]]
        /\ snap' = IF q = Snapshot THEN row ELSE snap
        /\ UNCHANGED <<shown, polling, overtaken>>
    BY <1>3 DEF GetJob, page
  <2> HIDE DEF state
  <2>2. /\ gets'[q].at = state /\ gets'[q].read = row
        /\ \A r \in Requests \ {q} : gets'[r] = gets[r]
    BY <2>1 DEF TypeOK
  <2>3. Behind'
    BY <1>1, <2>1, <2>2 DEF Behind, TypeOK
  <2>4. Polled'
    BY <1>1, <2>1, <2>2 DEF Polled
  <2>5. Seeded'
    <3>1. CASE q # Snapshot
      BY <1>1, <2>1, <2>2, <3>1 DEF Seeded, SnapshotComes, Early
    <3>2. CASE q = Snapshot
      <4>1. row = Last => state = "answered"
        BY LastAssumption DEF Behind, state
      <4> QED
        BY <1>1, <2>1, <2>2, <3>2, <4>1 DEF Seeded, SnapshotComes, Early
    <3> QED
      BY <3>1, <3>2
  <2> QED
    BY <1>2, <2>3, <2>4, <2>5
<1>4. CASE ApplyJob(q)
  <2> DEFINE n == gets[q].read
  <2>1. /\ gets[q].at = "answered" /\ gets' = [gets EXCEPT ![q] = Idle]
        /\ shown' = IF mounted THEN n ELSE shown
        /\ polling' = (polling /\ (q = Snapshot \/ n # Last))
        /\ overtaken' = (overtaken \/ (shown = Last /\ n < Last /\ sock = "closed" /\ ~polling))
        /\ UNCHANGED snap
    BY <1>4 DEF ApplyJob
  <2>2. /\ gets'[q].at = "idle" /\ gets'[q].read = 0
        /\ \A r \in Requests \ {q} : gets'[r] = gets[r]
    BY <2>1 DEF TypeOK, Idle
  <2>3. n \in 0..Last /\ n <= row
    BY DEF TypeOK, Answers, Behind
  <2>4. q = Snapshot => n = snap
    BY <2>1 DEF Seeded, SnapshotComes
  <2>5. q # Snapshot => sock = "closed"
    BY <2>1 DEF Polled
  <2> HIDE DEF n
  <2>6. Behind'
    BY <1>1, <2>1, <2>2, <2>3 DEF Behind, TypeOK
  <2>7. Polled'
    <3>1. n = Last \/ n < Last
      BY <2>3, LastAssumption
    <3> QED
      BY <1>1, <2>1, <2>2, <3>1 DEF Polled
  <2>8. Seeded'
    BY <1>1, <2>1, <2>2, <2>4, <2>5 DEF Seeded, SnapshotComes, Early
  <2> QED
    BY <1>2, <2>6, <2>7, <2>8
<1>5. CASE GetFails(q)
  <2>1. /\ gets[q].at \in {"failed", "sent"} /\ gets' = [gets EXCEPT ![q] = Idle]
        /\ UNCHANGED <<shown, polling, snap, overtaken>>
    BY <1>5 DEF GetFails, page
  <2>2. /\ gets'[q].at = "idle" /\ gets'[q].read = 0
        /\ \A r \in Requests \ {q} : gets'[r] = gets[r]
    BY <2>1 DEF TypeOK, Idle
  <2>3. Behind'
    BY <1>1, <2>1, <2>2 DEF Behind, TypeOK
  <2>4. Polled' /\ Seeded'
    BY <1>1, <2>1, <2>2 DEF Polled, Seeded, SnapshotComes, Early
  <2> QED
    BY <1>2, <2>3, <2>4
<1> QED
  BY <1>3, <1>4, <1>5 DEF Answer

-----------------------------------------------------------------------------
(* The invariant and what follows from it.                                 *)

\* Every step keeps the invariant.
LEMMA StreamNext == StreamInv /\ [Next]_vars => StreamInv'
<1> SUFFICES ASSUME StreamInv, [Next]_vars PROVE StreamInv'
  OBVIOUS
<1>1. CASE SaveStatus \/ Publish \/ Republish
  BY <1>1, WorkerTyped, WorkerKeeps DEF StreamInv
<1>2. CASE HandlerStep
  BY <1>2, HandlerTyped, HandlerKeeps DEF StreamInv
<1>3. CASE PageStep
  BY <1>3, PageTyped, PageKeeps DEF StreamInv
<1>4. ASSUME NEW q \in Requests, Answer(q) PROVE StreamInv'
  BY <1>4, AnswerTyped, AnswerKeeps DEF StreamInv
<1>5. CASE UNCHANGED vars
  <2>1. TypeOK' /\ Behind'
    BY <1>5 DEF StreamInv, vars, worker, gateway, page, TypeOK, Behind
  <2>2. Handled' /\ Coming'
    BY <1>5 DEF StreamInv, vars, worker, gateway, page, Handled, Coming, Early, Gone
  <2>3. Polled' /\ Seeded'
    BY <1>5 DEF StreamInv, vars, worker, gateway, page, Polled, Seeded, SnapshotComes, Early
  <2> QED
    BY <2>1, <2>2, <2>3 DEF StreamInv
<1> QED
  BY <1>1, <1>2, <1>3, <1>4, <1>5 DEF Next, HandlerStep, PageStep

\* The invariant holds in every reachable state.
THEOREM InvHolds == Spec => []StreamInv
  BY StreamInit, StreamNext, PTL DEF Spec

\* The end of a job is never lost between set_status and the page: once nothing
\* is on its way, an open page shows it, but for the two exceptions of Settles.
THEOREM EndIsNotLost == Spec => []QuietIsSettled
<1>1. StreamInv => QuietIsSettled
  <2> SUFFICES ASSUME StreamInv, mounted, Quiet
               PROVE  shown = Last \/ (late /\ snap < Last) \/ overtaken
    BY DEF QuietIsSettled
  <2> USE DEF StreamInv, Quiet
  <2>1. CASE sock = "closed"
    BY <2>1 DEF Polled
  <2>2. CASE sock = "open"
    <3>1. conn = "live" /\ queue = <<>> /\ wire = <<>>
      BY <2>2 DEF TypeOK, Handled, Gone
    <3>2. late
      BY <2>2, <3>1, NoFrames DEF Coming
    <3>3. snap < Last \/ snap = Last
      BY LastAssumption DEF TypeOK
    <3>4. ~SnapshotComes
      BY DEF SnapshotComes, Idle
    <3> QED
      BY <2>2, <3>2, <3>3, <3>4 DEF Seeded
  <2> QED
    BY <2>1, <2>2
<1> QED
  BY <1>1, InvHolds, PTL
=============================================================================
