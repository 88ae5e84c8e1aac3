------------------------------- MODULE Stream -------------------------------
(***************************************************************************)
(* The progress of one job on its way to a page: set_status saves a status *)
(* and publishes it, the gateway's WebSocket route forwards what Redis     *)
(* delivers to its subscription, and the page's useJobProgress hook shows  *)
(* a snapshot, the frames, and polls once the socket is gone.              *)
(*                                                                         *)
(* A status is its position in the job's life: 0 before the first one,     *)
(* Last the terminal one.                                                  *)
(***************************************************************************)
EXTENDS Integers, Sequences

CONSTANTS Last,        \* statuses a job goes through
          Requests,    \* GET requests of the page that may be under way, Snapshot among them
          Snapshot,
          MaxRepeats,  \* set_status attempts that are repeated
          MaxFaults    \* connections and requests that are lost

ASSUME LastAssumption == Last \in Nat \ {0}

VARIABLES row, published, repeats,           \* worker
          exists,                            \* the tenant has this job
          conn, watcher, queue, sendFailed,  \* gateway: one WebSocket handler
          wire,                              \* frames on their way to the page
          sock, shown, polling, mounted,     \* page
          gets,                              \* GET requests under way and what they read
          faults,
          late, snap, overtaken              \* history, see Settles

worker == <<row, published, repeats, exists>>
gateway == <<conn, watcher, queue, sendFailed>>
page == <<sock, shown, polling, mounted>>
vars == <<worker, gateway, wire, page, gets, faults, late, snap, overtaken>>

Idle == [at |-> "idle", read |-> 0]
Sent == [at |-> "sent", read |-> 0]

Init ==
    /\ row = 0 /\ published = 0 /\ repeats = 0
    /\ exists \in BOOLEAN
    /\ conn = "none" /\ watcher = "off" /\ queue = <<>> /\ sendFailed = FALSE
    /\ wire = <<>>
    /\ sock = "opening" /\ shown = 0 /\ polling = FALSE /\ mounted = TRUE
    /\ gets = [q \in Requests |-> IF q = Snapshot THEN Sent ELSE Idle]
    /\ faults = 0 /\ late = FALSE /\ snap = 0 /\ overtaken = FALSE

---------------------------------------------------------------------------
(* Worker: set_status saves, then publishes; Redis keeps nothing for a     *)
(* subscriber that is not there.                                           *)

Deliver(frame) == queue' = IF conn = "live" THEN Append(queue, frame) ELSE queue

SaveStatus ==
    /\ exists /\ row < Last /\ published = row
    /\ row' = row + 1
    /\ UNCHANGED <<published, repeats, exists, gateway, wire, page, gets, faults, late, snap, overtaken>>

Publish ==
    /\ published < row
    /\ published' = row
    /\ Deliver(row)
    /\ UNCHANGED <<row, repeats, exists, conn, watcher, sendFailed, wire, page, gets, faults, late, snap, overtaken>>

\* An attempt of set_status the server gave up on is carried out again.
Republish ==
    /\ published = row /\ row > 0 /\ repeats < MaxRepeats
    /\ repeats' = repeats + 1
    /\ Deliver(row)
    /\ UNCHANGED <<row, published, exists, conn, watcher, sendFailed, wire, page, gets, faults, late, snap, overtaken>>

---------------------------------------------------------------------------
(* Gateway: job_progress_stream.                                           *)

Gone == sock \in {"closing", "closed"}

Accept ==
    /\ conn = "none" /\ sock = "opening"
    /\ conn' = "accepted" /\ sock' = "open"
    /\ UNCHANGED <<worker, watcher, queue, sendFailed, wire, shown, polling, mounted, gets, faults, late, snap, overtaken>>

\* get_job of the caller's tenant; without one the socket is closed.
CheckJob ==
    /\ conn = "accepted"
    /\ conn' = IF exists THEN "checked" ELSE "closed"
    /\ sock' = IF exists \/ Gone THEN sock ELSE "closing"
    /\ UNCHANGED <<worker, watcher, queue, sendFailed, wire, shown, polling, mounted, gets, faults, late, snap, overtaken>>

\* From here on messages arrive.  A terminal status published before is never
\* sent again; the page knows it only from a snapshot read after it was saved.
Subscribe ==
    /\ conn = "checked"
    /\ conn' = "live" /\ watcher' = "running"
    /\ late' = (published = Last)
    /\ UNCHANGED <<worker, queue, sendFailed, wire, page, gets, faults, snap, overtaken>>

\* Mutant: without the watcher the disconnect is never received.
NoWatcher == FALSE /\ UNCHANGED vars

\* The watcher receives the disconnect; its next receive raises and ends it.
ReceiveDisconnect ==
    /\ watcher = "running" /\ Gone
    /\ watcher' = "done"
    /\ UNCHANGED <<worker, conn, queue, sendFailed, wire, page, gets, faults, late, snap, overtaken>>

\* One turn of the loop: get_message, send_text.  A frame sent to a page that
\* is gone may still be accepted; it goes nowhere.
Forward ==
    /\ conn = "live" /\ queue # <<>>
    /\ queue' = Tail(queue)
    /\ wire' = IF Gone THEN wire ELSE Append(wire, Head(queue))
    /\ conn' = IF watcher = "done" THEN "closed" ELSE conn
    /\ UNCHANGED <<worker, watcher, sendFailed, page, gets, faults, late, snap, overtaken>>

\* send_text raises WebSocketDisconnect.  If the watcher is still pending it is
\* cancelled, and awaiting it raises CancelledError, which suppress(Exception)
\* lets through: unsubscribe and close are skipped.
SendFails ==
    /\ conn = "live" /\ queue # <<>> /\ Gone
    /\ conn' = IF watcher = "done" THEN "closed" ELSE "leaked"
    /\ sendFailed' = (watcher # "done")
    /\ watcher' = "done" /\ queue' = <<>>
    /\ UNCHANGED <<worker, wire, page, gets, faults, late, snap, overtaken>>

\* The loop sees that the watcher is done; finally: unsubscribe, close.
LoopEnds ==
    /\ conn = "live" /\ watcher = "done"
    /\ conn' = "closed" /\ queue' = <<>>
    /\ UNCHANGED <<worker, watcher, sendFailed, wire, page, gets, faults, late, snap, overtaken>>

---------------------------------------------------------------------------
(* Page: useJobProgress.                                                   *)

\* The handshake fails (a browser cannot send the Authorization header), or the
\* connection is lost.
ConnectionLost ==
    /\ sock \in {"opening", "open"} /\ faults < MaxFaults
    /\ sock' = "closing" /\ wire' = <<>>
    /\ faults' = faults + 1
    /\ UNCHANGED <<worker, gateway, shown, polling, mounted, gets, late, snap, overtaken>>

\* onmessage; a terminal frame closes the socket.
OnMessage ==
    /\ sock = "open" /\ wire # <<>>
    /\ shown' = IF mounted THEN Head(wire) ELSE shown
    /\ sock' = IF Head(wire) = Last THEN "closing" ELSE sock
    /\ wire' = IF Head(wire) = Last THEN <<>> ELSE Tail(wire)
    /\ UNCHANGED <<worker, gateway, polling, mounted, gets, faults, late, snap, overtaken>>

\* Mutant: the page does not fall back to polling.
OnCloseIgnored ==
    /\ sock = "closing"
    /\ sock' = "closed" /\ wire' = <<>>
    /\ UNCHANGED <<worker, gateway, shown, polling, mounted, gets, faults, late, snap, overtaken>>

\* onerror and onclose start to poll, unless the page has been left.
OnClose ==
    /\ sock = "closing"
    /\ sock' = "closed" /\ wire' = <<>>
    /\ polling' = mounted
    /\ UNCHANGED <<worker, gateway, shown, mounted, gets, faults, late, snap, overtaken>>

\* The timer does not wait for the last request to be answered.
Poll ==
    /\ polling
    /\ \E q \in Requests \ {Snapshot} :
           gets[q] = Idle /\ gets' = [gets EXCEPT ![q] = Sent]
    /\ UNCHANGED <<worker, gateway, wire, page, faults, late, snap, overtaken>>

\* The gateway answers with the row as it is,
GetJob(q) ==
    /\ gets[q].at = "sent"
    /\ gets' = [gets EXCEPT ![q] = [at |-> IF exists THEN "answered" ELSE "failed", read |-> row]]
    /\ snap' = IF q = Snapshot THEN row ELSE snap
    /\ UNCHANGED <<worker, gateway, wire, page, faults, late, overtaken>>

\* Mutant: polling stops with the first answer, whatever it says.
ApplyJobOnce(q) ==
    /\ gets[q].at = "answered"
    /\ gets' = [gets EXCEPT ![q] = Idle]
    /\ shown' = IF mounted THEN gets[q].read ELSE shown
    /\ polling' = (polling /\ q = Snapshot)
    /\ UNCHANGED <<worker, gateway, wire, sock, mounted, faults, late, snap, overtaken>>

\* and the answer is applied when it arrives, in whatever order; one that is
\* older than what it replaces is never corrected once polling has stopped.
ApplyJob(q) ==
    /\ gets[q].at = "answered"
    /\ gets' = [gets EXCEPT ![q] = Idle]
    /\ shown' = IF mounted THEN gets[q].read ELSE shown
    /\ polling' = (polling /\ (q = Snapshot \/ gets[q].read # Last))
    /\ overtaken' = (overtaken \/ (shown = Last /\ gets[q].read < Last /\ sock = "closed" /\ ~polling))
    /\ UNCHANGED <<worker, gateway, wire, sock, mounted, faults, late, snap>>

\* A failed request is ignored.
GetFails(q) ==
    /\ \/ gets[q].at = "failed" /\ UNCHANGED faults
       \/ gets[q].at = "sent" /\ faults < MaxFaults /\ faults' = faults + 1
    /\ gets' = [gets EXCEPT ![q] = Idle]
    /\ UNCHANGED <<worker, gateway, wire, page, late, snap, overtaken>>

\* The effect's cleanup.
Leave ==
    /\ mounted
    /\ mounted' = FALSE /\ polling' = FALSE
    /\ sock' = IF sock = "closed" THEN sock ELSE "closing"
    /\ UNCHANGED <<worker, gateway, wire, shown, gets, faults, late, snap, overtaken>>

---------------------------------------------------------------------------

Loop == Forward \/ SendFails \/ LoopEnds
Answer(q) == GetJob(q) \/ ApplyJob(q) \/ GetFails(q)

Next ==
    \/ SaveStatus \/ Publish \/ Republish
    \/ Accept \/ CheckJob \/ Subscribe \/ ReceiveDisconnect \/ Loop
    \/ ConnectionLost \/ OnMessage \/ OnClose \/ Poll \/ Leave
    \/ \E q \in Requests : Answer(q)

\* The job runs to its end, the gateway's event loop and the page's make
\* progress, and requests are answered; losses and leaving need not happen.
Spec ==
    /\ Init /\ [][Next]_vars
    /\ WF_vars(SaveStatus) /\ WF_vars(Publish)
    /\ WF_vars(Accept) /\ WF_vars(CheckJob) /\ WF_vars(Subscribe)
    /\ WF_vars(ReceiveDisconnect) /\ WF_vars(Loop)
    /\ WF_vars(OnMessage) /\ WF_vars(OnClose) /\ WF_vars(Poll)
    /\ \A q \in Requests : WF_vars(Answer(q))

---------------------------------------------------------------------------
(* Properties.                                                             *)

\* A page that stays open ends up showing the job's terminal status for good,
\* whatever connection is lost, with exactly two exceptions: it subscribed after
\* the terminal status was published while its snapshot had been read before it
\* was saved, so that the open socket stays silent; or an answer read before the
\* end arrived after polling had shown the end and stopped.
Settles ==
    <>[](~exists \/ ~mounted \/ shown = Last \/ (late /\ snap < Last) \/ overtaken)

\* Nothing is on its way: the end has been saved and published, every frame and
\* answer has arrived, and the page neither polls nor opens or closes a socket.
Quiet ==
    /\ published = Last
    /\ conn \notin {"accepted", "checked"} /\ wire = <<>>
    /\ conn = "live" => queue = <<>>
    /\ sock \in {"open", "closed"} /\ ~polling
    /\ \A q \in Requests : gets[q] = Idle

\* What Settles rests on: no step loses the end of the job.  Once nothing is on
\* its way that could still bring it, an open page shows it, with the same
\* exceptions.
QuietIsSettled ==
    mounted /\ Quiet => shown = Last \/ (late /\ snap < Last) \/ overtaken

\* Once the page is gone its handler ends and its subscription is released,
\* even if no message ever comes to wake the loop; only a send that fails
\* before the disconnect is received leaves the subscription behind.
SubscriptionReleased == (conn = "live" /\ Gone) ~> (conn = "closed" \/ sendFailed)
=============================================================================
