-------------------------- MODULE DesktopRequests --------------------------
(***************************************************************************)
(* DesktopRequestRunner and the part of TkinterDesktopWindow that drives   *)
(* it: one event thread that starts, cancels, polls and closes, and one    *)
(* daemon thread per request that runs its action and leaves a completion. *)
(*                                                                         *)
(* Each section the runner takes its lock around is a step.  Between two   *)
(* sections of one call the event thread is `ringing`: it has a thread to  *)
(* start, or a cancellation callback to invoke, and the worker goes on.    *)
(*                                                                         *)
(* Bound: MaxRequests, the requests made in one session.                   *)
(***************************************************************************)
EXTENDS Naturals, Sequences

CONSTANT MaxRequests

ASSUME MaxRequestsAssumption == MaxRequests \in Nat \ {0}

Requests == 1..MaxRequests
None == 0

VARIABLES
    running, stopped, cancelRequested,  \* the runner's flags
    callback,       \* _cancel_callback: the request whose signal it cancels
    keeps,          \* _preserve_cancelled_result
    completions,    \* the runner's deque
    worker,         \* how far the thread of each request is
    event,          \* what the event thread is in the middle of
    closing, busy,  \* the window: _closing, and its request controls disabled
    handler,        \* the request whose completion handler is registered
    signalled,      \* requests whose cancellation signal was set
    shown,          \* what the window presented for each request
    cancelled       \* history: how far each request was when its cancellation was acknowledged

runner == <<running, stopped, cancelRequested, callback, keeps, completions>>
window == <<closing, busy, handler, shown>>
vars == <<running, stopped, cancelRequested, callback, keeps, completions, worker, event,
          closing, busy, handler, signalled, shown, cancelled>>

\* A completion names the request it is of.
Form == {"value", "error", "cancelled", "cancelledValue"}
Completion == [of: Requests, form: Form]

WorkerState == {"unmade", "reserved", "acting", "returned", "raised", "done", "unstartable"}
Event == [doing: {"loop", "launch", "ring"}, request: Requests \cup {None}]
Idle == [doing |-> "loop", request |-> None]

TypeOK ==
    /\ running \in BOOLEAN /\ stopped \in BOOLEAN /\ cancelRequested \in BOOLEAN
    /\ callback \in Requests \cup {None}
    /\ keeps \in BOOLEAN
    /\ completions \in Seq(Completion)
    /\ worker \in [Requests -> WorkerState]
    /\ event \in Event
    /\ closing \in BOOLEAN /\ busy \in BOOLEAN
    /\ handler \in Requests \cup {None}
    /\ signalled \subseteq Requests
    /\ shown \in [Requests -> {"nothing"} \cup Form]
    /\ cancelled \in [Requests -> {"no", "running", "unseen"}]

Init ==
    /\ running = FALSE /\ stopped = FALSE /\ cancelRequested = FALSE
    /\ callback = None /\ keeps = FALSE
    /\ completions = <<>>
    /\ worker = [r \in Requests |-> "unmade"]
    /\ event = Idle
    /\ closing = FALSE /\ busy = FALSE
    /\ handler = None
    /\ signalled = {}
    /\ shown = [r \in Requests |-> "nothing"]
    /\ cancelled = [r \in Requests |-> "no"]

-----------------------------------------------------------------------------
\* Variants: a start that looks at the thread only, or at the results only.
FreeOfThread == ~stopped /\ ~running
FreeOfResults == ~stopped /\ completions = <<>>

\* start: reserve the runner.  A request made while another is running, or has
\* not been presented, is turned away and leaves no trace.
Free == ~stopped /\ ~running /\ completions = <<>>

Reserve(r) ==
    /\ event = Idle /\ ~closing
    /\ worker[r] = "unmade"
    /\ \A q \in Requests : q < r => worker[q] # "unmade"
    /\ Free
    /\ running' = TRUE
    /\ cancelRequested' = FALSE
    /\ \E cancellable, preserve \in BOOLEAN :
          callback' = (IF cancellable THEN r ELSE None) /\ keeps' = preserve
    /\ worker' = [worker EXCEPT ![r] = "reserved"]
    /\ event' = [doing |-> "launch", request |-> r]
    /\ UNCHANGED <<stopped, completions, signalled, cancelled, window>>

\* The thread starts, and the window registers the handler and disables its
\* controls; or it does not start, and the reservation is given back.
Launch ==
    LET r == event.request IN
    /\ event.doing = "launch"
    /\ worker' = [worker EXCEPT ![r] = "acting"]
    /\ event' = Idle
    /\ handler' = r
    /\ busy' = TRUE
    /\ UNCHANGED <<runner, closing, signalled, shown, cancelled>>

\* Variant: a thread that did not start keeps the reservation.
LaunchFailsReserved ==
    /\ event.doing = "launch"
    /\ worker' = [worker EXCEPT ![event.request] = "unstartable"]
    /\ event' = Idle
    /\ callback' = None
    /\ UNCHANGED <<running, stopped, cancelRequested, keeps, completions, signalled, cancelled, window>>

LaunchFails ==
    /\ event.doing = "launch"
    /\ worker' = [worker EXCEPT ![event.request] = "unstartable"]
    /\ event' = Idle
    /\ running' = FALSE
    /\ callback' = None
    /\ UNCHANGED <<stopped, cancelRequested, keeps, completions, signalled, cancelled, window>>

-----------------------------------------------------------------------------
\* _run: the action returns or raises, then its completion is left under the
\* lock, in its cancelled form if cancellation is requested by then.
Act(r) ==
    /\ worker[r] = "acting"
    /\ \E how \in {"returned", "raised"} : worker' = [worker EXCEPT ![r] = how]
    /\ UNCHANGED <<runner, event, signalled, cancelled, window>>

\* Variant: an action that raised shows its error even when it was cancelled.
LeftErrorFirst(r) ==
    [of |-> r, form |-> IF worker[r] = "raised" THEN "error"
                        ELSE IF ~cancelRequested THEN "value"
                        ELSE IF keeps THEN "cancelledValue" ELSE "cancelled"]

Left(r) ==
    [of |-> r, form |-> IF ~cancelRequested
                        THEN (IF worker[r] = "raised" THEN "error" ELSE "value")
                        ELSE IF keeps /\ worker[r] = "returned" THEN "cancelledValue"
                        ELSE "cancelled"]

Deliver(r) ==
    /\ worker[r] \in {"returned", "raised"}
    /\ worker' = [worker EXCEPT ![r] = "done"]
    /\ running' = FALSE
    /\ callback' = None
    /\ completions' = IF stopped THEN completions ELSE Append(completions, Left(r))
    /\ UNCHANGED <<stopped, cancelRequested, keeps, event, signalled, cancelled, window>>

-----------------------------------------------------------------------------
\* The Cancel button is enabled with the busy controls, until it is pressed.
CancelEnabled == event = Idle /\ ~closing /\ busy /\ cancelled[handler] = "no"

\* request_cancel, by that button: of the request that is running, or of a
\* completion nobody has seen yet.
CancelRunning ==
    /\ CancelEnabled
    /\ ~stopped /\ running /\ ~cancelRequested
    /\ cancelRequested' = TRUE
    /\ event' = IF callback = None THEN Idle ELSE [doing |-> "ring", request |-> callback]
    /\ cancelled' = [cancelled EXCEPT ![handler] = "running"]
    /\ UNCHANGED <<running, stopped, callback, keeps, completions, worker, signalled, window>>

\* Variant: an unseen result that is taken away.
CancelUnseenTakesAway ==
    /\ CancelEnabled
    /\ ~stopped /\ ~running /\ ~cancelRequested
    /\ completions # <<>>
    /\ cancelRequested' = TRUE
    /\ completions' = <<>>
    /\ cancelled' = [cancelled EXCEPT ![completions[1].of] = "unseen"]
    /\ UNCHANGED <<running, stopped, callback, keeps, worker, event, signalled, window>>

CancelUnseen ==
    LET first == completions[1] IN
    /\ CancelEnabled
    /\ ~stopped /\ ~running /\ ~cancelRequested
    /\ completions # <<>>
    /\ cancelRequested' = TRUE
    /\ completions' = <<[first EXCEPT !.form = IF keeps /\ @ = "value" THEN "cancelledValue"
                                               ELSE "cancelled"]>>
    /\ cancelled' = [cancelled EXCEPT ![first.of] = "unseen"]
    /\ UNCHANGED <<running, stopped, callback, keeps, worker, event, signalled, window>>

\* The callback, outside the lock.
Ring ==
    /\ event.doing = "ring"
    /\ signalled' = signalled \cup {event.request}
    /\ event' = Idle
    /\ UNCHANGED <<runner, worker, cancelled, window>>

-----------------------------------------------------------------------------
\* _poll_requests: drain, whether or not anything is running, and present
\* every completion; only a goal start shows the value of a cancelled one.
Poll ==
    /\ event = Idle /\ ~closing
    /\ completions' = <<>>
    /\ cancelRequested' = FALSE
    /\ IF completions = <<>> THEN UNCHANGED <<busy, handler, shown>>
       ELSE /\ busy' = FALSE
            /\ handler' = None
            /\ shown' = [r \in Requests |->
                  IF r = handler THEN completions[1].form ELSE shown[r]]
    /\ UNCHANGED <<running, stopped, callback, keeps, worker, event, closing, signalled, cancelled>>

\* _close, and the stop it makes.
Close ==
    /\ event = Idle /\ ~closing
    /\ closing' = TRUE
    /\ handler' = None
    /\ stopped' = TRUE
    /\ cancelRequested' = TRUE
    /\ completions' = <<>>
    /\ event' = IF callback = None THEN Idle ELSE [doing |-> "ring", request |-> callback]
    /\ UNCHANGED <<running, callback, keeps, worker, busy, signalled, shown, cancelled>>

-----------------------------------------------------------------------------
Next ==
    \/ \E r \in Requests : Reserve(r) \/ Act(r) \/ Deliver(r)
    \/ Launch \/ LaunchFails
    \/ CancelRunning \/ CancelUnseen \/ Ring
    \/ Poll \/ Close

Spec == Init /\ [][Next]_vars

\* Actions are bounded and return or raise, threads are scheduled, the event
\* loop finishes what it is in the middle of, and the poll re-arms itself.
FairSpec ==
    /\ Spec
    /\ \A r \in Requests : WF_vars(Act(r) \/ Deliver(r))
    /\ WF_vars(Launch \/ LaunchFails)
    /\ WF_vars(Ring)
    /\ WF_vars(Poll)

-----------------------------------------------------------------------------
Underway(r) == worker[r] \in {"reserved", "acting", "returned", "raised"}
Pending(r) == \E i \in DOMAIN completions : completions[i].of = r

\* One request at a time, from its reservation to the moment its result is
\* presented: a second is neither run beside it nor queued behind it.
SingleFlight ==
    \A q, r \in Requests :
        ((Underway(q) \/ Pending(q)) /\ (Underway(r) \/ Pending(r))) => q = r

\* A result that waits to be presented meets the handler of its own request,
\* although the runner and the window keep them in different places; once the
\* window is closed there is no handler, and no result may wait.
ToOwnHandler == \A i \in DOMAIN completions : event = Idle => completions[i].of = handler

\* The window is busy exactly while the runner would turn a request away: no
\* control stays disabled over a free runner, none invites a refusal.
ControlsMatch == (event.doing # "launch" /\ ~closing) => (busy <=> ~Free)

\* A cancellation holds.  While it stands, whatever waits to be presented is
\* presented as cancelled, whether it came before or after, and whether it is
\* an error; and a request cancelled after it finished and before it was
\* presented is not presented as its value or its error.
CancellationHolds ==
    /\ cancelRequested => \A i \in DOMAIN completions :
           completions[i].form \notin {"value", "error"}
    /\ \A r \in Requests : cancelled[r] = "unseen" => shown[r] \notin {"value", "error"}

\* A window that is busy becomes free again, or closes: every request leaves
\* something to present, also when its action raised or it was cancelled.
EveryRequestAnswered == busy ~> (~busy \/ closing)

\* request_cancel (DesktopRequestRunner.py): "Discard the result after the
\* active bounded operation returns."
CancelledIsDiscarded ==
    \A r \in Requests : cancelled[r] # "no" => shown[r] \notin {"value", "error"}
=============================================================================
