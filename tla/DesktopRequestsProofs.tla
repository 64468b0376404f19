------------------------- MODULE DesktopRequestsProofs -------------------------
(***************************************************************************)
(* Theorems of DesktopRequests, for sessions of any length: one request at *)
(* a time, to its own handler, under controls that say so, and with its    *)
(* cancellation kept.                                                      *)
(*                                                                         *)
(* The runner, the window and the worker threads each keep a part of what  *)
(* is going on.  The invariant says how the parts fit between any two of   *)
(* their steps.                                                            *)
(***************************************************************************)
EXTENDS DesktopRequests, TLAPS

\* The deque holds one completion or none, and one only when nothing runs.
AtMostOneResult ==
    /\ completions = <<>> \/ \E c \in Completion : completions = <<c>>
    /\ completions # <<>> => ~running /\ worker[completions[1].of] = "done"

\* The flag says whether a thread is under way; there is never a second one.
FlagIsThread ==
    /\ running <=> \E r \in Requests : Underway(r)
    /\ \A q, r \in Requests : Underway(q) /\ Underway(r) => q = r

\* A reservation is what the event thread is in the middle of.
ReservedIsLaunching ==
    /\ event.doing # "loop" => event.request \in Requests
    /\ event.doing = "launch" => worker[event.request] = "reserved" /\ ~closing /\ ~busy
    /\ \A r \in Requests : worker[r] = "reserved" => event.doing = "launch"

\* Closing the window stops the runner.
StoppedIsClosing == stopped = closing /\ (stopped => completions = <<>>)

\* While the window is open its handler is that of the request in hand.
HandlerInHand ==
    /\ ~closing => \A r \in Requests : worker[r] \in {"acting", "returned", "raised"} => handler = r
    /\ completions # <<>> => handler = completions[1].of

\* Only what was delivered and polled is shown, and only a finished request
\* can have been cancelled unseen; while it waits the cancellation stands.
ShownOnce ==
    /\ \A r \in Requests : shown[r] # "nothing" => worker[r] = "done" /\ ~Pending(r)
    /\ \A r \in Requests : cancelled[r] = "unseen" => worker[r] = "done" /\ (Pending(r) => cancelRequested)

Parts ==
    /\ AtMostOneResult /\ FlagIsThread /\ ReservedIsLaunching /\ StoppedIsClosing
    /\ HandlerInHand /\ ShownOnce /\ ControlsMatch /\ CancellationHolds

IInv == TypeOK /\ Parts

\* What waits is the first completion.
LEMMA PendingIsFirst ==
    ASSUME NEW s, s = <<>> \/ \E c \in Completion : s = <<c>>, NEW r
    PROVE  /\ (\E i \in DOMAIN s : s[i].of = r) <=> (s # <<>> /\ s[1].of = r)
           /\ \A i \in DOMAIN s : s # <<>> /\ i = 1
<1>1. CASE s = <<>>
    BY <1>1
<1>2. ASSUME NEW c \in Completion, s = <<c>>  PROVE s # <<>> /\ DOMAIN s = {1}
    BY <1>2
<1> QED  BY <1>1, <1>2

LEMMA InitIInv == Init => IInv
<1> SUFFICES ASSUME Init PROVE IInv
    OBVIOUS
<1> USE DEF Init
<1>1. TypeOK
  <2>1. completions \in Seq(Completion)
      OBVIOUS
  <2>2. event \in Event
      BY DEF Event, Idle
  <2> QED  BY <2>1, <2>2 DEF TypeOK, WorkerState
<1>2. AtMostOneResult /\ FlagIsThread /\ StoppedIsClosing /\ HandlerInHand
    BY DEF AtMostOneResult, FlagIsThread, StoppedIsClosing, HandlerInHand, Underway
<1>3. ReservedIsLaunching /\ ShownOnce /\ ControlsMatch /\ CancellationHolds
    BY DEF ReservedIsLaunching, ShownOnce, ControlsMatch, CancellationHolds, Idle, Free
<1> QED  BY <1>1, <1>2, <1>3 DEF IInv, Parts

-----------------------------------------------------------------------------
LEMMA TypeKept == TypeOK /\ AtMostOneResult /\ ReservedIsLaunching /\ [Next]_vars => TypeOK'
<1> SUFFICES ASSUME TypeOK, AtMostOneResult, ReservedIsLaunching, [Next]_vars  PROVE TypeOK'
    OBVIOUS
<1> USE DEF TypeOK, WorkerState, Event, Idle, runner, window
<1>1. CASE UNCHANGED vars
    BY <1>1 DEF vars
<1>2. ASSUME NEW r \in Requests, Reserve(r)  PROVE TypeOK'
    BY <1>2 DEF Reserve
<1>3. ASSUME NEW r \in Requests, Act(r)  PROVE TypeOK'
    BY <1>3 DEF Act
<1>4. ASSUME NEW r \in Requests, Deliver(r)  PROVE TypeOK'
  <2>1. Left(r) \in Completion
      BY DEF Left, Completion, Form
  <2>2. completions' \in Seq(Completion)
      BY <1>4, <2>1 DEF Deliver
  <2> QED  BY <1>4, <2>2 DEF Deliver
<1>5. CASE Launch
    BY <1>5 DEF Launch, ReservedIsLaunching
<1>6. CASE LaunchFails
    BY <1>6 DEF LaunchFails
<1>7. CASE CancelRunning
    BY <1>7 DEF CancelRunning
<1>8. CASE CancelUnseen
  <2>1. completions[1] \in Completion
      BY <1>8 DEF CancelUnseen, AtMostOneResult
  <2>2. [completions[1] EXCEPT !.form = IF keeps /\ @ = "value" THEN "cancelledValue" ELSE "cancelled"] \in Completion
      BY <2>1 DEF Completion, Form
  <2>3. completions' \in Seq(Completion)
      BY <1>8, <2>2 DEF CancelUnseen
  <2> QED  BY <1>8, <2>3 DEF CancelUnseen
<1>9. CASE Ring
    BY <1>9 DEF Ring, ReservedIsLaunching
<1>10. CASE Poll
  <2>1. completions # <<>> => completions[1].form \in Form
      BY DEF AtMostOneResult, Completion
  <2>2. completions' \in Seq(Completion)
      BY <1>10 DEF Poll
  <2>3. shown' \in [Requests -> {"nothing"} \cup Form]
      BY <1>10, <2>1 DEF Poll
  <2> QED  BY <1>10, <2>2, <2>3 DEF Poll
<1>11. CASE Close
    BY <1>11 DEF Close
<1> QED  BY <1>1, <1>2, <1>3, <1>4, <1>5, <1>6, <1>7, <1>8, <1>9, <1>10, <1>11 DEF Next

\* Before a reservation nothing is under way, and nothing waits.
LEMMA ReserveKeeps == ASSUME IInv, NEW r \in Requests, Reserve(r)  PROVE Parts'
<1> USE DEF IInv, Parts, TypeOK, Reserve, Free, window, Idle
<1>1. \A q \in Requests : ~Underway(q)
    BY DEF FlagIsThread
<1>2. /\ worker' \in [Requests -> WorkerState] /\ worker'[r] = "reserved"
      /\ \A q \in Requests : q # r => worker'[q] = worker[q]
    BY DEF WorkerState
<1>3. AtMostOneResult' /\ StoppedIsClosing'
    BY DEF AtMostOneResult, StoppedIsClosing
<1>4. FlagIsThread'
    BY <1>1, <1>2 DEF FlagIsThread, Underway
<1>5. ReservedIsLaunching'
    BY <1>1, <1>2 DEF ReservedIsLaunching, Underway, ControlsMatch
<1>6. HandlerInHand'
    BY <1>1, <1>2 DEF HandlerInHand, Underway
<1>7. ShownOnce'
    BY <1>2 DEF ShownOnce, Pending
<1>8. ControlsMatch' /\ CancellationHolds'
    BY DEF ControlsMatch, CancellationHolds
<1> QED  BY <1>3, <1>4, <1>5, <1>6, <1>7, <1>8

LEMMA LaunchKeeps == ASSUME IInv, Launch \/ LaunchFails  PROVE Parts'
<1> DEFINE r == event.request
<1> USE DEF IInv, Parts, TypeOK, runner, window, Idle
<1>1. /\ r \in Requests /\ worker[r] = "reserved" /\ ~closing /\ ~busy /\ Underway(r)
      /\ running /\ completions = <<>> /\ event.doing = "launch"
    BY DEF Launch, LaunchFails, ReservedIsLaunching, FlagIsThread, Underway, AtMostOneResult
<1>2. /\ \A q \in Requests : q # r => ~Underway(q) /\ worker'[q] = worker[q]
      /\ worker' \in [Requests -> WorkerState]
    BY <1>1 DEF Launch, LaunchFails, FlagIsThread, WorkerState
<1>3. CASE Launch
  <2>1. worker'[r] = "acting"
      BY <1>1, <1>3 DEF Launch
  <2>2. AtMostOneResult' /\ StoppedIsClosing'
      BY <1>1, <1>3 DEF Launch, AtMostOneResult, StoppedIsClosing
  <2>3. FlagIsThread' /\ ReservedIsLaunching' /\ HandlerInHand'
      BY <1>1, <1>2, <1>3, <2>1 DEF Launch, FlagIsThread, ReservedIsLaunching, HandlerInHand, Underway
  <2>4. ShownOnce'
      BY <1>1, <1>2, <1>3, <2>1 DEF Launch, ShownOnce, Pending
  <2>5. ControlsMatch' /\ CancellationHolds'
      BY <1>1, <1>3 DEF Launch, ControlsMatch, CancellationHolds, Free
  <2> QED  BY <2>2, <2>3, <2>4, <2>5
<1>4. CASE LaunchFails
  <2>1. worker'[r] = "unstartable"
      BY <1>1, <1>4 DEF LaunchFails
  <2>2. AtMostOneResult' /\ StoppedIsClosing'
      BY <1>1, <1>4 DEF LaunchFails, AtMostOneResult, StoppedIsClosing
  <2>3. FlagIsThread' /\ ReservedIsLaunching' /\ HandlerInHand'
      BY <1>1, <1>2, <1>4, <2>1 DEF LaunchFails, FlagIsThread, ReservedIsLaunching, HandlerInHand, Underway
  <2>4. ShownOnce'
      BY <1>1, <1>2, <1>4, <2>1 DEF LaunchFails, ShownOnce, Pending
  <2>5. ControlsMatch' /\ CancellationHolds'
      BY <1>1, <1>4 DEF LaunchFails, ControlsMatch, CancellationHolds, Free, StoppedIsClosing
  <2> QED  BY <2>2, <2>3, <2>4, <2>5
<1> QED  BY <1>3, <1>4

\* The action of a request ends; nothing but its thread knows.
LEMMA ActKeeps == ASSUME IInv, NEW r \in Requests, Act(r)  PROVE Parts'
<1> USE DEF IInv, Parts, TypeOK, Act, runner, window
<1>1. /\ worker' \in [Requests -> WorkerState]
      /\ worker[r] = "acting" /\ worker'[r] \in {"returned", "raised"}
      /\ \A q \in Requests : q # r => worker'[q] = worker[q]
    BY DEF WorkerState
<1>2. AtMostOneResult'
    BY <1>1 DEF AtMostOneResult, Completion
<1>3. FlagIsThread'
    BY <1>1 DEF FlagIsThread, Underway
<1>4. ReservedIsLaunching' /\ StoppedIsClosing' /\ HandlerInHand'
    BY <1>1 DEF ReservedIsLaunching, StoppedIsClosing, HandlerInHand
<1>5. ShownOnce'
    BY <1>1 DEF ShownOnce, Pending
<1>6. ControlsMatch' /\ CancellationHolds'
    BY DEF ControlsMatch, CancellationHolds, Free
<1> QED  BY <1>2, <1>3, <1>4, <1>5, <1>6

\* The one thread under way ends and leaves the one completion.
LEMMA DeliverKeeps == ASSUME IInv, NEW r \in Requests, Deliver(r)  PROVE Parts'
<1> USE DEF IInv, Parts, TypeOK, window
<1>1. /\ Underway(r) /\ running /\ completions = <<>>
      /\ worker[r] \in {"returned", "raised"} /\ worker'[r] = "done"
      /\ worker' \in [Requests -> WorkerState] /\ ~running'
      /\ \A q \in Requests : q # r => worker'[q] = worker[q] /\ ~Underway(q)
    BY DEF Deliver, WorkerState, Underway, FlagIsThread, AtMostOneResult
<1>2. Left(r) \in Completion /\ Left(r).of = r /\ (cancelRequested => Left(r).form \notin {"value", "error"})
    BY DEF Left, Completion, Form
<1>3. completions' = IF stopped THEN <<>> ELSE <<Left(r)>>
    BY <1>1 DEF Deliver
<1>4. \/ completions' = <<>> /\ stopped
      \/ completions' # <<>> /\ completions'[1] = Left(r) /\ ~stopped
    BY <1>3
<1>5. AtMostOneResult'
    BY <1>1, <1>2, <1>3, <1>4 DEF AtMostOneResult
<1>6. UNCHANGED <<stopped, closing, busy, handler, event, shown, cancelled, cancelRequested>>
    BY DEF Deliver
<1>7. FlagIsThread'
    BY <1>1 DEF FlagIsThread, Underway
<1>8. event.doing # "launch"
    BY <1>1 DEF ReservedIsLaunching, Underway
<1>9. ReservedIsLaunching' /\ StoppedIsClosing' /\ HandlerInHand'
    BY <1>1, <1>2, <1>4, <1>6, <1>8 DEF ReservedIsLaunching, StoppedIsClosing, HandlerInHand, Underway
<1>10. \A q \in Requests : Pending(q)' => q = r
    BY <1>2, <1>4, <1>5, PendingIsFirst DEF AtMostOneResult, Pending
<1>11. ShownOnce'
    BY <1>1, <1>6, <1>10 DEF ShownOnce
<1>12. ControlsMatch'
    BY <1>1, <1>4, <1>6, <1>8 DEF ControlsMatch, Free, StoppedIsClosing
<1>13. \A i \in DOMAIN completions' : completions'[i] = Left(r)
    BY <1>2, <1>3
<1>14. CancellationHolds'
    BY <1>2, <1>6, <1>13 DEF CancellationHolds
<1> QED  BY <1>5, <1>7, <1>9, <1>11, <1>12, <1>14

-----------------------------------------------------------------------------
\* A cancellation of what runs reaches its result, which is not there yet.
LEMMA CancelRunningKeeps == ASSUME IInv, CancelRunning  PROVE Parts'
<1> USE DEF IInv, Parts, TypeOK, window, Idle
<1>1. /\ completions = <<>> /\ event.doing = "loop"
      /\ event'.doing # "launch" /\ (event'.doing # "loop" => event'.request \in Requests)
    BY DEF CancelRunning, CancelEnabled, AtMostOneResult
<1>2. UNCHANGED <<running, stopped, completions, worker, closing, busy, handler, shown>>
    BY DEF CancelRunning
<1>3. AtMostOneResult' /\ FlagIsThread' /\ ReservedIsLaunching' /\ StoppedIsClosing' /\ HandlerInHand'
    BY <1>1, <1>2 DEF AtMostOneResult, FlagIsThread, ReservedIsLaunching, StoppedIsClosing, HandlerInHand, Underway
<1>4. \A r \in Requests : cancelled'[r] = "unseen" => cancelled[r] = "unseen"
    BY DEF CancelRunning
<1>5. ShownOnce'
    BY <1>1, <1>2, <1>4 DEF ShownOnce, Pending
<1>6. ControlsMatch' /\ CancellationHolds'
    BY <1>1, <1>2, <1>4 DEF ControlsMatch, CancellationHolds, Free
<1> QED  BY <1>3, <1>5, <1>6

\* A cancellation of what waits changes the completion, which nobody has seen.
LEMMA CancelUnseenKeeps == ASSUME IInv, CancelUnseen  PROVE Parts'
<1> USE DEF IInv, Parts, TypeOK, window, Idle
<1> DEFINE first == completions[1]
           told == [first EXCEPT !.form = IF keeps /\ @ = "value" THEN "cancelledValue" ELSE "cancelled"]
<1>1. first \in Completion /\ worker[first.of] = "done" /\ first.of \in Requests /\ completions # <<>>
    BY DEF CancelUnseen, AtMostOneResult, Completion
<1>2. told \in Completion /\ told.of = first.of /\ told.form \notin {"value", "error"}
    BY <1>1 DEF Completion, Form
<1>3. completions' = <<told>>
    BY DEF CancelUnseen
<1> HIDE DEF told
<1>4. completions' # <<>> /\ completions'[1] = told /\ DOMAIN completions' = {1}
    BY <1>3
<1>5. /\ UNCHANGED <<running, stopped, worker, closing, busy, handler, shown, event>>
      /\ cancelRequested' /\ ~stopped
      /\ cancelled' = [cancelled EXCEPT ![first.of] = "unseen"]
    BY DEF CancelUnseen
<1>6. AtMostOneResult' /\ FlagIsThread' /\ ReservedIsLaunching' /\ StoppedIsClosing' /\ HandlerInHand'
    BY <1>1, <1>2, <1>3, <1>4, <1>5
    DEF AtMostOneResult, FlagIsThread, ReservedIsLaunching, StoppedIsClosing, HandlerInHand, Underway
<1>7. \A r \in Requests : Pending(r)' <=> Pending(r)
    BY <1>1, <1>2, <1>4, PendingIsFirst DEF AtMostOneResult, Pending
<1>8. ShownOnce'
    BY <1>1, <1>5, <1>7 DEF ShownOnce
<1>9. ControlsMatch'
    BY <1>1, <1>4, <1>5 DEF ControlsMatch, Free
<1>10. Pending(first.of)
    BY <1>1, PendingIsFirst DEF AtMostOneResult, Pending
<1>11. CancellationHolds'
    BY <1>1, <1>2, <1>4, <1>5, <1>10 DEF CancellationHolds, ShownOnce
<1> QED  BY <1>6, <1>8, <1>9, <1>11

LEMMA RingKeeps == ASSUME IInv, Ring  PROVE Parts'
BY DEF IInv, Parts, TypeOK, Ring, runner, window, Idle, AtMostOneResult, FlagIsThread, ReservedIsLaunching,
    StoppedIsClosing, HandlerInHand, ShownOnce, Pending, Underway, ControlsMatch, CancellationHolds, Free

\* What is presented is the completion of the handler's own request.
LEMMA PollKeeps == ASSUME IInv, Poll  PROVE Parts'
<1> USE DEF IInv, Parts, TypeOK, Idle
<1>1. /\ completions' = <<>> /\ ~cancelRequested' /\ event.doing = "loop" /\ ~closing
      /\ UNCHANGED <<running, stopped, worker, event, closing, cancelled>>
    BY DEF Poll
<1>2. AtMostOneResult' /\ FlagIsThread' /\ ReservedIsLaunching' /\ StoppedIsClosing'
    BY <1>1 DEF AtMostOneResult, FlagIsThread, ReservedIsLaunching, StoppedIsClosing, Underway
<1>3. \A r \in Requests : ~Pending(r)'
    BY <1>1 DEF Pending
<1>4. CASE completions = <<>>
  <2>1. UNCHANGED <<busy, handler, shown>>
      BY <1>4 DEF Poll
  <2>2. HandlerInHand' /\ ControlsMatch'
      BY <1>1, <1>4, <2>1 DEF HandlerInHand, ControlsMatch, Free
  <2>3. ShownOnce' /\ CancellationHolds'
      BY <1>1, <1>3, <2>1 DEF ShownOnce, CancellationHolds
  <2> QED  BY <1>2, <2>2, <2>3
<1>5. CASE completions # <<>>
  <2> DEFINE h == completions[1].of
  <2>1. /\ ~busy' /\ ~running /\ h = handler /\ h \in Requests /\ worker[h] = "done"
        /\ shown' = [r \in Requests |-> IF r = handler THEN completions[1].form ELSE shown[r]]
      BY <1>5 DEF Poll, AtMostOneResult, HandlerInHand, Completion
  <2>2. \A r \in Requests : ~Underway(r)
      BY <2>1 DEF FlagIsThread
  <2>3. HandlerInHand' /\ ControlsMatch'
      BY <1>1, <2>1, <2>2 DEF HandlerInHand, ControlsMatch, Free, Underway, StoppedIsClosing
  <2>4. ShownOnce'
      BY <1>1, <1>3, <2>1 DEF ShownOnce
  <2>5. Pending(h) /\ 1 \in DOMAIN completions
      BY <1>5, PendingIsFirst DEF AtMostOneResult, Pending
  <2>6. CancellationHolds'
      BY <1>1, <2>1, <2>5 DEF CancellationHolds, ShownOnce
  <2> QED  BY <1>2, <2>3, <2>4, <2>6
<1> QED  BY <1>4, <1>5

\* A window that closes drops its handler and whatever waits.
LEMMA CloseKeeps == ASSUME IInv, Close  PROVE Parts'
<1> USE DEF IInv, Parts, TypeOK, Idle, Close
<1>1. AtMostOneResult' /\ FlagIsThread' /\ StoppedIsClosing' /\ HandlerInHand' /\ ControlsMatch'
    BY DEF AtMostOneResult, FlagIsThread, StoppedIsClosing, HandlerInHand, ControlsMatch, Underway
<1>2. ReservedIsLaunching'
    BY DEF ReservedIsLaunching
<1>3. ShownOnce' /\ CancellationHolds'
    BY DEF ShownOnce, Pending, CancellationHolds
<1> QED  BY <1>1, <1>2, <1>3

LEMMA StepIInv == IInv /\ [Next]_vars => IInv'
<1> SUFFICES ASSUME IInv, [Next]_vars PROVE IInv'
    OBVIOUS
<1>1. TypeOK'
    BY TypeKept DEF IInv, Parts
<1>2. CASE UNCHANGED vars
    BY <1>2 DEF vars, IInv, Parts, TypeOK, AtMostOneResult, FlagIsThread, ReservedIsLaunching, StoppedIsClosing,
        HandlerInHand, ShownOnce, Pending, Underway, ControlsMatch, CancellationHolds, Free
<1>3. CASE Next
    BY <1>1, <1>3, ReserveKeeps, LaunchKeeps, ActKeeps, DeliverKeeps, CancelRunningKeeps, CancelUnseenKeeps,
        RingKeeps, PollKeeps, CloseKeeps DEF Next, IInv
<1> QED  BY <1>1, <1>2, <1>3

-----------------------------------------------------------------------------
\* The inductive invariant holds of every reachable state.
THEOREM Invariance == Spec => []IInv
BY InitIInv, StepIInv, PTL DEF Spec

\* A second request is neither run beside the one in hand nor queued behind it.
THEOREM OneAtATime == Spec => []SingleFlight
<1>1. IInv => SingleFlight
  <2> SUFFICES ASSUME IInv  PROVE SingleFlight
      OBVIOUS
  <2>1. \A r \in Requests : Pending(r) => completions # <<>> /\ completions[1].of = r
      BY PendingIsFirst DEF IInv, Parts, AtMostOneResult, Pending
  <2> QED  BY <2>1 DEF IInv, Parts, AtMostOneResult, FlagIsThread, SingleFlight
<1> QED  BY <1>1, Invariance, PTL

\* A result that waits meets the handler of its own request.
THEOREM OwnHandler == Spec => []ToOwnHandler
<1>1. IInv => ToOwnHandler
    BY PendingIsFirst DEF IInv, Parts, AtMostOneResult, HandlerInHand, ToOwnHandler
<1> QED  BY <1>1, Invariance, PTL

\* The window's controls are disabled exactly while a request would be refused.
THEOREM Controls == Spec => []ControlsMatch
<1>1. IInv => ControlsMatch
    BY DEF IInv, Parts
<1> QED  BY <1>1, Invariance, PTL

\* A cancellation holds of whatever is presented after it.
THEOREM Cancellations == Spec => []CancellationHolds
<1>1. IInv => CancellationHolds
    BY DEF IInv, Parts
<1> QED  BY <1>1, Invariance, PTL
=============================================================================
