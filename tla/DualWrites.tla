------------------------------- MODULE DualWrites -------------------------------
(***************************************************************************)
(* Requests that write to two places. A tweet (app/api/v1/social.py), a    *)
(* memory (app/services/memory_service.py) and an activity event           *)
(* (app/services/activity_service.py) are first sent out, to Twitter, to   *)
(* Chroma or to the Redis channel, and then become a row when the request  *)
(* or the task commits; a Stripe event (app/api/v1/finance.py) first       *)
(* becomes a row, and is answered when it is committed, or else delivered  *)
(* again.                                                                  *)
(***************************************************************************)
EXTENDS Integers

CONSTANTS
  Calls,           \* tweets, memories and activity events
  FlushesFirst,    \* those of Calls that insert their row before sending: activity
  StripeEvents,
  Attempts,        \* deliveries of a Stripe event
  MaxWriteFaults   \* bound on faults

ASSUME WritesAssumption ==
  FlushesFirst \subseteq Calls /\ Calls \intersect StripeEvents = {} /\ MaxWriteFaults \in Nat

VARIABLES
  call,        \* where each call stands
  outside,     \* calls that have happened outside
  callRows,    \* calls with a committed row
  hook,        \* where each delivery of a Stripe event stands
  stripeRows,  \* Stripe events with a committed row
  answered,    \* Stripe events that Stripe has heard to be received
  writeFaults

writeVars == <<call, outside, callRows, hook, stripeRows, answered, writeFaults>>

CallPhases == {"idle", "inserted", "sent", "ready", "ended"}
HookPhases == {"idle", "adding", "flushed", "committed", "ended"}

WritesTypeOK ==
  /\ call \in [Calls -> CallPhases]
  /\ outside \subseteq Calls /\ callRows \subseteq Calls
  /\ hook \in [StripeEvents \X Attempts -> HookPhases]
  /\ stripeRows \subseteq StripeEvents /\ answered \subseteq StripeEvents
  /\ writeFaults \in 0 .. MaxWriteFaults

WritesInit ==
  /\ call = [c \in Calls |-> "idle"]
  /\ outside = {} /\ callRows = {}
  /\ hook = [h \in StripeEvents \X Attempts |-> "idle"]
  /\ stripeRows = {} /\ answered = {}
  /\ writeFaults = 0

WriteFault == writeFaults < MaxWriteFaults /\ writeFaults' = writeFaults + 1

-----------------------------------------------------------------------------
(* Calls. *)

CallMoves(c, from, to) == call[c] = from /\ call' = [call EXCEPT ![c] = to]

\* log_activity flushes its row before it publishes.
InsertFirst(c) ==
  /\ c \in FlushesFirst
  /\ CallMoves(c, "idle", "inserted")
  /\ UNCHANGED <<outside, callRows, hook, stripeRows, answered, writeFaults>>

BeforeSend(c) == IF c \in FlushesFirst THEN "inserted" ELSE "idle"

Send(c) ==
  /\ CallMoves(c, BeforeSend(c), IF c \in FlushesFirst THEN "ready" ELSE "sent")
  /\ outside' = outside \union {c}
  /\ UNCHANGED <<callRows, hook, stripeRows, answered, writeFaults>>

\* The service refuses, is not configured or writes are not allowed: 400 or 502.
SendFails(c) ==
  /\ CallMoves(c, BeforeSend(c), "ended")
  /\ UNCHANGED <<outside, callRows, hook, stripeRows, answered, writeFaults>>

\* It happened, and the answer is lost on the way: to the code an error as well.
SendUnheard(c) ==
  /\ CallMoves(c, BeforeSend(c), "ended")
  /\ outside' = outside \union {c}
  /\ WriteFault
  /\ UNCHANGED <<callRows, hook, stripeRows, answered>>

InsertAfter(c) ==
  /\ CallMoves(c, "sent", "ready")
  /\ UNCHANGED <<outside, callRows, hook, stripeRows, answered, writeFaults>>

\* get_db commits for a request, and the task commits for its activity.
CommitCallRow(c) ==
  /\ CallMoves(c, "ready", "ended")
  /\ callRows' = callRows \union {c}
  /\ UNCHANGED <<outside, hook, stripeRows, answered, writeFaults>>

\* The database or the process fails: the row is rolled back and nothing else.
CallDies(c) ==
  /\ \E phase \in {"inserted", "sent", "ready"} : CallMoves(c, phase, "ended")
  /\ WriteFault
  /\ UNCHANGED <<outside, callRows, hook, stripeRows, answered>>

-----------------------------------------------------------------------------
(* Stripe events. *)

HookMoves(h, from, to) == hook[h] = from /\ hook' = [hook EXCEPT ![h] = to]

\* Stripe delivers an event again until it hears that it was received; an
\* attempt that is slow may overlap with the next. construct_event checks the
\* signature.
Deliver(h) ==
  /\ h[1] \notin answered
  /\ HookMoves(h, "idle", "adding")
  /\ UNCHANGED <<call, outside, callRows, stripeRows, answered, writeFaults>>

InFlight(e) == \E a \in Attempts : hook[<<e, a>>] = "flushed"

\* The insert waits for one of the same id that is in flight.
FlushEvent(h) ==
  /\ h[1] \notin stripeRows /\ ~InFlight(h[1])
  /\ HookMoves(h, "adding", "flushed")
  /\ UNCHANGED <<call, outside, callRows, stripeRows, answered, writeFaults>>

\* The unique id: an error 500, as often as Stripe tries.
RefuseEvent(h) ==
  /\ h[1] \in stripeRows
  /\ HookMoves(h, "adding", "ended")
  /\ UNCHANGED <<call, outside, callRows, stripeRows, answered, writeFaults>>

CommitEvent(h) ==
  /\ HookMoves(h, "flushed", "committed")
  /\ stripeRows' = stripeRows \union {h[1]}
  /\ UNCHANGED <<call, outside, callRows, answered, writeFaults>>

\* Deviation: the answer goes out before the commit.
AnswerFlushed(h) ==
  /\ \E phase \in {"flushed", "committed"} : HookMoves(h, phase, "ended")
  /\ answered' = answered \union {h[1]}
  /\ UNCHANGED <<call, outside, callRows, stripeRows, writeFaults>>

\* The response leaves after the exit of get_db.
AnswerEvent(h) ==
  /\ HookMoves(h, "committed", "ended")
  /\ answered' = answered \union {h[1]}
  /\ UNCHANGED <<call, outside, callRows, stripeRows, writeFaults>>

HookDies(h) ==
  /\ \E phase \in {"adding", "flushed", "committed"} : HookMoves(h, phase, "ended")
  /\ WriteFault
  /\ UNCHANGED <<call, outside, callRows, stripeRows, answered>>

-----------------------------------------------------------------------------

WritesNext ==
  \/ \E c \in Calls :
       \/ InsertFirst(c) \/ Send(c) \/ SendFails(c) \/ SendUnheard(c)
       \/ InsertAfter(c) \/ CommitCallRow(c) \/ CallDies(c)
  \/ \E h \in StripeEvents \X Attempts :
       Deliver(h) \/ FlushEvent(h) \/ RefuseEvent(h) \/ CommitEvent(h) \/ AnswerEvent(h) \/ HookDies(h)

WritesSpec == WritesInit /\ [][WritesNext]_writeVars

-----------------------------------------------------------------------------
(* Properties. *)

\* The first write of a call is outside and its second is the row; the first of
\* a Stripe event is the row and its second the answer.
Pairs == INSTANCE EffectThenRecord WITH
  Works <- Calls \union StripeEvents,
  happened <- outside \union stripeRows,
  open <- {c \in outside : call[c] \in {"sent", "ready"}}
            \union {e \in StripeEvents : \E a \in Attempts : hook[<<e, a>>] = "committed"},
  told <- callRows \union answered,
  losses <- writeFaults

\* A row never claims what did not happen outside, Stripe never hears of an
\* event without a row, and what happened without its row or answer is in the
\* hands of a request or was lost by a fault.
RecordsFollowEffects == Pairs!PairSpec

==============================================================================
