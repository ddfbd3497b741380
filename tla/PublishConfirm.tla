--------------------------- MODULE PublishConfirm ---------------------------
(***************************************************************************)
(* amqpconfirm.Await for messages published one after the other, as its    *)
(* comment asks: a message is published on a channel with nothing          *)
(* outstanding, and a channel whose answer was not awaited is given up.    *)
(***************************************************************************)
EXTENDS Naturals, Sequences

CONSTANT MaxMessages

VARIABLES pc,         \* of the publisher
          n,          \* the message being published
          fate,       \* what the broker did with each message
          wire,       \* frames of the broker the library has not dispatched
          returns, confirms,   \* the buffered listeners
          open,       \* the listeners not closed yet
          listening,  \* Await still selects on returns
          verdict

vars == <<pc, n, fate, wire, returns, confirms, open, listening, verdict>>

Channel == <<wire, returns, confirms, open>>
NoVerdict == "none"

Init ==
  /\ pc = "idle" /\ n = 0 /\ fate = <<>> /\ wire = <<>>
  /\ returns = <<>> /\ confirms = <<>> /\ open = {"returns", "confirms"}
  /\ listening = TRUE /\ verdict = NoVerdict

\* Publishing on the channel at hand, or on a new one when the last answer
\* may be outstanding or the channel is closed.
Publish ==
  /\ pc = "idle" /\ n < MaxMessages
  /\ pc' = "await" /\ n' = n + 1 /\ fate' = Append(fate, "unknown")
  /\ listening' = TRUE /\ verdict' = NoVerdict
  /\ IF verdict \in {NoVerdict, "nil", "nacked"} /\ open = {"returns", "confirms"}
     THEN UNCHANGED Channel
     ELSE /\ wire' = <<>> /\ returns' = <<>> /\ confirms' = <<>>
          /\ open' = {"returns", "confirms"}

-----------------------------------------------------------------------------
\* The broker: a message it cannot route is returned and then acknowledged.
BrokerAnswers ==
  /\ n > 0 /\ fate[n] = "unknown" /\ open # {}
  /\ \E f \in {"queued", "returned", "refused"} :
       /\ fate' = [fate EXCEPT ![n] = f]
       /\ wire' = wire \o (CASE f = "queued" -> <<"ack">>
                             [] f = "returned" -> <<"return", "ack">>
                             [] f = "refused" -> <<"nack">>)
  /\ UNCHANGED <<pc, n, returns, confirms, open, listening, verdict>>

\* One goroutine of the library dispatches the frames in their order.
Dispatch ==
  /\ wire # <<>> /\ open = {"returns", "confirms"}
  /\ wire' = Tail(wire)
  /\ IF Head(wire) = "return"
     THEN returns' = Append(returns, "return") /\ UNCHANGED confirms
     ELSE confirms' = Append(confirms, Head(wire)) /\ UNCHANGED returns
  /\ UNCHANGED <<pc, n, fate, open, listening, verdict>>

\* The connection breaks: frames are lost, returns is closed before confirms.
Close ==
  /\ open # {} /\ n > 0
  /\ open' = IF "returns" \in open THEN open \ {"returns"} ELSE {}
  /\ wire' = <<>>
  /\ UNCHANGED <<pc, n, fate, returns, confirms, listening, verdict>>

-----------------------------------------------------------------------------
Conclude(v) == pc' = "idle" /\ verdict' = v

TakeReturn ==
  /\ pc = "await" /\ listening /\ returns # <<>>
  /\ returns' = Tail(returns)
  /\ Conclude("returned")
  /\ UNCHANGED <<n, fate, wire, confirms, open, listening>>

ReturnsClosed ==
  /\ pc = "await" /\ listening /\ returns = <<>> /\ "returns" \notin open
  /\ listening' = FALSE
  /\ UNCHANGED <<pc, n, fate, wire, returns, confirms, open, verdict>>

\* Mutated: an acknowledgement is final.
AckFinal ==
  /\ pc = "await" /\ confirms # <<>>
  /\ confirms' = Tail(confirms)
  /\ Conclude(IF Head(confirms) = "nack" THEN "nacked" ELSE "nil")
  /\ UNCHANGED <<n, fate, wire, returns, open, listening>>

TakeConfirm ==
  /\ pc = "await" /\ confirms # <<>>
  /\ confirms' = Tail(confirms)
  /\ IF Head(confirms) = "nack" THEN Conclude("nacked")
     ELSE pc' = "drain" /\ UNCHANGED verdict
  /\ UNCHANGED <<n, fate, wire, returns, open, listening>>

\* The inner select, which does not block.
Drain ==
  /\ pc = "drain"
  /\ IF listening /\ returns # <<>>
     THEN returns' = Tail(returns) /\ Conclude("returned")
     ELSE Conclude("nil") /\ UNCHANGED returns
  /\ UNCHANGED <<n, fate, wire, confirms, open, listening>>

ConfirmsClosed ==
  /\ pc = "await" /\ confirms = <<>> /\ "confirms" \notin open
  /\ Conclude("closed")
  /\ UNCHANGED <<n, fate, Channel, listening>>

ContextDone ==
  /\ pc = "await"
  /\ Conclude("cancelled")
  /\ UNCHANGED <<n, fate, Channel, listening>>

Await == TakeReturn \/ ReturnsClosed \/ TakeConfirm \/ Drain \/ ConfirmsClosed

Next == Publish \/ BrokerAnswers \/ Dispatch \/ Close \/ Await \/ ContextDone

Spec == Init /\ [][Next]_vars

\* The library dispatches what it reads; a broker that stays silent loses its
\* connection to the heartbeat.  The context need not have a deadline.
FairSpec == Spec /\ WF_vars(BrokerAnswers \/ Close) /\ WF_vars(Dispatch) /\ WF_vars(Await)

-----------------------------------------------------------------------------
TypeOK ==
  /\ pc \in {"idle", "await", "drain"} /\ Len(fate) = n
  /\ Len(returns) <= 1 /\ Len(confirms) <= 1
  /\ verdict \in {"nil", "nacked"} => returns = <<>> /\ confirms = <<>>

\* Await "succeeds only for a positive confirmation without a returned
\* message": nil is said of this very message, whichever case the select
\* picks, whatever earlier messages left and whenever the connection breaks.
SuccessIsDelivery == verdict = "nil" => fate[n] = "queued"

\* A return or a nack is reported of the message the broker said it of.
BlameIsDue ==
  /\ verdict = "returned" => fate[n] = "returned"
  /\ verdict = "nacked" => fate[n] = "refused"

\* Await ends without the help of its context.
Concludes == (pc = "await") ~> (pc = "idle")
=============================================================================
