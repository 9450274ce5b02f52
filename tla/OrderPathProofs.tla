--------------------------- MODULE OrderPathProofs ---------------------------
(***************************************************************************)
(* What the money path guarantees for any number of orders, messages,      *)
(* attempts, retries and crashes.                                          *)
(***************************************************************************)
EXTENDS OrderPath, TLAPS

-----------------------------------------------------------------------------
\* The broker's record of an order.

LEMMA WithType ==
  ASSUME NEW b \in Request, NEW f \in Fates
  PROVE  With(b, f) \in Request
BY DEF With, Request, Fates

\* A request adds to the count of its fate and to no other.
LEMMA WithCounts ==
  ASSUME NEW b \in Request, NEW f \in Fates
  PROVE  /\ With(b, f).filled = IF f = "filled" THEN b.filled + 1 ELSE b.filled
         /\ With(b, f).cancelled = IF f = "cancelled" THEN b.cancelled + 1 ELSE b.cancelled
         /\ With(b, f).pending = IF f = "pending" THEN b.pending + 1 ELSE b.pending
BY DEF With, Request, Fates

LEMMA DecidedCounts ==
  ASSUME NEW b \in Request, b.pending > 0, NEW f \in {"filled", "cancelled"}
  PROVE  /\ Decided(b, f) \in Request
         /\ Decided(b, f).filled = IF f = "filled" THEN b.filled + 1 ELSE b.filled
         /\ Decided(b, f).cancelled >= b.cancelled
         /\ Decided(b, f).pending = b.pending - 1
<1> DEFINE c == [b EXCEPT !.pending = @ - 1]
<1>1. /\ c \in Request
      /\ c.filled = b.filled /\ c.cancelled = b.cancelled /\ c.pending = b.pending - 1
  BY DEF Request
<1>2. f \in Fates
  BY DEF Fates
<1>3. b.cancelled \in Nat
  BY DEF Request
<1>4. Decided(b, f) = With(c, f)
  BY DEF Decided
<1> HIDE DEF c
<1>5. With(c, f) \in Request
  BY <1>1, <1>2, WithType
<1>6. /\ With(c, f).filled = IF f = "filled" THEN c.filled + 1 ELSE c.filled
      /\ With(c, f).cancelled = IF f = "cancelled" THEN c.cancelled + 1 ELSE c.cancelled
      /\ With(c, f).pending = IF f = "pending" THEN c.pending + 1 ELSE c.pending
  BY <1>1, <1>2, WithCounts
<1>7. QED
  BY <1>1, <1>3, <1>4, <1>5, <1>6

-----------------------------------------------------------------------------
\* The batch.

LEMMA HeadAndTail ==
  ASSUME NEW S, NEW q \in Seq(S), q # <<>>
  PROVE  /\ Head(q) \in S
         /\ Tail(q) \in Seq(S)
         /\ Len(q) # 1 => Tail(q) # <<>>
BY SMTT(30)

LEMMA BatchHead ==
  ASSUME TypeOK, batch # <<>>
  PROVE  /\ msg \in Messages
         /\ key \in Keys
         /\ Tail(batch) \in Seq(Messages)
         /\ Len(batch) # 1 => Tail(batch) # <<>>
BY OrderAssumption, HeadAndTail DEF TypeOK, msg, key

\* Leaving a message keeps every variable it writes in its type.
LEMMA NextMessageType ==
  ASSUME TypeOK, pc \in Handling, NextMessage
  PROVE  /\ pc' \in {"idle", "handle"}
         /\ batch' \in Seq(Messages)
         /\ pc' \in Handling => batch' # <<>>
         /\ tries' \in 0..RetryMax /\ reply' \in Fates /\ result' \in Statuses
<1>1. Tail(batch) \in Seq(Messages) /\ (Len(batch) # 1 => Tail(batch) # <<>>)
  BY BatchHead DEF TypeOK
<1>2. QED
  BY <1>1, OrderAssumption DEF NextMessage, EndCall, Handling, Fates, Statuses

LEMMA AckType ==
  ASSUME TypeOK, pc \in Handling, NEW how \in Outcomes, Ack(how),
         UNCHANGED <<storeVars, brokerVars, serviceVars>>
  PROVE  TypeOK'
<1>1. NextMessage /\ msg \in Messages
  BY BatchHead DEF Ack, TypeOK
<1>2. /\ pc' \in Points \ {"transmit", "markSignal"} /\ batch' \in Seq(Messages) /\ (pc' \in Handling => batch' # <<>>)
      /\ tries' \in 0..RetryMax /\ reply' \in Fates /\ result' \in Statuses
  BY <1>1, NextMessageType DEF Points, Handling
<1>3. /\ phase' \in [Messages -> {"unsent", "pending", "settled"}]
      /\ delivered' = delivered
  BY <1>1 DEF Ack, TypeOK, Queue!Settle
<1>4. /\ outcome' \in [Messages -> Outcomes]
      /\ late' \subseteq Messages
  BY <1>1 DEF Ack, TypeOK
<1>5. QED
  BY <1>2, <1>3, <1>4 DEF TypeOK, storeVars, brokerVars, serviceVars

LEMMA NackType ==
  ASSUME TypeOK, pc \in Handling, NEW how \in Outcomes, Nack(how),
         UNCHANGED <<storeVars, brokerVars, serviceVars>>
  PROVE  TypeOK'
<1>1. CASE delivered[msg] >= MaxAttempts
  BY <1>1, AckType DEF Nack
<1>2. CASE ~(delivered[msg] >= MaxAttempts)
  <2>1. /\ outcome' = [outcome EXCEPT ![msg] = how]
        /\ NextMessage
        /\ UNCHANGED <<phase, delivered, late>>
    BY <1>2 DEF Nack
  <2>2. /\ pc' \in Points \ {"transmit", "markSignal"} /\ batch' \in Seq(Messages) /\ (pc' \in Handling => batch' # <<>>)
        /\ tries' \in 0..RetryMax /\ reply' \in Fates /\ result' \in Statuses
    BY <2>1, NextMessageType DEF Points, Handling
  <2>3. outcome' \in [Messages -> Outcomes]
    BY <2>1, BatchHead DEF TypeOK
  <2>4. QED
    BY <2>1, <2>2, <2>3 DEF TypeOK, storeVars, brokerVars, serviceVars
<1>3. QED
  BY <1>1, <1>2

LEMMA TypeInit == Init => TypeOK
BY OrderAssumption DEF Init, Queue!Init, TypeOK, Outcomes, Points, Stopped, Handling, Fates,
   Statuses, Request

\* The steps of the broker, of the process and of its loop.
LEMMA TypeAround ==
  ASSUME TypeOK
  PROVE  /\ \A m \in Messages : Publish(m) => TypeOK'
         /\ \A k \in Keys : BrokerDecides(k) => TypeOK'
         /\ \A k \in Keys : BrokerCloses(k) => TypeOK'
         /\ (Restart \/ StartAgain \/ IntervalEnds \/ Crash \/ Sweep
              \/ StartPoll \/ Pulled \/ PullError) => TypeOK'
         /\ \A m \in Messages : BuryOrphan(m) => TypeOK'
         /\ \A m \in Messages : Claim(m) => TypeOK'
<1> USE OrderAssumption
<1> USE DEF TypeOK, queueVars, brokerVars, callVars, storeVars, serviceVars, msg
<1>1. ASSUME NEW m \in Messages, Publish(m) PROVE TypeOK'
  BY <1>1 DEF Publish, Queue!Send
<1>2. ASSUME NEW k \in Keys, BrokerDecides(k) PROVE TypeOK'
  <2>1. PICK fate \in {"filled", "cancelled"} :
          /\ book' = [book EXCEPT ![k] = Decided(@, fate)]
          /\ open' = IF fate = "filled" THEN open \cup {k} ELSE open
    BY <1>2 DEF BrokerDecides
  <2>2. Decided(book[k], fate) \in Request
    BY <1>2, DecidedCounts DEF BrokerDecides
  <2>3. book' \in [Keys -> Request]
    BY <2>1, <2>2
  <2>4. open' \subseteq Keys
    BY <2>1
  <2>5. QED
    BY <1>2, <2>3, <2>4 DEF BrokerDecides
<1>3. ASSUME NEW k \in Keys, BrokerCloses(k) PROVE TypeOK'
  BY <1>3 DEF BrokerCloses
<1>4. CASE Restart
  BY <1>4 DEF Restart, Up, Points, Handling, Stopped
<1>4a. CASE StartAgain
  BY <1>4a DEF StartAgain, Up, GivenUp, Points, Handling, Stopped
<1>4b. CASE IntervalEnds
  BY <1>4b DEF IntervalEnds
<1>5. CASE Crash
  BY <1>5 DEF Crash, EndCall, Points, Handling, Stopped, Fates, Statuses
<1>6. CASE Sweep
  BY <1>6 DEF Sweep
<1>7. CASE StartPoll
  BY <1>7 DEF StartPoll, Points, Handling
<1>8. CASE Pulled
  BY <1>8 DEF Pulled, Points, Handling
<1>9. CASE PullError
  BY <1>9 DEF PullError, Points, Handling
<1>10. ASSUME NEW m \in Messages, BuryOrphan(m) PROVE TypeOK'
  BY <1>10 DEF BuryOrphan, Queue!Settle
<1>11. ASSUME NEW m \in Messages, Claim(m) PROVE TypeOK'
  <2>1. batch' \in Seq(Messages) /\ delivered' \in [Messages -> 0..MaxAttempts]
    BY <1>11 DEF Claim, Queue!Deliver
  <2>2. QED
    BY <1>11, <2>1 DEF Claim, Queue!Deliver, Handling
<1>12. QED
  BY <1>1, <1>2, <1>3, <1>4, <1>4a, <1>4b, <1>5, <1>6, <1>7, <1>8, <1>9, <1>10, <1>11

\* The steps that leave the message in hand.
LEMMA TypeLeave ==
  TypeOK /\ (\/ HandleMalformed \/ DropExpired \/ AckDuplicate \/ Park
             \/ ProcessRejects \/ ProcessFails
             \/ ReconcileRaises \/ AnswerRaises \/ WriteRaises \/ AckExecuted) => TypeOK'
<1> SUFFICES ASSUME TypeOK,
                    \/ HandleMalformed \/ DropExpired \/ AckDuplicate \/ Park
                    \/ ProcessRejects \/ ProcessFails
                    \/ ReconcileRaises \/ AnswerRaises \/ WriteRaises \/ AckExecuted
             PROVE  TypeOK'
  OBVIOUS
<1>1. PICK how \in Outcomes : Ack(how) \/ Nack(how)
  BY DEF HandleMalformed, DropExpired, AckDuplicate, Park, ProcessRejects,
     ProcessFails, ReconcileRaises, AnswerRaises, WriteRaises, AckExecuted, Outcomes
<1>2. pc \in Handling /\ UNCHANGED <<storeVars, brokerVars, serviceVars>>
  BY DEF HandleMalformed, DropExpired, AckDuplicate, Park, ProcessRejects,
     ProcessFails, ReconcileRaises, AnswerRaises, WriteRaises, AckExecuted, ToBeHandled, Handling
<1>3. QED
  BY <1>1, <1>2, AckType, NackType

\* The steps within one handling of it.
LEMMA TypeWithin ==
  TypeOK /\ (\/ HandleUnreadable \/ Admit \/ Submit
             \/ ReconcileFilled \/ ReconcileAbsent \/ Transmit \/ Answered \/ AnswerTransient
             \/ MarkKey \/ MarkSignal \/ Report \/ Register) => TypeOK'
<1> SUFFICES ASSUME TypeOK,
                    \/ HandleUnreadable \/ Admit \/ Submit
                    \/ ReconcileFilled \/ ReconcileAbsent \/ Transmit \/ Answered
                    \/ AnswerTransient \/ MarkKey \/ MarkSignal \/ Report \/ Register
             PROVE  TypeOK'
  OBVIOUS
<1> USE OrderAssumption
<1> USE DEF TypeOK, queueVars, brokerVars, callVars, storeVars, serviceVars, Points, Handling, Stopped, msg
<1>1. CASE HandleUnreadable
  BY <1>1 DEF HandleUnreadable
<1>2. CASE Admit
  BY <1>2 DEF Admit, ToBeHandled
<1>3. CASE Submit
  BY <1>3 DEF Submit
<1>4. CASE ReconcileFilled
  BY <1>4 DEF ReconcileFilled, Statuses
<1>5. CASE ReconcileAbsent
  BY <1>5 DEF ReconcileAbsent
<1>6. CASE Transmit
  <2>1. key \in Keys
    BY <1>6, BatchHead DEF Transmit
  <2>2. PICK fate \in FatesOf(key) :
          /\ reply' = fate
          /\ book' = [book EXCEPT ![key] = With(@, fate)]
          /\ open' = IF fate = "filled" THEN open \cup {key} ELSE open
    BY <1>6 DEF Transmit
  <2>3. fate \in Fates
    BY DEF FatesOf
  <2>4. book' \in [Keys -> Request]
    BY <2>1, <2>2, <2>3, WithType
  <2>5. tries' \in 0..RetryMax
    BY <1>6 DEF Transmit
  <2>6. QED
    BY <1>6, <2>1, <2>2, <2>3, <2>4, <2>5 DEF Transmit
<1>7. CASE Answered
  <2>1. reply \in {"filled", "cancelled", "pending"}
    BY <1>7 DEF Answered, Fates
  <2>2. StatusOf(reply) \in Statuses
    BY <2>1 DEF StatusOf, Statuses
  <2>3. QED
    BY <1>7, <2>2 DEF Answered, Fates
<1>8. CASE AnswerTransient
  BY <1>8 DEF AnswerTransient, Fates
<1>9. CASE MarkKey
  BY <1>9, BatchHead DEF MarkKey
<1>10. CASE MarkSignal
  <2>1. Signal[msg] \in Signals
    BY <1>10, BatchHead DEF MarkSignal
  <2>2. QED
    BY <1>10, <2>1 DEF MarkSignal
<1>11. CASE Report
  <2>1. key \in Keys
    BY <1>11, BatchHead DEF Report
  <2>2. [key |-> key, status |-> result] \in Fill
    BY <2>1 DEF Fill
  <2>3. QED
    BY <1>11, <2>2 DEF Report
<1>12. CASE Register
  BY <1>12, BatchHead DEF Register
<1>13. QED
  BY <1>1, <1>2, <1>3, <1>4, <1>5, <1>6, <1>7, <1>8, <1>9, <1>10, <1>11, <1>12

LEMMA TypeStep == TypeOK /\ [Next]_vars => TypeOK'
<1>1. TypeOK /\ UNCHANGED vars => TypeOK'
  BY DEF TypeOK, vars, queueVars, brokerVars, callVars, storeVars, serviceVars, msg
<1>2. TypeOK /\ Next => TypeOK'
  BY TypeAround, TypeLeave, TypeWithin
     DEF Next, EngineStep, Environment, Handle, Process, SubmitStep, PostFill
<1>3. QED
  BY <1>1, <1>2

\* Every variable keeps its type, whatever the broker, the clock and the crashes do;
\* a poll never hands over an empty batch and submit never exceeds its retries.
THEOREM TypeCorrect == Spec => []TypeOK
BY TypeInit, TypeStep, PTL DEF Spec

-----------------------------------------------------------------------------
\* The inductive invariant.  AtMostOneFill is not inductive: it does not say why the
\* thread about to call create_order may do so.  What does: between the duplicate
\* check and the mark no guard key of the message is marked, the broker shows no
\* fill when a request is sent, the answer in hand is the broker's, and what is in
\* the outbox was marked first.

InSubmit == {"reconcile", "transmit", "answer", "mark"}
AfterMark == {"markSignal", "report", "register", "ack"}

\* What the thread may rely on where it stands.
Standing ==
  /\ pc \in InSubmit => ~Seen(msg)
  /\ pc \in AfterMark => key \in processed
  /\ pc = "transmit" => book[key].pending = 0 \/ book[key].cancelled > 0

\* What the thread knows of the order in hand is what the broker has recorded.
InHand ==
  /\ pc = "transmit" /\ key \in Prompt => book[key].filled = 0
  /\ pc = "answer" /\ key \in Prompt => (reply = "filled" <=> book[key].filled = 1)
  /\ pc \in {"mark"} \cup AfterMark /\ key \in Prompt =>
       (result = "FILLED" <=> book[key].filled = 1)

AtBroker == \A k \in Prompt : book[k].pending = 0 /\ book[k].filled <= 1

InOutbox ==
  \A r \in outbox :
    /\ r.key \in processed
    /\ r.key \in Prompt => (r.status = "FILLED" <=> book[r.key].filled = 1)

MoneyInvariant == Standing /\ InHand /\ AtBroker /\ InOutbox

LEMMA MoneyInit == Init => MoneyInvariant
BY DEF Init, MoneyInvariant, Standing, InHand, AtBroker, InOutbox, InSubmit, AfterMark, Prompt

\* Steps after which no order is in hand, and steps that change nothing the
\* invariant speaks of.
LEMMA MoneyUntouched ==
  ASSUME MoneyInvariant, UNCHANGED <<processed, book, outbox>>,
         \/ pc' \notin InSubmit \cup AfterMark
         \/ UNCHANGED <<pc, batch, reply, result>>
  PROVE  MoneyInvariant'
BY DEF MoneyInvariant, Standing, InHand, AtBroker, InOutbox, InSubmit, AfterMark, msg, key,
   Seen, GuardKeys, Prompt

LEMMA MoneyLeave ==
  MoneyInvariant /\
    (\/ HandleMalformed \/ DropExpired \/ AckDuplicate \/ Park
     \/ ProcessRejects \/ ProcessFails
     \/ ReconcileRaises \/ AnswerRaises \/ WriteRaises \/ AckExecuted) => MoneyInvariant'
<1> SUFFICES ASSUME MoneyInvariant,
                    \/ HandleMalformed \/ DropExpired \/ AckDuplicate \/ Park
                    \/ ProcessRejects \/ ProcessFails
                    \/ ReconcileRaises \/ AnswerRaises \/ WriteRaises \/ AckExecuted
             PROVE  MoneyInvariant'
  OBVIOUS
<1>1. /\ NextMessage
      /\ UNCHANGED <<storeVars, brokerVars, serviceVars>>
  BY DEF HandleMalformed, DropExpired, AckDuplicate, Park, ProcessRejects,
     ProcessFails, ReconcileRaises, AnswerRaises, WriteRaises, AckExecuted, Ack, Nack
<1>2. pc' \in {"idle", "handle"}
  BY <1>1 DEF NextMessage
<1>3. QED
  BY <1>1, <1>2, MoneyUntouched DEF InSubmit, AfterMark, storeVars, brokerVars

LEMMA MoneyAround ==
  ASSUME TypeOK, MoneyInvariant
  PROVE  /\ \A m \in Messages : Publish(m) \/ Claim(m) \/ BuryOrphan(m) => MoneyInvariant'
         /\ \A k \in Keys : BrokerDecides(k) \/ BrokerCloses(k) => MoneyInvariant'
         /\ (Restart \/ StartAgain \/ IntervalEnds \/ Crash \/ Sweep
              \/ StartPoll \/ Pulled \/ PullError) => MoneyInvariant'
<1> USE DEF queueVars, brokerVars, callVars, storeVars, serviceVars
<1>1. ASSUME NEW m \in Messages, Publish(m) \/ Claim(m) \/ BuryOrphan(m)
      PROVE  MoneyInvariant'
  BY <1>1, MoneyUntouched DEF Publish, Claim, BuryOrphan, InSubmit, AfterMark
<1>2. ASSUME NEW k \in Keys, BrokerDecides(k)
      PROVE  MoneyInvariant'
  <2>1. PICK fate \in {"filled", "cancelled"} : book' = [book EXCEPT ![k] = Decided(@, fate)]
    BY <1>2 DEF BrokerDecides
  <2>2. book[k] \in Request /\ book[k].pending > 0
    BY <1>2 DEF BrokerDecides, TypeOK
  <2>3. k \notin Prompt
    BY <2>2 DEF MoneyInvariant, AtBroker
  <2>4. \A j \in Keys : j # k => book'[j] = book[j]
    BY <2>1 DEF TypeOK
  <2>5. book'[k].cancelled >= book[k].cancelled
    BY <2>1, <2>2, DecidedCounts DEF TypeOK
  <2>6. \A j \in Prompt : book'[j] = book[j]
    BY <2>3, <2>4 DEF Prompt
  <2>7. AtBroker' /\ InOutbox'
    BY <1>2, <2>6 DEF MoneyInvariant, AtBroker, InOutbox, BrokerDecides, Prompt
  <2>8. InHand'
    BY <1>2, <2>6 DEF MoneyInvariant, InHand, BrokerDecides, AfterMark, msg, key, Prompt
  <2>9. Standing'
    <3>1. ASSUME pc = "transmit"
          PROVE  book'[key].pending = 0 \/ book'[key].cancelled > 0
      <4>1. key \in Keys /\ book[key] \in Request
        BY <3>1, BatchHead DEF TypeOK, Handling
      <4>2. CASE key = k
        <5>1. book[k].cancelled > 0
          BY <2>2, <3>1, <4>2 DEF MoneyInvariant, Standing
        <5>2. Decided(book[k], fate) \in Request /\ book'[k] = Decided(book[k], fate)
          BY <2>1, <2>2, DecidedCounts DEF TypeOK
        <5>3. book[k].cancelled \in Nat /\ book'[k].cancelled \in Nat
          BY <2>2, <5>2 DEF Request
        <5>4. QED
          BY <2>5, <4>2, <5>1, <5>3
      <4>3. CASE key # k
        BY <2>4, <3>1, <4>1, <4>3 DEF MoneyInvariant, Standing
      <4>4. QED
        BY <4>2, <4>3
    <3>2. QED
      BY <1>2, <3>1 DEF MoneyInvariant, Standing, BrokerDecides, AfterMark, msg, key, Seen,
         GuardKeys
  <2>10. QED
    BY <2>7, <2>8, <2>9 DEF MoneyInvariant
<1>3. ASSUME NEW k \in Keys, BrokerCloses(k)
      PROVE  MoneyInvariant'
  BY <1>3, MoneyUntouched DEF BrokerCloses
<1>4. CASE Restart \/ StartAgain \/ IntervalEnds \/ Crash \/ StartPoll \/ Pulled \/ PullError
  BY <1>4, MoneyUntouched DEF Restart, StartAgain, IntervalEnds, Up, Crash, StartPoll, Pulled,
     PullError, InSubmit, AfterMark
<1>5. CASE Sweep
  BY <1>5, MoneyUntouched DEF Sweep
<1>6. QED
  BY <1>1, <1>2, <1>3, <1>4, <1>5

\* The request itself: the one step that can fill an order.
LEMMA MoneyTransmit ==
  ASSUME TypeOK, MoneyInvariant, Transmit
  PROVE  /\ MoneyInvariant'
         /\ key \notin processed
         /\ \A k \in Keys : k # key => book'[k] = book[k]
         /\ key \in Prompt => book[key].filled = 0
<1>1. key \in Keys /\ msg \in Messages /\ book[key] \in Request
  BY BatchHead DEF Transmit, TypeOK, Handling
<1>2. PICK fate \in FatesOf(key) : reply' = fate /\ book' = [book EXCEPT ![key] = With(@, fate)]
  BY DEF Transmit
<1>3. fate \in Fates /\ (key \in Prompt => fate # "pending")
  BY <1>1 DEF FatesOf, Prompt
<1>4. book'[key] = With(book[key], fate) /\ \A k \in Keys : k # key => book'[k] = book[k]
  BY <1>1, <1>2 DEF TypeOK
<1>5. key \notin processed /\ ~Seen(msg)
  BY DEF Transmit, MoneyInvariant, Standing, InSubmit, Seen, GuardKeys, key
<1>6. key \in Prompt => book[key].filled = 0
  BY DEF Transmit, MoneyInvariant, InHand
<1>7. /\ book'[key].filled = IF fate = "filled" THEN book[key].filled + 1 ELSE book[key].filled
      /\ book'[key].pending = IF fate = "pending" THEN book[key].pending + 1 ELSE book[key].pending
  BY <1>1, <1>3, <1>4, WithCounts
<1>8. AtBroker'
  BY <1>1, <1>3, <1>4, <1>6, <1>7 DEF MoneyInvariant, AtBroker, Prompt
<1>9. InOutbox'
  BY <1>4, <1>5 DEF Transmit, storeVars, MoneyInvariant, InOutbox, Prompt
<1>10. InHand'
  <2>1. key' = key /\ pc' = "answer"
    BY DEF Transmit, key, msg
  <2>2. QED
    BY <1>2, <1>6, <1>7, <2>1 DEF InHand, AfterMark
<1>11. Standing'
  BY <1>5 DEF Transmit, storeVars, Standing, AfterMark, Seen, GuardKeys, msg
<1>12. QED
  BY <1>4, <1>5, <1>6, <1>8, <1>9, <1>10, <1>11 DEF MoneyInvariant

\* What reaches the outbox is what the thread has in hand, of a marked order.
LEMMA MoneyReport ==
  ASSUME TypeOK, MoneyInvariant, Report
  PROVE  MoneyInvariant'
<1>1. key \in processed /\ (key \in Prompt => (result = "FILLED" <=> book[key].filled = 1))
  BY DEF Report, MoneyInvariant, Standing, InHand, AfterMark
<1>2. InOutbox'
  <2>1. ASSUME NEW r \in outbox'
        PROVE  /\ r.key \in processed
               /\ r.key \in Prompt => (r.status = "FILLED" <=> book[r.key].filled = 1)
    <3>1. CASE r \in outbox
      BY <3>1 DEF MoneyInvariant, InOutbox
    <3>2. CASE r = [key |-> key, status |-> result]
      <4>1. r.key = key /\ r.status = result
        BY <3>2
      <4>2. QED
        BY <1>1, <4>1
    <3>3. QED
      BY <2>1, <3>1, <3>2 DEF Report
  <2>2. processed' = processed /\ book' = book
    BY DEF Report, brokerVars
  <2>3. QED
    BY <2>1, <2>2 DEF InOutbox, Prompt
<1>3. QED
  BY <1>1, <1>2 DEF Report, brokerVars, callVars, MoneyInvariant, Standing, InHand, AtBroker,
     InSubmit, AfterMark, msg, key, Prompt

LEMMA MoneyWithin ==
  TypeOK /\ MoneyInvariant /\
    (\/ HandleUnreadable \/ Admit \/ Submit
     \/ ReconcileFilled \/ ReconcileAbsent \/ Transmit \/ Answered \/ AnswerTransient
     \/ MarkKey \/ MarkSignal \/ Report \/ Register) => MoneyInvariant'
<1> SUFFICES ASSUME TypeOK, MoneyInvariant,
                    \/ HandleUnreadable \/ Admit \/ Submit
                    \/ ReconcileFilled \/ ReconcileAbsent \/ Transmit \/ Answered
                    \/ AnswerTransient \/ MarkKey \/ MarkSignal \/ Report \/ Register
             PROVE  MoneyInvariant'
  OBVIOUS
<1> USE DEF queueVars, brokerVars, callVars, storeVars, serviceVars
<1>1. CASE HandleUnreadable \/ Admit
  BY <1>1, MoneyUntouched DEF HandleUnreadable, Admit, InSubmit, AfterMark
<1>2. CASE Submit
  BY <1>2 DEF Submit, MoneyInvariant, Standing, InHand, AtBroker, InOutbox, InSubmit, AfterMark,
     msg, key, Seen, GuardKeys, Prompt
<1>3. CASE ReconcileFilled
  <2>1. book[key].filled > 0
    BY <1>3 DEF ReconcileFilled, Verdict
  <2>2. key \in Keys /\ book[key] \in Request
    BY <1>3, BatchHead DEF ReconcileFilled, TypeOK, Handling
  <2>3. key \in Prompt => book[key].filled = 1
    BY <2>1, <2>2 DEF MoneyInvariant, AtBroker, Request
  <2>4. QED
    BY <1>3, <2>3 DEF ReconcileFilled, MoneyInvariant, Standing, InHand, AtBroker, InOutbox,
       InSubmit, AfterMark, msg, key, Seen, GuardKeys, Prompt
<1>4. CASE ReconcileAbsent
  <2>1. key \in Keys /\ book[key] \in Request
    BY <1>4, BatchHead DEF ReconcileAbsent, TypeOK, Handling
  <2>2. ~(book[key].filled > 0) /\ (book[key].cancelled > 0 \/ ~(book[key].pending > 0))
    BY <1>4 DEF ReconcileAbsent, Verdict
  <2>3. book[key].filled = 0 /\ (book[key].pending = 0 \/ book[key].cancelled > 0)
    BY <2>1, <2>2 DEF Request
  <2>4. QED
    BY <1>4, <2>3 DEF ReconcileAbsent, MoneyInvariant, Standing, InHand, AtBroker, InOutbox,
       InSubmit, AfterMark, msg, key, Seen, GuardKeys, Prompt
<1>5. CASE Transmit
  BY <1>5, MoneyTransmit
<1>6. CASE Answered
  <2>1. StatusOf(reply) = "FILLED" <=> reply = "filled"
    BY <1>6 DEF Answered, StatusOf, TypeOK, Fates
  <2>2. QED
    BY <1>6, <2>1 DEF Answered, MoneyInvariant, Standing, InHand, AtBroker, InOutbox,
       InSubmit, AfterMark, msg, key, Seen, GuardKeys, Prompt
<1>7. CASE AnswerTransient
  BY <1>7 DEF AnswerTransient, MoneyInvariant, Standing, InHand, AtBroker, InOutbox,
     InSubmit, AfterMark, msg, key, Seen, GuardKeys, Prompt
<1>8. CASE MarkKey
  BY <1>8 DEF MarkKey, MoneyInvariant, Standing, InHand, AtBroker, InOutbox,
     InSubmit, AfterMark, msg, key, Prompt
<1>9. CASE MarkSignal
  BY <1>9 DEF MarkSignal, MoneyInvariant, Standing, InHand, AtBroker, InOutbox,
     InSubmit, AfterMark, msg, key, Prompt
<1>10. CASE Report
  BY <1>10, MoneyReport
<1>11. CASE Register
  BY <1>11 DEF Register, MoneyInvariant, Standing, InHand, AtBroker, InOutbox,
     InSubmit, AfterMark, msg, key, Prompt
<1>12. QED
  BY <1>1, <1>2, <1>3, <1>4, <1>5, <1>6, <1>7, <1>8, <1>9, <1>10, <1>11

LEMMA MoneyStep == TypeOK /\ MoneyInvariant /\ [Next]_vars => MoneyInvariant'
<1>1. MoneyInvariant /\ UNCHANGED vars => MoneyInvariant'
  BY MoneyUntouched DEF vars, callVars, storeVars, serviceVars, brokerVars
<1>2. TypeOK /\ MoneyInvariant /\ Next => MoneyInvariant'
  BY MoneyAround, MoneyLeave, MoneyWithin
     DEF Next, EngineStep, Environment, Handle, Process, SubmitStep, PostFill
<1>3. QED
  BY <1>1, <1>2

LEMMA MoneyAlways == Spec => []MoneyInvariant
BY TypeCorrect, MoneyInit, MoneyStep, PTL DEF Spec

\* A replayed, redelivered or retried order whose requests the broker decides at
\* once is filled once at most (pipeline.process, OandaAdapter.submit).
THEOREM FilledOnce == Spec => []AtMostOneFill
<1>1. MoneyInvariant => AtMostOneFill
  BY DEF MoneyInvariant, AtBroker, AtMostOneFill
<1>2. QED
  BY <1>1, MoneyAlways, PTL

\* Every confirmation in the outbox says what happened at the broker, and stays true
\* (_emit_fill, FillProducer.publish_fill).
THEOREM Truthful == Spec => []TruthfulReport
<1>1. TypeOK /\ MoneyInvariant => TruthfulReport
  <2> SUFFICES ASSUME TypeOK, MoneyInvariant, NEW r \in outbox, r.key \in Prompt
               PROVE  r.status = "FILLED" <=> book[r.key].filled > 0
    BY DEF TruthfulReport
  <2>1. r.status = "FILLED" <=> book[r.key].filled = 1
    BY DEF MoneyInvariant, InOutbox
  <2>2. book[r.key].filled \in Nat /\ book[r.key].filled <= 1
    BY DEF MoneyInvariant, AtBroker, TypeOK, Request, Prompt
  <2>3. QED
    BY <2>1, <2>2
<1>2. QED
  BY <1>1, TypeCorrect, MoneyAlways, PTL

\* Once an order or its signal is marked, submit sends no request for it (the guard
\* keys of process, read before the broker is).
THEOREM NotSentOnceMarked == Spec => NeverSentOnceMarked
<1>1. TypeOK /\ MoneyInvariant =>
        (pc = "transmit" /\ pc' = "answer" => {key, Signal[msg]} \cap processed = {})
  <2> SUFFICES ASSUME TypeOK, MoneyInvariant, pc = "transmit"
               PROVE  {key, Signal[msg]} \cap processed = {}
    OBVIOUS
  <2>1. GuardKeys(msg) \cap processed = {}
    BY DEF MoneyInvariant, Standing, InSubmit, Seen
  <2>2. NoSignal \notin processed
    BY OrderAssumption DEF TypeOK
  <2>3. QED
    BY <2>1, <2>2 DEF GuardKeys, key
<1>2. QED
  BY <1>1, TypeCorrect, MoneyAlways, PTL DEF NeverSentOnceMarked

\* A request whose outcome the broker still owes is not followed by another one,
\* unless an earlier one was cancelled (submit, PRIOR_PENDING).
THEOREM NoSecondRequest == Spec => NoSecondWhilePending
<1>1. MoneyInvariant =>
        (pc = "transmit" /\ pc' = "answer" => book[key].pending = 0 \/ book[key].cancelled > 0)
  BY DEF MoneyInvariant, Standing
<1>2. QED
  BY <1>1, MoneyAlways, PTL DEF NoSecondWhilePending

-----------------------------------------------------------------------------
\* Where unreported fills go.  What FillAccounted needs beside the money invariant:
\* a fill belongs to a published order, and what _handle returned for a message
\* tells what it left behind.

\* What a returned outcome vouches for.
Vouched(m) ==
  /\ outcome[m] = "executed" => Reported(Key[m])
  /\ outcome[m] = "duplicate" => Seen(m)
  /\ outcome[m] = "shadow" => Shadow

AccountInvariant ==
  /\ \A m \in Messages : Vouched(m)
  /\ \A i \in DOMAIN batch : phase[batch[i]] # "unsent"
  /\ \A k \in Prompt :
       book[k].filled > 0 => \E m \in Messages : Key[m] = k /\ phase[m] # "unsent"
  /\ pc \in {"register", "ack"} => Reported(key)
  /\ Shadow => /\ pc \notin InSubmit \cup AfterMark
               /\ \A k \in Prompt : book[k].filled = 0

LEMMA AccountInit == Init => AccountInvariant
BY DEF Init, Queue!Init, AccountInvariant, Vouched, InSubmit, AfterMark, Prompt

\* The steps that leave the message in hand, and what each vouches for.
Leaving == \/ HandleMalformed \/ DropExpired \/ AckDuplicate \/ Park
           \/ ProcessRejects \/ ProcessFails
           \/ ReconcileRaises \/ AnswerRaises \/ WriteRaises \/ AckExecuted

LEMMA LeavingOutcome ==
  ASSUME TypeOK, AccountInvariant, Leaving
  PROVE  /\ pc \in Handling /\ pc' \in {"idle", "handle"}
         /\ batch' = Tail(batch)
         /\ UNCHANGED <<storeVars, brokerVars>>
         /\ \E how \in Outcomes :
              /\ outcome' = [outcome EXCEPT ![msg] = how]
              /\ how = "executed" => Reported(key)
              /\ how = "duplicate" => Seen(msg)
              /\ how = "shadow" => Shadow
<1>1. /\ pc \in Handling
      /\ NextMessage
      /\ UNCHANGED <<storeVars, brokerVars>>
  BY DEF Leaving, HandleMalformed, DropExpired, AckDuplicate, Park,
     ProcessRejects, ProcessFails, ReconcileRaises, AnswerRaises, WriteRaises, AckExecuted,
     ToBeHandled, Handling, Ack, Nack
<1>2. \E how \in Outcomes :
        /\ Ack(how) \/ Nack(how)
        /\ how = "executed" => pc = "ack"
        /\ how = "duplicate" => Seen(msg)
        /\ how = "shadow" => Shadow
  BY DEF Leaving, HandleMalformed, DropExpired, AckDuplicate, Park,
     ProcessRejects, ProcessFails, ReconcileRaises, AnswerRaises, WriteRaises, AckExecuted,
     Outcomes
<1>3. \A how : Ack(how) \/ Nack(how) => outcome' = [outcome EXCEPT ![msg] = how]
  BY DEF Ack, Nack
<1>4. pc = "ack" => Reported(key)
  BY DEF AccountInvariant
<1>5. QED
  BY <1>1, <1>2, <1>3, <1>4 DEF NextMessage

\* Nothing that was published, marked or reported is forgotten.
LEMMA NothingForgotten ==
  ASSUME TypeOK, [Next]_vars
  PROVE  /\ processed \subseteq processed' /\ outbox \subseteq outbox'
         /\ \A m \in Messages : phase[m] # "unsent" => phase'[m] # "unsent"
         /\ \A m : (Seen(m) => Seen(m)') /\ \A k : (Reported(k) => Reported(k)')
<1>1. processed \subseteq processed' /\ outbox \subseteq outbox'
  BY DEF Next, vars, EngineStep, Environment, Handle, Process, SubmitStep, PostFill,
     queueVars, brokerVars, callVars, storeVars, serviceVars, Publish, BrokerDecides, BrokerCloses,
     Restart, StartAgain, IntervalEnds, Up,
     Crash, Sweep, StartPoll, BuryOrphan, Claim, Pulled, PullError, HandleMalformed,
     DropExpired, HandleUnreadable, AckDuplicate, Park, Admit,
     ProcessRejects, ProcessFails, Submit, ReconcileFilled, ReconcileRaises, ReconcileAbsent,
     Transmit, Answered, AnswerTransient, AnswerRaises, MarkKey, MarkSignal, Report, Register,
     WriteRaises, AckExecuted
<1>2. \A m \in Messages : phase[m] # "unsent" => phase'[m] # "unsent"
  <2>1. UNCHANGED phase \/ \E m \in Messages : Queue!Send(m) \/ Queue!Settle(m)
    <3>1. Leaving => UNCHANGED phase \/ Queue!Settle(msg)
      BY DEF Leaving, HandleMalformed, DropExpired, AckDuplicate, Park,
         ProcessRejects, ProcessFails, ReconcileRaises, AnswerRaises, WriteRaises, AckExecuted,
         Ack, Nack
    <3>2. Leaving => msg \in Messages
      <4>1. Leaving => pc \in Handling
        BY DEF Leaving, HandleMalformed, DropExpired, AckDuplicate, Park,
           ProcessRejects, ProcessFails, ReconcileRaises, AnswerRaises, WriteRaises, AckExecuted,
           ToBeHandled, Handling
      <4>2. QED
        BY <4>1, BatchHead DEF TypeOK
    <3>3. Leaving => UNCHANGED phase \/ \E m \in Messages : Queue!Settle(m)
      <4>1. SUFFICES ASSUME Leaving, Queue!Settle(msg)
                     PROVE  \E m \in Messages : Queue!Settle(m)
        BY <3>1
      <4>2. PICK m \in Messages : m = msg
        BY <3>2, <4>1
      <4>3. QED
        BY <4>1, <4>2
    <3>4. Leaving \/ UNCHANGED phase \/ \E m \in Messages : Publish(m) \/ BuryOrphan(m)
      BY DEF Next, vars, EngineStep, Environment, Handle, Process, SubmitStep, PostFill,
         queueVars, brokerVars, callVars, storeVars, serviceVars, BrokerDecides, BrokerCloses,
         Restart, StartAgain, IntervalEnds, Up,
         Crash, Sweep, StartPoll, Claim, Queue!Deliver, Pulled, PullError, HandleUnreadable,
         Admit, Submit, ReconcileFilled, ReconcileAbsent, Transmit, Answered, AnswerTransient,
         MarkKey, MarkSignal, Report, Register, Leaving
    <3>5. QED
      BY <3>3, <3>4 DEF Publish, BuryOrphan
  <2>2. QED
    BY <2>1 DEF Queue!Send, Queue!Settle, TypeOK
<1>3. QED
  BY <1>1, <1>2 DEF Seen, Reported

\* Only the broker and Report change what the promise is about.
LEMMA PromiseSteps ==
  [Next]_vars => \/ UNCHANGED <<book, outbox>>
                 \/ \E k \in Keys : BrokerDecides(k)
                 \/ Transmit
                 \/ Report
BY DEF Next, vars, EngineStep, Environment, Handle, Process, SubmitStep, PostFill,
   queueVars, brokerVars, callVars, storeVars, serviceVars, Publish, BrokerCloses,
   Restart, StartAgain, IntervalEnds, Up, Crash, Sweep,
   StartPoll, BuryOrphan, Claim, Pulled, PullError, HandleMalformed, DropExpired,
   HandleUnreadable, AckDuplicate, Park, Admit, ProcessRejects, ProcessFails,
   Submit, ReconcileFilled, ReconcileRaises, ReconcileAbsent, Answered, AnswerTransient,
   AnswerRaises, MarkKey, MarkSignal, Register, WriteRaises, AckExecuted

LEMMA NextCases ==
  [Next]_vars =>
    \/ Leaving
    \/ UNCHANGED outcome /\ \/ UNCHANGED batch
                            \/ batch' = <<>>
                            \/ \E m \in Messages : Claim(m)
BY DEF Next, vars, EngineStep, Environment, Handle, Process, SubmitStep, PostFill,
   queueVars, brokerVars, callVars, storeVars, serviceVars, Publish, BrokerDecides, BrokerCloses,
   Restart, StartAgain, IntervalEnds, Up,
   Crash, Sweep, StartPoll, BuryOrphan, Pulled, PullError, HandleUnreadable, Admit, Submit,
   ReconcileFilled, ReconcileAbsent, Transmit, Answered, AnswerTransient, MarkKey, MarkSignal,
   Report, Register, Claim, Leaving

LEMMA VouchedStep ==
  ASSUME TypeOK, AccountInvariant, [Next]_vars, NEW m \in Messages
  PROVE  Vouched(m)'
<1>1. /\ Vouched(m)
      /\ Seen(m) => Seen(m)'
      /\ \A k : (Reported(k) => Reported(k)')
  BY NothingForgotten DEF AccountInvariant
<1>2. CASE UNCHANGED outcome
  BY <1>1, <1>2 DEF Vouched
<1>3. CASE Leaving
  <2>1. PICK how \in Outcomes :
          /\ outcome' = [outcome EXCEPT ![msg] = how]
          /\ how = "executed" => Reported(key)
          /\ how = "duplicate" => Seen(msg)
          /\ how = "shadow" => Shadow
    BY <1>3, LeavingOutcome
  <2>2. CASE m = msg
    <3>1. outcome'[m] = how
      BY <2>1, <2>2 DEF TypeOK
    <3>2. how = "executed" => Reported(Key[m])'
      BY <1>1, <2>1, <2>2 DEF key
    <3>3. how = "duplicate" => Seen(m)'
      BY <1>1, <2>1, <2>2
    <3>4. QED
      BY <2>1, <3>1, <3>2, <3>3 DEF Vouched
  <2>3. CASE m # msg
    BY <1>1, <2>1, <2>3 DEF Vouched, TypeOK
  <2>4. QED
    BY <2>2, <2>3
<1>4. QED
  BY <1>2, <1>3, NextCases

LEMMA BatchStep ==
  ASSUME TypeOK, AccountInvariant, [Next]_vars
  PROVE  \A i \in DOMAIN batch' : phase'[batch'[i]] # "unsent"
<1>1. /\ \A i \in DOMAIN batch : batch[i] \in Messages /\ phase[batch[i]] # "unsent"
      /\ \A m \in Messages : phase[m] # "unsent" => phase'[m] # "unsent"
  BY NothingForgotten DEF AccountInvariant, TypeOK
<1>2. CASE UNCHANGED batch
  BY <1>1, <1>2
<1>3. CASE batch' = <<>>
  BY <1>3
<1>4. ASSUME NEW m \in Messages, Claim(m)
      PROVE  \A i \in DOMAIN batch' : phase'[batch'[i]] # "unsent"
  <2>1. batch' = Append(batch, m) /\ phase[m] # "unsent"
    BY <1>4 DEF Claim, Queue!Deliver
  <2>2. \A i \in DOMAIN batch' : batch'[i] = m \/ (i \in DOMAIN batch /\ batch'[i] = batch[i])
    BY <2>1 DEF TypeOK
  <2>3. QED
    BY <1>1, <2>1, <2>2
<1>5. CASE Leaving
  <2>1. batch' = Tail(batch) /\ batch # <<>>
    BY <1>5, LeavingOutcome DEF TypeOK
  <2>2. \A i \in DOMAIN batch' : i + 1 \in DOMAIN batch /\ batch'[i] = batch[i + 1]
    BY <2>1 DEF TypeOK
  <2>3. QED
    BY <1>1, <2>2
<1>6. QED
  BY <1>2, <1>3, <1>4, <1>5, NextCases

LEMMA FillStep ==
  ASSUME TypeOK, MoneyInvariant, AccountInvariant, [Next]_vars,
         NEW k \in Prompt, book'[k].filled > 0
  PROVE  \E m \in Messages : Key[m] = k /\ phase'[m] # "unsent"
<1>1. \A m \in Messages : phase[m] # "unsent" => phase'[m] # "unsent"
  BY NothingForgotten
<1>2. CASE book'[k] = book[k]
  BY <1>1, <1>2 DEF AccountInvariant
<1>3. CASE Transmit
  <2>1. CASE k = key
    <3>1. 1 \in DOMAIN batch /\ msg = batch[1] /\ msg \in Messages
      BY <1>3, BatchHead DEF Transmit, TypeOK, Handling, msg
    <3>2. QED
      BY <1>1, <2>1, <3>1 DEF AccountInvariant, key
  <2>2. CASE k # key
    BY <1>2, <1>3, <2>2, MoneyTransmit DEF Prompt
  <2>3. QED
    BY <2>1, <2>2
<1>4. ASSUME NEW j \in Keys, BrokerDecides(j)
      PROVE  book'[k] = book[k]
  <2>1. book[j] \in Request /\ book[j].pending > 0
    BY <1>4 DEF BrokerDecides, TypeOK
  <2>2. j # k
    BY <2>1 DEF MoneyInvariant, AtBroker
  <2>3. QED
    BY <1>4, <2>2 DEF BrokerDecides, TypeOK, Prompt
<1>5. CASE Report
  BY <1>2, <1>5 DEF Report, brokerVars
<1>6. QED
  BY <1>2, <1>3, <1>4, <1>5, PromiseSteps

LEMMA ReportedStep ==
  ASSUME TypeOK, AccountInvariant, [Next]_vars, pc' \in {"register", "ack"}
  PROVE  Reported(key)'
<1>1. CASE Report
  <2>1. [key |-> key, status |-> result] \in outbox' /\ key' = key
    BY <1>1 DEF Report, key, msg
  <2>2. [key |-> key, status |-> result].key = key
    OBVIOUS
  <2>3. QED
    BY <2>1, <2>2 DEF Reported
<1>2. CASE pc \in {"register", "ack"} /\ UNCHANGED batch
  <2>1. Reported(key)
    BY <1>2 DEF AccountInvariant
  <2>2. \A k : (Reported(k) => Reported(k)')
    BY NothingForgotten
  <2>3. key' = key
    BY <1>2 DEF key, msg
  <2>4. outbox \subseteq outbox'
    BY NothingForgotten
  <2>5. QED
    BY <2>1, <2>3, <2>4 DEF Reported
<1>3. Report \/ (pc \in {"register", "ack"} /\ UNCHANGED batch)
  <2>1. ~Leaving
    BY LeavingOutcome
  <2>2. QED
    BY <2>1 DEF Next, vars, EngineStep, Environment, Handle, Process, SubmitStep, PostFill,
       queueVars, brokerVars, callVars, storeVars, serviceVars, Publish, BrokerDecides, BrokerCloses,
       Restart, StartAgain, IntervalEnds, Up, Crash, Sweep, StartPoll,
       BuryOrphan, Pulled, PullError, HandleUnreadable,
       Admit, Submit, ReconcileFilled, ReconcileAbsent, Transmit, Answered, AnswerTransient,
       MarkKey, MarkSignal, Register, Claim, Leaving
<1>4. QED
  BY <1>1, <1>2, <1>3

LEMMA ShadowStep ==
  ASSUME TypeOK, MoneyInvariant, AccountInvariant, [Next]_vars, Shadow
  PROVE  /\ pc' \notin InSubmit \cup AfterMark
         /\ \A k \in Prompt : book'[k].filled = 0
<1>1. pc \notin InSubmit \cup AfterMark /\ \A k \in Prompt : book[k].filled = 0
  BY DEF AccountInvariant
<1>2. pc' \notin InSubmit \cup AfterMark
  <2>1. CASE Leaving
    BY <2>1, LeavingOutcome DEF InSubmit, AfterMark
  <2>2. CASE ~Leaving
    BY <1>1, <2>2 DEF Next, vars, EngineStep, Environment, Handle, Process, SubmitStep, PostFill,
       queueVars, brokerVars, callVars, storeVars, serviceVars, Publish, BrokerDecides, BrokerCloses,
       Restart, StartAgain, IntervalEnds, Up, Crash, Sweep, StartPoll,
       BuryOrphan, Pulled, PullError, HandleUnreadable,
       Admit, Submit, ReconcileFilled, ReconcileAbsent, Transmit, Answered, AnswerTransient,
       MarkKey, MarkSignal, Report, Register, Claim, Leaving, InSubmit, AfterMark, Stopped
  <2>3. QED
    BY <2>1, <2>2
<1>3. ASSUME NEW j \in Keys, BrokerDecides(j), NEW k \in Prompt
      PROVE  book'[k] = book[k]
  <2>1. book[j] \in Request /\ book[j].pending > 0
    BY <1>3 DEF BrokerDecides, TypeOK
  <2>2. j # k
    BY <2>1 DEF MoneyInvariant, AtBroker
  <2>3. QED
    BY <1>3, <2>2 DEF BrokerDecides, TypeOK, Prompt
<1>4. QED
  BY <1>1, <1>2, <1>3, PromiseSteps DEF Transmit, Report, brokerVars, InSubmit, AfterMark

\* An unreported fill is accounted for by what the queue and the processed store
\* still hold of its order (poll_once, _handle and process).
THEOREM UnreportedAccounted == Spec => []FillAccounted
<1>1. TypeOK /\ MoneyInvariant /\ AccountInvariant /\ [Next]_vars => AccountInvariant'
  BY VouchedStep, BatchStep, FillStep, ReportedStep, ShadowStep DEF AccountInvariant, Prompt
<1>2. TypeOK /\ AccountInvariant => FillAccounted
  <2> SUFFICES ASSUME TypeOK, AccountInvariant, NEW k \in Prompt,
                      book[k].filled > 0, ~Reported(k)
               PROVE  \E m \in Messages :
                        /\ Key[m] = k
                        /\ \/ phase[m] = "pending"
                           \/ outcome[m] = "duplicate" /\ Seen(m)
                           \/ outcome[m] \notin {"executed", "duplicate", "shadow"}
    BY DEF FillAccounted
  <2>1. PICK m \in Messages : Key[m] = k /\ phase[m] # "unsent"
    BY DEF AccountInvariant
  <2>2. Vouched(m)
    BY DEF AccountInvariant
  <2>3. ~Shadow
    BY DEF AccountInvariant
  <2>4. QED
    BY <2>1, <2>2, <2>3 DEF Vouched
<1>3. QED
  BY <1>1, <1>2, AccountInit, TypeCorrect, MoneyAlways, PTL DEF Spec

-----------------------------------------------------------------------------
\* The refinement of AtMostOnce.

\* The outbox holds the answer to what was told.
LEMMA ToldMeaning ==
  ASSUME TypeOK, MoneyInvariant, NEW k \in Prompt
  PROVE  /\ Told(k) = "nothing" <=> ~Reported(k)
         /\ k \notin processed => Told(k) = "nothing"
         /\ Told(k) = "filled" => book[k].filled = 1
         /\ Told(k) = "refused" => book[k].filled # 1
<1>1. [key |-> k, status |-> "FILLED"] \in outbox => Reported(k)
  BY DEF Reported
<1>2. Reported(k) => k \in processed
  BY DEF Reported, MoneyInvariant, InOutbox
<1>3. [key |-> k, status |-> "FILLED"] \in outbox => book[k].filled = 1
  BY DEF MoneyInvariant, InOutbox
<1>4. ASSUME Reported(k), [key |-> k, status |-> "FILLED"] \notin outbox
      PROVE  book[k].filled # 1
  <2>1. PICK r \in outbox : r.key = k
    BY <1>4 DEF Reported
  <2>2. r = [key |-> k, status |-> r.status]
    BY <2>1 DEF TypeOK, Fill
  <2>3. r.status # "FILLED"
    BY <1>4, <2>1, <2>2
  <2>4. QED
    BY <2>1, <2>3 DEF MoneyInvariant, InOutbox
<1>5. QED
  BY <1>1, <1>2, <1>3, <1>4 DEF Told

\* An order is filled once at most, what is told of it is true, and nothing is told
\* twice: every step of the money path is one of the promise, or invisible in it.
THEOREM RefinesAtMostOnce == Spec => ImplementsAtMostOnce
<1> DEFINE fills == [k \in Prompt |-> book[k].filled]
           told == [k \in Prompt |-> Told(k)]
<1>1. Init => Promise!Init
  BY DEF Init, Promise!Init, Told, Reported, Prompt
<1>2. TypeOK /\ MoneyInvariant /\ [Next]_vars => [Promise!Next]_(Promise!vars)
  <2> SUFFICES ASSUME TypeOK, MoneyInvariant, [Next]_vars
               PROVE  Promise!Next \/ (fills' = fills /\ told' = told)
    BY DEF Promise!vars
  <2>1. CASE UNCHANGED <<book, outbox>>
    BY <2>1 DEF Told, Reported, Prompt
  <2>2. ASSUME NEW k \in Keys, BrokerDecides(k)
        PROVE  fills' = fills /\ told' = told
    <3>1. book[k].pending > 0 /\ book[k] \in Request
      BY <2>2 DEF BrokerDecides, TypeOK
    <3>2. k \notin Prompt
      BY <3>1 DEF MoneyInvariant, AtBroker
    <3>3. \A j \in Prompt : book'[j] = book[j]
      BY <2>2, <3>2 DEF BrokerDecides, Prompt, TypeOK
    <3>4. QED
      BY <2>2, <3>3 DEF BrokerDecides, storeVars, Told, Reported, Prompt
  <2>3. CASE Transmit
    <3>1. outbox' = outbox
      BY <2>3 DEF Transmit, storeVars
    <3>2. told' = told
      BY <3>1 DEF Told, Reported, Prompt
    <3>3. CASE key \notin Prompt
      <4>1. \A j \in Prompt : book'[j] = book[j]
        BY <2>3, <3>3, MoneyTransmit DEF Prompt
      <4>2. QED
        BY <3>2, <4>1 DEF Prompt
    <3>4. CASE key \in Prompt
      <4>1. /\ key \notin processed /\ book[key].filled = 0
            /\ \A j \in Prompt : j # key => book'[j] = book[j]
        BY <2>3, <3>4, MoneyTransmit DEF Prompt
      <4>2. book'[key].filled \in {0, 1}
        <5>1. AtBroker' /\ TypeOK'
          BY <2>3, MoneyTransmit, TypeStep DEF MoneyInvariant
        <5>2. book'[key].filled \in Nat /\ book'[key].filled <= 1
          BY <3>4, <5>1 DEF AtBroker, TypeOK, Request, Prompt
        <5>3. QED
          BY <5>2
      <4>3. fills[key] = 0 /\ told[key] = "nothing"
        BY <3>4, <4>1, ToldMeaning
      <4>4. CASE book'[key].filled = 0
        BY <3>2, <4>1, <4>4 DEF Prompt
      <4>5. CASE book'[key].filled = 1
        <5>1. fills' = [fills EXCEPT ![key] = 1]
          BY <3>4, <4>1, <4>5 DEF Prompt
        <5>2. PICK k \in Prompt : k = key
          BY <3>4
        <5>3. Promise!Fill(k)
          BY <3>2, <4>3, <5>1, <5>2 DEF Promise!Fill
        <5>4. QED
          BY <5>3 DEF Promise!Next
      <4>6. QED
        BY <4>2, <4>4, <4>5
    <3>5. QED
      BY <3>3, <3>4
  <2>4. CASE Report
    <3>1. /\ outbox' = outbox \cup {[key |-> key, status |-> result]}
          /\ book' = book
          /\ key \in Keys
      BY <2>4, BatchHead DEF Report, brokerVars, TypeOK, Handling
    <3>2. fills' = fills
      BY <3>1 DEF Prompt
    <3>3. \A k \in Prompt : k # key => told'[k] = told[k]
      BY <3>1 DEF Told, Reported, Prompt
    <3>4. CASE key \notin Prompt
      <4>1. \A k \in Prompt : told'[k] = told[k]
        BY <3>3, <3>4
      <4>2. QED
        BY <3>2, <4>1
    <3>5. CASE key \in Prompt
      <4>1. result = "FILLED" <=> fills[key] = 1
        BY <2>4, <3>5 DEF Report, MoneyInvariant, InHand, AfterMark
      <4>2. told'[key] = IF fills[key] = 1 THEN "filled" ELSE "refused"
        <5>1. TypeOK' /\ MoneyInvariant' /\ Reported(key)' /\ key' = key
          <6>1. key' = key
            BY <2>4 DEF Report, key, msg
          <6>2. \E r \in outbox' : r.key = key
            <7>1. [key |-> key, status |-> result] \in outbox'
              BY <3>1
            <7>2. [key |-> key, status |-> result].key = key
              OBVIOUS
            <7>3. QED
              BY <7>1, <7>2
          <6>3. Reported(key)'
            BY <6>1, <6>2 DEF Reported
          <6>4. QED
            BY <2>4, <6>1, <6>3, MoneyReport, TypeStep
        <5>2. CASE result = "FILLED"
          BY <3>1, <3>5, <4>1, <5>1, <5>2 DEF Told
        <5>3. CASE result # "FILLED"
          <6>1. [key |-> key, status |-> "FILLED"] \notin outbox
            BY <3>5, <4>1, <5>3 DEF MoneyInvariant, InOutbox
          <6>2. [key |-> key, status |-> "FILLED"] \notin outbox'
            BY <3>1, <5>3, <6>1
          <6>3. QED
            BY <3>5, <4>1, <5>1, <5>3, <6>2 DEF Told
        <5>4. QED
          BY <5>2, <5>3
      <4>3. CASE told[key] = "nothing"
        <5>1. told' = [told EXCEPT ![key] = IF fills[key] = 1 THEN "filled" ELSE "refused"]
          BY <3>3, <3>5, <4>2
        <5>2. PICK k \in Prompt : k = key
          BY <3>5
        <5>3. Promise!Tell(k)
          BY <3>2, <4>3, <5>1, <5>2 DEF Promise!Tell
        <5>4. QED
          BY <5>3 DEF Promise!Next
      <4>4. CASE told[key] # "nothing"
        <5>1. told[key] = IF fills[key] = 1 THEN "filled" ELSE "refused"
          BY <3>5, <4>4, ToldMeaning DEF Told
        <5>2. \A k \in Prompt : told'[k] = told[k]
          BY <3>3, <4>2, <5>1
        <5>3. QED
          BY <3>2, <5>2
      <4>5. QED
        BY <4>3, <4>4
    <3>6. QED
      BY <3>4, <3>5
  <2>5. QED
    BY <2>1, <2>2, <2>3, <2>4, PromiseSteps
<1>3. QED
  BY <1>1, <1>2, TypeCorrect, MoneyAlways, PTL DEF Spec, ImplementsAtMostOnce, Promise!Spec

-----------------------------------------------------------------------------
\* The queue behind the path.

\* What the poll pulled and has not handled is still owed a settlement, and no message
\* is pulled twice into a batch.
BatchOwed ==
  /\ \A i \in DOMAIN batch : phase[batch[i]] = "pending" /\ delivered[batch[i]] > 0
  /\ \A i, j \in DOMAIN batch : i < j => batch[i] < batch[j]

\* The four ways a step touches the queue or the batch.
LEMMA QueueMoves ==
  ASSUME TypeOK, [Next]_vars
  PROVE  \/ /\ msg \in Messages /\ batch # <<>> /\ batch' = Tail(batch)
            /\ UNCHANGED delivered /\ (UNCHANGED phase \/ Queue!Settle(msg))
         \/ UNCHANGED <<phase, delivered>> /\ (batch' = batch \/ batch' = <<>>)
         \/ \E m \in Messages : Publish(m) \/ BuryOrphan(m)
         \/ \E m \in Messages : Claim(m)
<1>1. CASE Leaving
  <2>1. pc \in Handling /\ NextMessage
    BY <1>1 DEF Leaving, HandleMalformed, DropExpired, AckDuplicate, Park, ProcessRejects,
       ProcessFails, ReconcileRaises, AnswerRaises, WriteRaises, AckExecuted, ToBeHandled,
       Handling, Ack, Nack
  <2>2. UNCHANGED <<phase, delivered>> \/ Queue!Settle(msg)
    BY <1>1 DEF Leaving, HandleMalformed, DropExpired, AckDuplicate, Park, ProcessRejects,
       ProcessFails, ReconcileRaises, AnswerRaises, WriteRaises, AckExecuted, Ack, Nack
  <2>3. batch # <<>> /\ msg \in Messages
    BY <2>1, BatchHead DEF TypeOK
  <2> QED
    BY <2>1, <2>2, <2>3 DEF NextMessage, Queue!Settle
<1>2. CASE ~Leaving
  BY <1>2 DEF Next, vars, EngineStep, Environment, Handle, Process, SubmitStep, PostFill,
     queueVars, brokerVars, callVars, storeVars, serviceVars, BrokerDecides, BrokerCloses,
     Restart, StartAgain, IntervalEnds, Up,
     Crash, Sweep, StartPoll, Pulled, PullError, HandleUnreadable, Admit, Submit,
     ReconcileFilled, ReconcileAbsent, Transmit, Answered, AnswerTransient, MarkKey, MarkSignal,
     Report, Register, Leaving
<1> QED
  BY <1>1, <1>2

LEMMA OwedStep == TypeOK /\ BatchOwed /\ [Next]_vars => BatchOwed'
<1> SUFFICES ASSUME TypeOK, BatchOwed, [Next]_vars PROVE BatchOwed'
  OBVIOUS
<1>1. /\ batch \in Seq(Messages) /\ Messages \subseteq Nat
      /\ phase \in [Messages -> {"unsent", "pending", "settled"}]
      /\ delivered \in [Messages -> Nat]
  BY OrderAssumption DEF TypeOK, Messages
<1>2. CASE /\ msg \in Messages /\ batch # <<>> /\ batch' = Tail(batch)
           /\ UNCHANGED delivered /\ (UNCHANGED phase \/ Queue!Settle(msg))
  <2>1. \A i \in DOMAIN batch' : i + 1 \in DOMAIN batch /\ batch'[i] = batch[i + 1] /\ i \in Nat \ {0}
    BY <1>1, <1>2
  <2>2. 1 \in DOMAIN batch /\ msg = batch[1]
    BY <1>1, <1>2 DEF msg
  <2>3. \A i \in DOMAIN batch' : batch'[i] \in Messages /\ batch'[i] # msg
    <3> SUFFICES ASSUME NEW i \in DOMAIN batch' PROVE batch'[i] \in Messages /\ batch'[i] # msg
      OBVIOUS
    <3>1. batch[1] < batch[i + 1] /\ batch[1] \in Nat /\ batch[i + 1] \in Messages
      BY <1>1, <2>1, <2>2 DEF BatchOwed
    <3> QED
      BY <1>1, <2>1, <2>2, <3>1
  <2>4. \A m \in Messages : m # msg => phase'[m] = phase[m]
    BY <1>1, <1>2 DEF Queue!Settle
  <2>5. \A i \in DOMAIN batch' : phase'[batch'[i]] = "pending" /\ delivered'[batch'[i]] > 0
    BY <1>2, <2>1, <2>3, <2>4 DEF BatchOwed
  <2>6. \A i, j \in DOMAIN batch' : i < j => batch'[i] < batch'[j]
    BY <2>1 DEF BatchOwed
  <2> QED
    BY <2>5, <2>6 DEF BatchOwed
<1>3. CASE UNCHANGED <<phase, delivered>> /\ (batch' = batch \/ batch' = <<>>)
  BY <1>3 DEF BatchOwed
<1>4. ASSUME NEW m \in Messages, Publish(m) \/ BuryOrphan(m) PROVE BatchOwed'
  <2>1. batch' = batch /\ delivered' = delivered
    BY <1>4 DEF Publish, BuryOrphan, Queue!Send, Queue!Settle
  <2>2. \A i \in DOMAIN batch : batch[i] # m /\ batch[i] \in Messages
    BY <1>1, <1>4 DEF Publish, BuryOrphan, Queue!Send, BatchOwed
  <2>3. \A n \in Messages : n # m => phase'[n] = phase[n]
    BY <1>1, <1>4 DEF Publish, BuryOrphan, Queue!Send, Queue!Settle
  <2> QED
    BY <2>1, <2>2, <2>3 DEF BatchOwed
<1>5. ASSUME NEW m \in Messages, Claim(m) PROVE BatchOwed'
  <2>1. /\ batch' = Append(batch, m) /\ phase' = phase /\ phase[m] = "pending"
        /\ delivered' = [delivered EXCEPT ![m] = @ + 1]
        /\ \A i \in DOMAIN batch : batch[i] < m
    BY <1>5 DEF Claim, Queue!Deliver
  <2>2. /\ DOMAIN batch' = 1..(Len(batch) + 1) /\ DOMAIN batch = 1..Len(batch) /\ Len(batch) \in Nat
        /\ batch'[Len(batch) + 1] = m
        /\ \A i \in DOMAIN batch : batch'[i] = batch[i]
    BY <1>1, <2>1
  <2>3. delivered'[m] > 0 /\ \A n \in Messages : n # m => delivered'[n] = delivered[n]
    BY <1>1, <2>1
  <2>4. \A i \in DOMAIN batch : batch[i] \in Messages /\ phase'[batch[i]] = "pending" /\ delivered'[batch[i]] > 0
    <3> SUFFICES ASSUME NEW i \in DOMAIN batch
                 PROVE  batch[i] \in Messages /\ phase'[batch[i]] = "pending" /\ delivered'[batch[i]] > 0
      OBVIOUS
    <3>1. batch[i] \in Messages
      BY <1>1
    <3> QED
      BY <2>1, <2>3, <3>1 DEF BatchOwed
  <2>5. \A i \in DOMAIN batch' : phase'[batch'[i]] = "pending" /\ delivered'[batch'[i]] > 0
    <3> SUFFICES ASSUME NEW i \in DOMAIN batch'
                 PROVE  phase'[batch'[i]] = "pending" /\ delivered'[batch'[i]] > 0
      OBVIOUS
    <3>1. i = Len(batch) + 1 \/ i \in DOMAIN batch
      BY <2>2
    <3> QED
      BY <2>1, <2>2, <2>3, <2>4, <3>1
  <2>6. \A i, j \in DOMAIN batch' : i < j => batch'[i] < batch'[j]
    <3> SUFFICES ASSUME NEW i \in DOMAIN batch', NEW j \in DOMAIN batch', i < j
                 PROVE  batch'[i] < batch'[j]
      OBVIOUS
    <3>1. i \in DOMAIN batch /\ (j = Len(batch) + 1 \/ j \in DOMAIN batch)
      BY <2>2
    <3> QED
      BY <2>1, <2>2, <3>1 DEF BatchOwed
  <2> QED
    BY <2>5, <2>6 DEF BatchOwed
<1> QED
  BY <1>2, <1>3, <1>4, <1>5, QueueMoves

\* poll_once hands _handle only messages that the queue still waits for, each once: no
\* ack, nack or to_dlq of the path is about a message settled meanwhile.
THEOREM InHandIsOwed == Spec => []BatchOwed
<1>1. Init => BatchOwed
  BY DEF Init, BatchOwed
<1> QED
  BY <1>1, OwedStep, TypeCorrect, PTL DEF Spec

\* The path uses the queue by its contract alone: what DurableQueue is proved to
\* implement is all that the money path sees of it.
THEOREM QueueUsedByContract == Spec => Queue!Init /\ [][Queue!Next]_(Queue!vars)
<1>1. Init => Queue!Init
  BY DEF Init
<1>2. TypeOK /\ [Next]_vars => [Queue!Next]_(Queue!vars)
  <2> SUFFICES ASSUME TypeOK, [Next]_vars
               PROVE  Queue!Next \/ UNCHANGED <<phase, delivered>>
    BY DEF Queue!vars
  <2>1. CASE msg \in Messages /\ UNCHANGED delivered /\ (UNCHANGED phase \/ Queue!Settle(msg))
    <3>1. PICK m \in Messages : m = msg
      BY <2>1
    <3> QED
      BY <2>1, <3>1 DEF Queue!Next
  <2>2. CASE \E m \in Messages : Publish(m) \/ BuryOrphan(m) \/ Claim(m)
    BY <2>2 DEF Publish, BuryOrphan, Claim, Queue!Next
  <2> QED
    BY <2>1, <2>2, QueueMoves
<1> QED
  BY <1>1, <1>2, TypeCorrect, PTL DEF Spec
=============================================================================
