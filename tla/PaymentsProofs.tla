---------------------------- MODULE PaymentsProofs ----------------------------
(***************************************************************************)
(* Theorems about Payments, for any number of payments and handlers and    *)
(* under every fault.  That the books claim nothing that did not happen    *)
(* needs no lock: whatever is saved over what, a copy records no more      *)
(* refunds than NANO has made, since NANO only ever gives more back.  That *)
(* they miss nothing needs the lock, and one answer at a time.             *)
(***************************************************************************)
EXTENDS Payments, TLAPS

\* Steps from which a handler will save the payment as succeeded or canceled.
Paying == {"reload", "saveSucceeded", "refund", "commitCancel"}

\* What a handler has at each step: the amount of a cancel fits its copy.
JobOK(job) ==
    /\ job.step # "idle" => job.payment \in Payment
    /\ job.step \in {"refund", "commitCancel"} =>
          /\ job.row.status = "succeeded"
          /\ job.amount \in 1..Remaining(job.row)
    /\ job.step = "refund" => job.payment \in Card

\* What it knows of a card payment's money: its copy, and what a cancel is about
\* to make of it, is no further than NANO's books.
MoneyOK(job, given, taken) ==
    job.payment \in Card =>
        /\ job.row.canceled <= given[job.payment]
        /\ job.step \in Paying => job.payment \in taken
        /\ job.step = "commitCancel" => job.row.canceled + job.amount <= given[job.payment]

JobsOK ==
    /\ \A h \in Handler : JobOK(handlers[h]) /\ MoneyOK(handlers[h], returned, charged)
    /\ \A h \in Callback : handlers[h].payment \in Card \cup {NoPayment}

PaymentsInv ==
    /\ TypeOK /\ JobsOK
    /\ RefundsWereMade /\ SucceededWasCharged /\ FullRefundIsTold

\* NANO takes money once and gives back no more than it took.
NanoGoesOn ==
    /\ charged \subseteq charged'
    /\ returned' \in [Payment -> 0..Amount]
    /\ \A m \in Payment : returned[m] <= returned'[m]

\* The types of everything but the tables and the handlers.
BooksOK ==
    /\ alerted \subseteq Card
    /\ opened \subseteq Card /\ charged \subseteq opened
    /\ returned \in [Payment -> 0..Amount]
    /\ approvals \subseteq charged /\ declines \subseteq opened
    /\ unrecorded \cup replayed \subseteq Payment

-----------------------------------------------------------------------------
(* One handler moves, one row is saved.                                    *)

LEMMA NanoKept ==
    ASSUME TypeOK, UNCHANGED nanoVars
    PROVE  NanoGoesOn
  BY DEF NanoGoesOn, nanoVars, TypeOK

LEMMA ChangeJob ==
    ASSUME TypeOK, JobsOK, NanoGoesOn,
           NEW h \in Handler, NEW job \in Job,
           handlers' = [handlers EXCEPT ![h] = job],
           JobOK(job), MoneyOK(job, returned', charged'),
           h \in Callback => job.payment \in Card \cup {NoPayment}
    PROVE  handlers' \in [Handler -> Job] /\ JobsOK'
<1>1. handlers' \in [Handler -> Job]
  BY DEF TypeOK
<1>2. ASSUME NEW g \in Handler
      PROVE  JobOK(handlers'[g]) /\ MoneyOK(handlers'[g], returned', charged')
  <2>1. CASE g = h
    BY <2>1 DEF TypeOK
  <2>2. CASE g # h
    <3>1. handlers'[g] = handlers[g] /\ JobOK(handlers[g]) /\ MoneyOK(handlers[g], returned, charged)
      BY <2>2 DEF TypeOK, JobsOK
    <3>2. MoneyOK(handlers[g], returned', charged')
      <4>1. handlers[g] \in Job
        BY DEF TypeOK
      <4>2. returned \in [Payment -> 0..Amount] /\ Amount \in Nat
        BY PaymentsAssumption DEF TypeOK
      <4> QED
        BY <3>1, <4>1, <4>2 DEF MoneyOK, NanoGoesOn, Job, Row, Card
    <3> QED
      BY <3>1, <3>2
  <2> QED
    BY <2>1, <2>2
<1>3. ASSUME NEW g \in Callback
      PROVE  handlers'[g].payment \in Card \cup {NoPayment}
  BY DEF TypeOK, JobsOK, Handler
<1> QED
  BY <1>1, <1>2, <1>3 DEF JobsOK, JobOK, MoneyOK

LEMMA JobsKept ==
    ASSUME TypeOK, JobsOK, NanoGoesOn, UNCHANGED handlers
    PROVE  handlers' \in [Handler -> Job] /\ JobsOK'
<1>1. CASE Handler = {}
  BY <1>1 DEF TypeOK, JobsOK, Handler
<1>2. ASSUME NEW h \in Handler
      PROVE  handlers' \in [Handler -> Job] /\ JobsOK'
  <2>1. /\ handlers[h] \in Job
        /\ JobOK(handlers[h]) /\ MoneyOK(handlers[h], returned, charged)
        /\ h \in Callback => handlers[h].payment \in Card \cup {NoPayment}
        /\ handlers' = [handlers EXCEPT ![h] = handlers[h]]
    BY DEF TypeOK, JobsOK
  <2>2. MoneyOK(handlers[h], returned', charged')
    BY <2>1, PaymentsAssumption DEF MoneyOK, NanoGoesOn, TypeOK, Job, Row, Card
  <2> QED
    BY <2>1, <2>2, ChangeJob
<1> QED
  BY <1>1, <1>2

LEMMA ReturnJob ==
    ASSUME TypeOK, JobsOK, NanoGoesOn, NEW h \in Handler, Return(h)
    PROVE  handlers' \in [Handler -> Job] /\ JobsOK'
<1>1. IdleJob \in Job
  BY PaymentsAssumption DEF IdleJob, Job, Step, NoRow, Row, Status
<1>2. JobOK(IdleJob) /\ MoneyOK(IdleJob, returned', charged') /\ IdleJob.payment = NoPayment
  BY PaymentsAssumption DEF JobOK, MoneyOK, IdleJob, Card
<1> QED
  BY <1>1, <1>2, ChangeJob DEF Return

LEMMA BeginJob ==
    ASSUME TypeOK, JobsOK, RefundsWereMade, UNCHANGED nanoVars,
           NEW h \in Handler, NEW m \in Payment,
           NEW step \in {"insert", "reload", "saveSucceeded", "saveFailed"}, Begin(h, step, m),
           m \in Card /\ step \in Paying => m \in charged,
           h \in Callback => m \in Card
    PROVE  handlers' \in [Handler -> Job] /\ JobsOK'
<1> DEFINE job == [step |-> step, payment |-> m, row |-> payments[m], amount |-> 0, key |-> NoKey]
<1>1. payments[m] \in Row
  BY DEF TypeOK
<1>2. job \in Job
  BY <1>1, PaymentsAssumption DEF Job, Step
<1>3. JobOK(job)
  BY DEF JobOK
<1>4. MoneyOK(job, returned', charged')
  BY DEF MoneyOK, RefundsWereMade, nanoVars
<1>5. handlers' = [handlers EXCEPT ![h] = job]
  BY DEF Begin
<1>6. h \in Callback => job.payment \in Card \cup {NoPayment}
  OBVIOUS
<1> HIDE DEF job
<1> QED
  BY <1>2, <1>3, <1>4, <1>5, <1>6, NanoKept, ChangeJob

\* The rest of the invariant survives a save that records no more than is true.
LEMMA SaveRow ==
    ASSUME PaymentsInv, UNCHANGED nanoVars,
           NEW m \in Payment, NEW row \in Row, NEW events \in SUBSET Event, Save(m, row, events),
           m \in Card => row.canceled <= returned[m],
           m \in Card /\ row.status \in {"succeeded", "canceled"} => m \in charged,
           m \in Card /\ row.status = "canceled" => Canceled(m, 0) \in events,
           \A n \in Card : Canceled(n, 0) \in events => returned[n] = Amount
    PROVE  /\ payments' \in [Payment -> Row] /\ outbox' \subseteq Event
           /\ RefundsWereMade' /\ SucceededWasCharged' /\ FullRefundIsTold'
<1>1. payments' \in [Payment -> Row] /\ outbox' \subseteq Event
  BY DEF Save, PaymentsInv, TypeOK
<1>2. \A n \in Card : payments'[n] = IF n = m THEN row ELSE payments[n]
  BY DEF Save, PaymentsInv, TypeOK, Card
<1>3. outbox' = outbox \cup events /\ returned' = returned /\ charged' = charged
  BY DEF Save, nanoVars
<1>4. RefundsWereMade'
  BY <1>2, <1>3 DEF PaymentsInv, RefundsWereMade
<1>5. SucceededWasCharged'
  BY <1>2, <1>3 DEF PaymentsInv, SucceededWasCharged
<1>6. FullRefundIsTold'
  BY <1>2, <1>3 DEF PaymentsInv, FullRefundIsTold
<1> QED
  BY <1>1, <1>4, <1>5, <1>6

LEMMA RowsKept ==
    ASSUME PaymentsInv, NothingSaved, NanoGoesOn
    PROVE  /\ payments' \in [Payment -> Row] /\ outbox' \subseteq Event
           /\ RefundsWereMade' /\ SucceededWasCharged' /\ FullRefundIsTold'
<1>1. payments' = payments /\ outbox' = outbox /\ payments \in [Payment -> Row] /\ outbox \subseteq Event
  BY DEF NothingSaved, PaymentsInv, TypeOK
<1>2. \A m \in Card : /\ returned[m] \in 0..Amount /\ returned'[m] \in 0..Amount
                      /\ returned[m] <= returned'[m] /\ payments[m].canceled \in 0..Amount
  BY DEF PaymentsInv, TypeOK, NanoGoesOn, Card, Row
<1>3. RefundsWereMade'
  BY <1>1, <1>2, PaymentsAssumption DEF PaymentsInv, RefundsWereMade
<1>4. SucceededWasCharged'
  BY <1>1 DEF PaymentsInv, SucceededWasCharged, NanoGoesOn
<1>5. ASSUME NEW m \in Card
      PROVE  /\ (Canceled(m, 0) \in outbox)' => returned'[m] = Amount
             /\ payments'[m].status = "canceled" => (Canceled(m, 0) \in outbox)'
  <2>1. returned[m] = Amount => returned'[m] = Amount
    BY <1>2, PaymentsAssumption
  <2> QED
    BY <1>1, <2>1 DEF PaymentsInv, FullRefundIsTold
<1>6. FullRefundIsTold'
  BY <1>5 DEF FullRefundIsTold
<1> QED
  BY <1>1, <1>3, <1>4, <1>6

-----------------------------------------------------------------------------
(* Every step keeps the invariant.                                         *)

LEMMA CreateKeeps ==
    ASSUME PaymentsInv, NEW h \in Client, NEW m \in Payment,
           BeginCreate(h, m) \/ BeginRetry(h, m)
    PROVE  PaymentsInv'
<1>1. BooksOK'
  BY DEF BeginCreate, BeginRetry, BooksOK, PaymentsInv, TypeOK, nanoVars, answers, history,
         serviceVars
<1>2. UNCHANGED nanoVars /\ NothingSaved
  BY DEF BeginCreate, BeginRetry, serviceVars, NothingSaved
<1>3. h \in Handler /\ h \notin Callback
  BY PaymentsAssumption DEF Handler
<1>4. handlers' \in [Handler -> Job] /\ JobsOK'
  <2>1. CASE BeginCreate(h, m)
    BY <2>1, <1>2, <1>3, BeginJob DEF BeginCreate, PaymentsInv, Paying
  <2>2. CASE BeginRetry(h, m)
    <3>1. m \in Card => m \in charged
      BY <2>2 DEF BeginRetry, PaymentsInv, SucceededWasCharged
    <3> QED
      BY <2>2, <3>1, <1>2, <1>3, BeginJob DEF BeginRetry, PaymentsInv
  <2> QED
    BY <2>1, <2>2
<1> QED
  BY <1>1, <1>2, <1>4, NanoKept, RowsKept DEF PaymentsInv, TypeOK, BooksOK

LEMMA InsertKeeps ==
    ASSUME PaymentsInv, NEW h \in Handler, Insert(h)
    PROVE  PaymentsInv'
<1> DEFINE m == handlers[h].payment
           status == IF m \in Bypass THEN "succeeded" ELSE "requires_payment"
           row == [NoRow EXCEPT !.status = status]
           events == IF m \in Bypass THEN {Succeeded(m)} ELSE {}
<1>1. BooksOK'
  BY DEF Insert, BooksOK, PaymentsInv, TypeOK, nanoVars, answers, history
<1>2. UNCHANGED nanoVars /\ NanoGoesOn
  BY NanoKept DEF Insert, PaymentsInv
<1>3. handlers' \in [Handler -> Job] /\ JobsOK'
  BY <1>2, ReturnJob DEF Insert, PaymentsInv
<1>4. m \in Payment
  BY DEF Insert, At, PaymentsInv, JobsOK, JobOK
<1>5. CASE Save(m, row, events)
  <2>1. row = [status |-> status, canceled |-> 0, key |-> NoKey]
    BY DEF NoRow
  <2>2. row \in Row
    BY <2>1, PaymentsAssumption DEF Row, Status
  <2>3. events \in SUBSET Event
    BY <1>4, PaymentsAssumption DEF Succeeded, Event
  <2>4. \A n \in Card : Canceled(n, 0) \notin events
    BY DEF Succeeded, Canceled
  <2>5. m \in Card => row.canceled <= returned[m] /\ row.status = "requires_payment"
    BY <1>4, <2>1, PaymentsAssumption DEF Card, PaymentsInv, TypeOK
  <2> HIDE DEF m, status, row, events
  <2> QED
    BY <1>1, <1>2, <1>3, <1>4, <1>5, <2>2, <2>3, <2>4, <2>5, SaveRow DEF PaymentsInv, TypeOK, BooksOK
<1>6. CASE NothingSaved
  BY <1>1, <1>2, <1>3, <1>6, RowsKept DEF PaymentsInv, TypeOK, BooksOK
<1> QED
  BY <1>5, <1>6 DEF Insert

LEMMA ReloadKeeps ==
    ASSUME PaymentsInv, NEW h \in Handler, Reload(h)
    PROVE  PaymentsInv'
<1> DEFINE job == [handlers[h] EXCEPT !.step = "saveSucceeded",
                                      !.row = payments[handlers[h].payment]]
           m == handlers[h].payment
<1>1. BooksOK'
  BY DEF Reload, BooksOK, PaymentsInv, TypeOK, nanoVars, answers, history, serviceVars
<1>2. UNCHANGED nanoVars /\ NanoGoesOn /\ NothingSaved
  BY NanoKept DEF Reload, PaymentsInv, serviceVars, NothingSaved
<1>3. m \in Payment /\ handlers[h] \in Job /\ payments[m] \in Row
  BY DEF Reload, At, PaymentsInv, TypeOK, JobsOK, JobOK
<1>4. job \in Job
  BY <1>3 DEF Job, Step
<1>5. job.payment = m /\ job.step = "saveSucceeded" /\ job.row = payments[m]
  BY <1>3 DEF Job
<1>6. m \in Card => payments[m].canceled <= returned[m] /\ m \in charged
  BY DEF PaymentsInv, RefundsWereMade, JobsOK, MoneyOK, Reload, At, Paying
<1>7. handlers' = [handlers EXCEPT ![h] = job]
  BY DEF Reload, PaymentsInv, TypeOK
<1>8. h \in Callback => m \in Card \cup {NoPayment}
  BY DEF PaymentsInv, JobsOK
<1> HIDE DEF job
<1>9. JobOK(job)
  BY <1>3, <1>5 DEF JobOK
<1>10. MoneyOK(job, returned', charged')
  BY <1>2, <1>5, <1>6 DEF MoneyOK, nanoVars
<1>11. handlers' \in [Handler -> Job] /\ JobsOK'
  BY <1>2, <1>4, <1>5, <1>7, <1>8, <1>9, <1>10, ChangeJob DEF PaymentsInv
<1> QED
  BY <1>1, <1>2, <1>11, RowsKept DEF PaymentsInv, TypeOK, BooksOK

LEMMA ReceiveKeeps ==
    ASSUME PaymentsInv, NEW h \in Callback, NEW m \in Payment,
           ReceiveApproval(h, m) \/ ReceiveDecline(h, m)
    PROVE  PaymentsInv'
<1>1. m \in Card /\ (m \in charged \/ ReceiveDecline(h, m))
  BY DEF ReceiveApproval, ReceiveDecline, PaymentsInv, TypeOK
<1>2. BooksOK'
  BY <1>1 DEF ReceiveApproval, ReceiveDecline, TakeApproval, TakeDecline, BooksOK, PaymentsInv,
              TypeOK, nanoVars, history, serviceVars
<1>3. UNCHANGED nanoVars /\ NothingSaved /\ NanoGoesOn
  BY NanoKept DEF ReceiveApproval, ReceiveDecline, serviceVars, NothingSaved, PaymentsInv
<1>4. h \in Handler
  BY DEF Handler
<1>5. handlers' \in [Handler -> Job] /\ JobsOK'
  <2>1. CASE Begin(h, "saveSucceeded", m) /\ ReceiveApproval(h, m)
    <3>1. m \in charged
      BY <2>1 DEF ReceiveApproval, PaymentsInv, TypeOK
    <3> QED
      BY <2>1, <3>1, <1>1, <1>3, <1>4, BeginJob DEF PaymentsInv
  <2>2. CASE Begin(h, "saveFailed", m)
    BY <2>2, <1>1, <1>3, <1>4, BeginJob DEF PaymentsInv, Paying
  <2>3. CASE UNCHANGED handlers
    BY <2>3, <1>3, JobsKept DEF PaymentsInv
  <2> QED
    BY <2>1, <2>2, <2>3 DEF ReceiveApproval, ReceiveDecline
<1> QED
  BY <1>2, <1>3, <1>5, RowsKept DEF PaymentsInv, TypeOK, BooksOK

\* A success and a decline save the copy with another status.
LEMMA SaveKeeps ==
    ASSUME PaymentsInv, NEW h \in Handler, SaveSucceeded(h) \/ SaveFailed(h)
    PROVE  PaymentsInv'
<1> DEFINE m == handlers[h].payment
           copy == handlers[h].row
           status == IF SaveSucceeded(h) THEN "succeeded" ELSE "failed"
<1>1. /\ m \in Payment /\ copy \in Row
      /\ h \in Callback => m \in Card
      /\ m \in Card => copy.canceled <= returned[m]
      /\ m \in Card /\ At(h, "saveSucceeded") => m \in charged
  BY PaymentsAssumption
     DEF SaveSucceeded, SaveFailed, At, PaymentsInv, TypeOK, Job, JobsOK, JobOK, MoneyOK, Paying,
         Card
<1>2. BooksOK'
  BY <1>1 DEF SaveSucceeded, SaveFailed, BooksOK, PaymentsInv, TypeOK, nanoVars, answers, history
<1>3. UNCHANGED nanoVars /\ NanoGoesOn
  BY NanoKept DEF SaveSucceeded, SaveFailed, PaymentsInv
<1>4. handlers' \in [Handler -> Job] /\ JobsOK'
  BY <1>3, ReturnJob DEF SaveSucceeded, SaveFailed, PaymentsInv
<1>5. ASSUME NEW st \in {"succeeded", "failed"}, NEW events \in {{}, {Succeeded(m)}},
             Save(m, [copy EXCEPT !.status = st], events),
             st = "succeeded" => At(h, "saveSucceeded")
      PROVE  PaymentsInv'
  <2> DEFINE row == [copy EXCEPT !.status = st]
  <2>1. row \in Row /\ row.status = st /\ row.canceled = copy.canceled
    BY <1>1 DEF Row, Status
  <2>2. events \in SUBSET Event
    BY <1>1, PaymentsAssumption DEF Succeeded, Event
  <2>3. \A n \in Card : Canceled(n, 0) \notin events
    BY DEF Succeeded, Canceled
  <2>4. Save(m, row, events)
    BY <1>5
  <2> HIDE DEF m, copy, row
  <2> QED
    BY <1>1, <1>2, <1>3, <1>4, <1>5, <2>1, <2>2, <2>3, <2>4, SaveRow
       DEF PaymentsInv, TypeOK, BooksOK
<1>6. CASE NothingSaved
  BY <1>2, <1>3, <1>4, <1>6, RowsKept DEF PaymentsInv, TypeOK, BooksOK
<1> QED
  BY <1>5, <1>6 DEF SaveSucceeded, SaveFailed

LEMMA BeginCancelKeeps ==
    ASSUME PaymentsInv, NEW h \in Client, NEW m \in Payment, NEW k \in CancelKey \cup {NoKey},
           NEW n \in 1..Amount, BeginCancel(h, m, k, n)
    PROVE  PaymentsInv'
<1> DEFINE step == IF m \in Bypass THEN "commitCancel" ELSE "refund"
           job == [step |-> step, payment |-> m, row |-> payments[m], amount |-> n, key |-> k]
<1>1. BooksOK' /\ UNCHANGED nanoVars /\ NothingSaved
  BY DEF BeginCancel, StartCancel, BooksOK, PaymentsInv, TypeOK, nanoVars, answers, history,
         serviceVars, NothingSaved
<1>2. /\ h \in Handler /\ h \notin Callback
      /\ handlers' = [handlers EXCEPT ![h] = job]
      /\ payments[m] \in Row /\ payments[m].status = "succeeded"
      /\ n \in 1..Remaining(payments[m])
  BY PaymentsAssumption DEF BeginCancel, StartCancel, Handler, PaymentsInv, TypeOK
<1>3. job \in Job
  BY <1>2, PaymentsAssumption DEF Job, Step
<1>4. JobOK(job)
  BY <1>2 DEF JobOK, Card
<1>5. MoneyOK(job, returned', charged')
  BY <1>1, <1>2 DEF MoneyOK, nanoVars, PaymentsInv, RefundsWereMade, SucceededWasCharged, Card
<1> HIDE DEF job
<1>6. handlers' \in [Handler -> Job] /\ JobsOK'
  BY <1>1, <1>2, <1>3, <1>4, <1>5, NanoKept, ChangeJob DEF PaymentsInv
<1> QED
  BY <1>1, <1>6, NanoKept, RowsKept DEF PaymentsInv, TypeOK, BooksOK

LEMMA NanoKeeps ==
    ASSUME PaymentsInv, NEW m \in Payment, OpenCheckout(m) \/ Charge(m) \/ Decline(m)
    PROVE  PaymentsInv'
<1>1. BooksOK'
  BY DEF OpenCheckout, Charge, Decline, BooksOK, PaymentsInv, TypeOK, answers, history, serviceVars,
         nanoVars
<1>2. NothingSaved /\ UNCHANGED <<handlers, returned>>
  BY DEF OpenCheckout, Charge, Decline, serviceVars, nanoVars, NothingSaved
<1>3. NanoGoesOn
  BY <1>2 DEF OpenCheckout, Charge, Decline, nanoVars, NanoGoesOn, PaymentsInv, TypeOK
<1> QED
  BY <1>1, <1>2, <1>3, JobsKept, RowsKept DEF PaymentsInv, TypeOK, BooksOK

LEMMA CrashKeeps ==
    ASSUME PaymentsInv, NEW h \in Handler, Crash(h)
    PROVE  PaymentsInv'
<1>1. handlers[h].payment \in Payment
  BY DEF Crash, Idle, PaymentsInv, JobsOK, JobOK
<1>2. BooksOK' /\ UNCHANGED nanoVars /\ NothingSaved
  BY <1>1 DEF Crash, BooksOK, PaymentsInv, TypeOK, nanoVars, answers, serviceVars, NothingSaved
<1> QED
  BY <1>2, NanoKept, ReturnJob, RowsKept DEF Crash, PaymentsInv, TypeOK, BooksOK

\* NANO gives back n more, and the handler's cancel comes to no more than that.
LEMMA CallRefundKeeps ==
    ASSUME PaymentsInv, NEW h \in Handler, CallRefund(h)
    PROVE  PaymentsInv'
<1> USE PaymentsAssumption
<1> DEFINE m == handlers[h].payment
           n == handlers[h].amount
           copy == handlers[h].row
           left == Amount - returned[m] - n
<1>1. /\ handlers[h] \in Job /\ copy \in Row /\ m \in Payment /\ m \in Card /\ m \in charged
      /\ copy.status = "succeeded" /\ n \in 1..Remaining(copy)
      /\ copy.canceled \in 0..Amount /\ returned[m] \in 0..Amount
      /\ copy.canceled <= returned[m]
  BY DEF CallRefund, At, PaymentsInv, TypeOK, JobsOK, JobOK, MoneyOK, Paying, Job, Row
<1>2. NothingSaved /\ UNCHANGED <<alerted, opened, charged, approvals, declines>>
  BY DEF CallRefund, serviceVars, answers, NothingSaved
<1>3. unrecorded' \cup replayed' \subseteq Payment
  BY <1>1 DEF CallRefund, PaymentsInv, TypeOK
<1>4. NanoGoesOn
  <2>1. CASE UNCHANGED returned
    BY <2>1, <1>2, NanoKept DEF nanoVars, PaymentsInv
  <2>2. CASE left >= 0 /\ returned' = [returned EXCEPT ![m] = @ + n]
    <3>1. returned[m] + n \in 0..Amount /\ returned[m] <= returned[m] + n
      BY <1>1, <2>2 DEF Remaining
    <3> QED
      BY <2>2, <3>1, <1>1, <1>2 DEF NanoGoesOn, PaymentsInv, TypeOK
  <2> QED
    BY <2>1, <2>2 DEF CallRefund
<1>5. BooksOK'
  BY <1>2, <1>3, <1>4 DEF BooksOK, PaymentsInv, TypeOK, NanoGoesOn
<1>6. ASSUME NEW amount \in {n, Reconciled(Remaining(copy), left)},
             left >= 0, returned' = [returned EXCEPT ![m] = @ + n],
             handlers' = [handlers EXCEPT ![h].step = "commitCancel", ![h].amount = amount]
      PROVE  handlers' \in [Handler -> Job] /\ JobsOK'
  <2> DEFINE job == [handlers[h] EXCEPT !.step = "commitCancel", !.amount = amount]
  <2>1. /\ amount \in 1..Remaining(copy)
        /\ copy.canceled + amount <= returned[m] + n
    BY <1>1, <1>6 DEF Reconciled, Remaining
  <2>2. job \in Job /\ job.step = "commitCancel" /\ job.payment = m
        /\ job.row = copy /\ job.amount = amount
    <3>1. amount \in 0..Amount
      BY <1>1, <2>1 DEF Remaining
    <3> HIDE DEF n, left
    <3> QED
      BY <1>1, <3>1 DEF Job, Step
  <2>3. handlers' = [handlers EXCEPT ![h] = job]
    BY <1>6 DEF PaymentsInv, TypeOK
  <2>4. returned'[m] = returned[m] + n
    BY <1>1, <1>6 DEF PaymentsInv, TypeOK
  <2>5. h \in Callback => m \in Card \cup {NoPayment}
    BY <1>1
  <2> HIDE DEF job, m, copy, n, left
  <2>6. JobOK(job)
    BY <1>1, <2>1, <2>2 DEF JobOK
  <2>7. MoneyOK(job, returned', charged')
    BY <1>1, <1>2, <2>1, <2>2, <2>4, returned[m] \in Int, n \in Int DEF MoneyOK
  <2> QED
    BY <1>4, <2>2, <2>3, <2>5, <2>6, <2>7, ChangeJob DEF PaymentsInv
<1>7. handlers' \in [Handler -> Job] /\ JobsOK'
  BY <1>4, <1>6, ReturnJob DEF CallRefund, PaymentsInv
<1> QED
  BY <1>2, <1>4, <1>5, <1>7, RowsKept DEF PaymentsInv, TypeOK, BooksOK

LEMMA CommitCancelKeeps ==
    ASSUME PaymentsInv, NEW h \in Handler, CommitCancel(h)
    PROVE  PaymentsInv'
<1> USE PaymentsAssumption
<1> DEFINE m == handlers[h].payment
           copy == handlers[h].row
           n == handlers[h].amount
           row == Applied(handlers[h])
<1>1. /\ handlers[h] \in Job /\ copy \in Row /\ m \in Payment
      /\ copy.status = "succeeded" /\ n \in 1..Remaining(copy)
      /\ copy.canceled \in 0..Amount /\ returned[m] \in 0..Amount
      /\ m \in Card => m \in charged /\ copy.canceled + n <= returned[m]
  BY DEF CommitCancel, At, PaymentsInv, TypeOK, JobsOK, JobOK, MoneyOK, Paying, Job, Row
<1>2. row \in Row /\ row.canceled = copy.canceled + n
      /\ row.status = IF row.canceled < Amount THEN "succeeded" ELSE "canceled"
  BY <1>1 DEF Applied, Row, Job, Status, Remaining
<1>3. BooksOK' /\ UNCHANGED nanoVars
  BY <1>1 DEF CommitCancel, BooksOK, PaymentsInv, TypeOK, nanoVars, answers
<1>4. NanoGoesOn /\ handlers' \in [Handler -> Job] /\ JobsOK'
  BY <1>3, NanoKept, ReturnJob DEF CommitCancel, PaymentsInv
<1>5. CASE Save(m, row, {Canceled(m, Remaining(row))})
  <2> DEFINE events == {Canceled(m, Remaining(row))}
  <2>1. Remaining(row) \in 0..Amount
    BY <1>2 DEF Row, Remaining
  <2>2. events \in SUBSET Event
    BY <1>1, <2>1 DEF Canceled, Event
  <2>3. row.status = "canceled" => Canceled(m, 0) \in events
    BY <1>1, <1>2, <2>1 DEF Remaining
  <2>4. ASSUME NEW p \in Card, Canceled(p, 0) \in events
        PROVE  returned[p] = Amount
    <3>1. p = m /\ Remaining(row) = 0
      BY <2>4 DEF Canceled
    <3> QED
      BY <1>1, <1>2, <3>1 DEF Remaining
  <2>5. m \in Card => row.canceled <= returned[m] /\ m \in charged
    BY <1>1, <1>2
  <2> HIDE DEF m, copy, n, row, events
  <2>6. Save(m, row, events)
    BY <1>5 DEF events
  <2> QED
    BY <1>1, <1>2, <1>3, <1>4, <2>2, <2>3, <2>4, <2>5, <2>6, SaveRow
       DEF PaymentsInv, TypeOK, BooksOK
<1>6. CASE NothingSaved
  BY <1>3, <1>4, <1>6, RowsKept DEF PaymentsInv, TypeOK, BooksOK
<1> QED
  BY <1>5, <1>6 DEF CommitCancel

LEMMA StepKeeps ==
    ASSUME PaymentsInv, [Next]_vars
    PROVE  PaymentsInv'
<1>1. ASSUME NEW h \in Handler, Continue(h) \/ Crash(h)
      PROVE  PaymentsInv'
  BY <1>1, InsertKeeps, ReloadKeeps, SaveKeeps, CallRefundKeeps, CommitCancelKeeps, CrashKeeps
     DEF Continue
<1>2. ASSUME NEW h \in Client, NEW m \in Payment, BeginCreate(h, m) \/ BeginRetry(h, m)
      PROVE  PaymentsInv'
  BY <1>2, CreateKeeps
<1>3. ASSUME NEW h \in Client, NEW m \in Payment, NEW k \in CancelKey \cup {NoKey},
             NEW n \in 1..Amount, BeginCancel(h, m, k, n)
      PROVE  PaymentsInv'
  BY <1>3, BeginCancelKeeps
<1>4. ASSUME NEW h \in Callback, NEW m \in Payment, ReceiveApproval(h, m) \/ ReceiveDecline(h, m)
      PROVE  PaymentsInv'
  BY <1>4, ReceiveKeeps
<1>5. ASSUME NEW m \in Payment, OpenCheckout(m) \/ Charge(m) \/ Decline(m)
      PROVE  PaymentsInv'
  BY <1>5, NanoKeeps
<1>6. CASE UNCHANGED vars
  <2>1. BooksOK' /\ UNCHANGED nanoVars /\ NothingSaved /\ UNCHANGED handlers
    BY <1>6 DEF vars, serviceVars, nanoVars, answers, history, BooksOK, NothingSaved, PaymentsInv,
                TypeOK
  <2> QED
    BY <2>1, NanoKept, JobsKept, RowsKept DEF PaymentsInv, TypeOK, BooksOK
<1> QED
  BY <1>1, <1>2, <1>3, <1>4, <1>5, <1>6 DEF Next

LEMMA InitHolds == Init => PaymentsInv
<1> SUFFICES ASSUME Init
             PROVE  PaymentsInv
  OBVIOUS
<1> USE PaymentsAssumption DEF Init
<1>1. NoRow \in Row /\ IdleJob \in Job
  BY DEF NoRow, Row, Status, IdleJob, Job, Step
<1>2. TypeOK
  BY <1>1 DEF TypeOK, Card
<1>3. JobsOK
  BY DEF JobsOK, JobOK, MoneyOK, IdleJob, Card, Handler
<1>4. RefundsWereMade /\ SucceededWasCharged /\ FullRefundIsTold
  BY DEF RefundsWereMade, SucceededWasCharged, FullRefundIsTold, NoRow, Card
<1> QED
  BY <1>2, <1>3, <1>4 DEF PaymentsInv

\* The five parts support each other, from any state and step of the service.
THEOREM InvariantHolds == Spec => []PaymentsInv
<1>1. Init => PaymentsInv
  BY InitHolds
<1>2. PaymentsInv /\ [Next]_vars => PaymentsInv'
  BY StepKeeps
<1> QED
  BY <1>1, <1>2, PTL DEF Spec

\* The tables, the handlers' copies and NANO's books keep their types: a cancel
\* never takes the recorded sum past the amount of the payment.
THEOREM PaymentTypeCorrect == Spec => []TypeOK
<1>1. PaymentsInv => TypeOK
  BY DEF PaymentsInv
<1> QED
  BY <1>1, InvariantHolds, PTL

\* No refund is on the books that was not made, with any number of cancels,
\* retries and callbacks overlapping, failing and crashing.
THEOREM RefundsWereMadeHolds == Spec => []RefundsWereMade
<1>1. PaymentsInv => RefundsWereMade
  BY DEF PaymentsInv
<1> QED
  BY <1>1, InvariantHolds, PTL

\* A card payment is succeeded or canceled only after the card was charged,
\* also when a retried create completes it from a row read anew.
THEOREM SucceededWasChargedHolds == Spec => []SucceededWasCharged
<1>1. PaymentsInv => SucceededWasCharged
  BY DEF PaymentsInv
<1> QED
  BY <1>1, InvariantHolds, PTL

\* An event that says nothing remains is true, and a fully refunded payment has
\* announced it: the order service cancels an order on the strength of it.
THEOREM FullRefundIsToldHolds == Spec => []FullRefundIsTold
<1>1. PaymentsInv => FullRefundIsTold
  BY DEF PaymentsInv
<1> QED
  BY <1>1, InvariantHolds, PTL

\* Neither a charge nor a refund is on the books that NANO did not make, under
\* every fault and whatever copies are saved.
THEOREM BooksAreRealHolds == Spec => []BooksAreReal
BY RefundsWereMadeHolds, SucceededWasChargedHolds, PTL DEF BooksAreReal

-----------------------------------------------------------------------------
(* Refunds and charges are on the books, while one answer is handled at a  *)
(* time.  A cancel's copy is the row, since it holds the lock; a decline   *)
(* and an approval save a copy that no refund has overtaken, since refunds *)
(* are made of succeeded payments only.                                    *)

\* Steps at which a handler holds its payment's row, and at which it will save a copy.
Locking == {"refund", "commitCancel"}
Saving == {"saveSucceeded", "saveFailed"}

\* Who does what, and what nobody else does meanwhile.
TurnOK(h) ==
    LET m == handlers[h].payment
    IN  /\ At(h, "insert") =>
              payments[m] = NoRow /\ \A g \in Handler \ {h} : handlers[g].payment # m
        /\ handlers[h].step \in Locking =>
              /\ handlers[h].row = payments[m]
              /\ \A g \in Handler \ {h} : handlers[g].payment = m => handlers[g].step \notin Locking
        /\ h \in Callback => handlers[h].step \in {"idle"} \cup Saving
        /\ h \in Client => ~At(h, "saveFailed")
        /\ h \in Client /\ handlers[h].step \in {"reload", "saveSucceeded"} => m \in replayed

\* A card payment whose money NANO holds is not made to fail.
SettledOK(h) ==
    LET m == handlers[h].payment
    IN  m \in Card =>
          /\ At(h, "saveFailed") => payments[m].status # "succeeded" \/ returned[m] = Amount
          /\ h \in Client /\ handlers[h].step \in {"reload", "saveSucceeded"} =>
                payments[m].status = "succeeded" \/ returned[m] = Amount

\* What a copy says of the refunds made, unless a success is saved again or an
\* answer was lost.
ExactOK(h) ==
    LET m == handlers[h].payment
    IN  m \in Card \ (unrecorded \cup replayed) =>
          /\ At(h, "commitCancel") => payments[m].canceled + handlers[h].amount = returned[m]
          /\ handlers[h].step \in Saving =>
                /\ payments[m].status # "succeeded"
                /\ handlers[h].row.canceled = payments[m].canceled

\* The money of a charged card is on the books, given back, or somebody will hear of it.
Accounted(m) ==
    \/ payments[m].status = "succeeded"
    \/ returned[m] = Amount
    \/ m \in approvals \cup alerted
    \/ \E h \in Callback : At(h, "saveSucceeded") /\ handlers[h].payment = m

RowOK(m) ==
    /\ m \in opened => payments[m].status # "none"
    /\ m \in charged \ unrecorded => Accounted(m)
    /\ m \in Card \ (unrecorded \cup replayed) =>
          \/ payments[m].canceled = returned[m]
          \/ \E h \in Handler : At(h, "commitCancel") /\ handlers[h].payment = m

\* The strengthening of OnlyLostAnswersLoseRefunds and HeldMoneyIsOnTheBooks.
RecordsInv ==
    /\ PaymentsInv
    /\ \A h \in Handler : TurnOK(h) /\ SettledOK(h) /\ ExactOK(h)
    /\ \A m \in Payment : RowOK(m)

\* One answer of NANO is handled at a time: two at once save over each other.
OneAnswer == \A g, h \in Callback : g = h

\* All of the invariant but what PaymentsInv says.
RecordsKept ==
    /\ \A h \in Handler : TurnOK(h) /\ SettledOK(h) /\ ExactOK(h)
    /\ \A m \in Payment : RowOK(m)

\* The types the steps below need.
LEMMA RecordTypes ==
    ASSUME TypeOK
    PROVE  /\ Amount \in Nat \ {0} /\ NoPayment \notin Payment /\ Card \subseteq Payment
           /\ \A g \in Handler : handlers[g] \in Job /\ handlers[g].row.canceled \in 0..Amount
                                 /\ handlers[g].amount \in 0..Amount
           /\ \A m \in Payment : /\ payments[m] \in Row /\ payments[m].canceled \in 0..Amount
                                 /\ returned[m] \in 0..Amount
           /\ Handler = Client \cup Callback /\ Client \cap Callback = {}
  BY PaymentsAssumption DEF TypeOK, Job, Row, Card, Handler

\* One handler goes on to another job.
LEMMA OneJob ==
    ASSUME TypeOK, NEW h \in Handler, NEW job, handlers' = [handlers EXCEPT ![h] = job]
    PROVE  handlers'[h] = job /\ \A g \in Handler \ {h} : handlers'[g] = handlers[g]
  BY DEF TypeOK

\* Handler h goes on and no row is written: the others keep what they have, unless
\* h starts on the payment of a create or takes a row that is locked.
LEMMA OthersKeepRecords ==
    ASSUME RecordsInv, NEW h \in Handler, \A g \in Handler \ {h} : handlers'[g] = handlers[g],
           UNCHANGED <<payments, returned>>, replayed \subseteq replayed',
           unrecorded \subseteq unrecorded',
           \A g \in Handler \ {h} : handlers'[h].payment = handlers[g].payment =>
              /\ ~At(g, "insert")
              /\ handlers[g].step \in Locking => handlers'[h].step \notin Locking
    PROVE  \A g \in Handler \ {h} : TurnOK(g)' /\ SettledOK(g)' /\ ExactOK(g)'
  <1>. SUFFICES ASSUME NEW g \in Handler \ {h} PROVE TurnOK(g)' /\ SettledOK(g)' /\ ExactOK(g)'
    OBVIOUS
  <1>. USE DEF At
  <1>1. TurnOK(g) /\ SettledOK(g) /\ ExactOK(g)
    BY DEF RecordsInv
  <1>2. TurnOK(g)'
    BY <1>1 DEF TurnOK
  <1>3. SettledOK(g)' /\ ExactOK(g)'
    BY <1>1 DEF SettledOK, ExactOK
  <1>. QED
    BY <1>2, <1>3

\* No row is written and no refund made: a row is as it was if h was at nothing that
\* accounts for it.
LEMMA RowsKeepRecords ==
    ASSUME RecordsInv, NEW h \in Handler, \A g \in Handler \ {h} : handlers'[g] = handlers[g],
           UNCHANGED <<payments, returned, opened, charged>>,
           replayed \subseteq replayed', unrecorded \subseteq unrecorded',
           handlers[h].step \in {"saveSucceeded", "commitCancel"} => handlers[h].payment \in unrecorded',
           \A n \in approvals \cup alerted : Accounted(n)'
    PROVE  \A n \in Payment : RowOK(n)'
  <1>. SUFFICES ASSUME NEW n \in Payment PROVE RowOK(n)'
    OBVIOUS
  <1>. USE DEF At
  <1>1. RowOK(n)
    BY DEF RecordsInv
  <1>2. n \notin unrecorded' /\ Accounted(n) => Accounted(n)'
    BY DEF Accounted, Handler
  <1>3. ASSUME n \notin unrecorded', \E g \in Handler : At(g, "commitCancel") /\ handlers[g].payment = n
        PROVE  (\E g \in Handler : At(g, "commitCancel") /\ handlers[g].payment = n)'
    BY <1>3
  <1>. QED
    BY <1>1, <1>2, <1>3 DEF RowOK

\* A create draws an id whose payment does not exist.
LEMMA CreateKeepsRecords ==
    ASSUME RecordsInv, NEW h \in Client, NEW m \in Payment, BeginCreate(h, m)
    PROVE  RecordsKept'
  <1>. DEFINE job == [step |-> "insert", payment |-> m, row |-> payments[m],
                      amount |-> 0, key |-> NoKey]
  <1>. USE DEF At
  <1>1. h \in Handler /\ h \notin Callback /\ TypeOK
    BY RecordTypes DEF RecordsInv, PaymentsInv
  <1>2. handlers'[h] = job /\ \A g \in Handler \ {h} : handlers'[g] = handlers[g]
    BY <1>1, OneJob DEF BeginCreate, Begin
  <1>3. /\ payments[m] = NoRow /\ Idle(h) /\ \A g \in Handler : handlers[g].payment # m
        /\ UNCHANGED <<payments, alerted, opened, charged, returned, approvals, unrecorded, replayed>>
    BY DEF BeginCreate, Begin, serviceVars, nanoVars, answers, history
  <1>4. TurnOK(h)' /\ SettledOK(h)' /\ ExactOK(h)'
    BY <1>1, <1>2, <1>3 DEF TurnOK, SettledOK, ExactOK, Locking, Saving
  <1>5. \A g \in Handler \ {h} : TurnOK(g)' /\ SettledOK(g)' /\ ExactOK(g)'
    BY <1>1, <1>2, <1>3, OthersKeepRecords
  <1>6. \A n \in Payment : RowOK(n)'
    BY <1>1, <1>2, <1>3, RowsKeepRecords DEF Idle, Accounted
  <1>. QED
    BY <1>4, <1>5, <1>6 DEF RecordsKept

\* A retried create marks the payment as replayed.
LEMMA RetryKeepsRecords ==
    ASSUME RecordsInv, NEW h \in Client, NEW m \in Payment, BeginRetry(h, m)
    PROVE  RecordsKept'
  <1>. DEFINE job == [step |-> "reload", payment |-> m, row |-> payments[m],
                      amount |-> 0, key |-> NoKey]
  <1>. USE DEF At
  <1>1. h \in Handler /\ h \notin Callback /\ TypeOK
    BY RecordTypes DEF RecordsInv, PaymentsInv
  <1>2. handlers'[h] = job /\ \A g \in Handler \ {h} : handlers'[g] = handlers[g]
    BY <1>1, OneJob DEF BeginRetry, Begin
  <1>3. /\ payments[m].status = "succeeded" /\ Idle(h) /\ replayed' = replayed \cup {m}
        /\ UNCHANGED <<payments, alerted, opened, charged, returned, approvals, unrecorded>>
    BY DEF BeginRetry, Begin, serviceVars, nanoVars, answers
  <1>4. TurnOK(h)' /\ SettledOK(h)' /\ ExactOK(h)'
    BY <1>1, <1>2, <1>3 DEF TurnOK, SettledOK, ExactOK, Locking, Saving
  <1>5. \A g \in Handler \ {h} : handlers[g].payment = m => ~At(g, "insert")
    BY <1>3 DEF RecordsInv, TurnOK, NoRow
  <1>6. \A g \in Handler \ {h} : TurnOK(g)' /\ SettledOK(g)' /\ ExactOK(g)'
    BY <1>1, <1>2, <1>3, <1>5, OthersKeepRecords DEF Locking
  <1>7. \A n \in Payment : RowOK(n)'
    BY <1>1, <1>2, <1>3, RowsKeepRecords DEF Idle, Accounted
  <1>. QED
    BY <1>4, <1>6, <1>7 DEF RecordsKept

\* A cancel copies the row with its lock, so that no other cancel has it.
LEMMA BeginCancelKeepsRecords ==
    ASSUME RecordsInv, NEW h \in Client, NEW m \in Payment, NEW k \in CancelKey \cup {NoKey},
           NEW amount \in 1..Amount, BeginCancel(h, m, k, amount)
    PROVE  RecordsKept'
  <1>. DEFINE job == [step |-> IF m \in Bypass THEN "commitCancel" ELSE "refund",
                      payment |-> m, row |-> payments[m], amount |-> amount, key |-> k]
  <1>. USE DEF At
  <1>1. h \in Handler /\ h \notin Callback /\ TypeOK
    BY RecordTypes DEF RecordsInv, PaymentsInv
  <1>2. handlers'[h] = job /\ \A g \in Handler \ {h} : handlers'[g] = handlers[g]
    BY <1>1, OneJob DEF BeginCancel, StartCancel
  <1>3. /\ payments[m].status = "succeeded" /\ ~Locked(m) /\ Idle(h)
        /\ UNCHANGED <<payments, alerted, opened, charged, returned, approvals, unrecorded, replayed>>
    BY DEF BeginCancel, StartCancel, serviceVars, nanoVars, answers, history
  <1>4. \A g \in Handler \ {h} : handlers[g].payment = m => handlers[g].step \notin Locking
    BY <1>3 DEF Locked, Locking
  <1>5. TurnOK(h)'
    BY <1>1, <1>2, <1>3, <1>4 DEF TurnOK
  <1>6. SettledOK(h)' /\ ExactOK(h)'
    BY <1>2, <1>3 DEF SettledOK, ExactOK, Saving, Card
  <1>7. \A g \in Handler \ {h} : handlers[g].payment = m => ~At(g, "insert")
    BY <1>3 DEF RecordsInv, TurnOK, NoRow
  <1>8. \A g \in Handler \ {h} : TurnOK(g)' /\ SettledOK(g)' /\ ExactOK(g)'
    BY <1>1, <1>2, <1>3, <1>4, <1>7, OthersKeepRecords
  <1>9. \A n \in Payment : RowOK(n)'
    BY <1>1, <1>2, <1>3, RowsKeepRecords DEF Idle, Accounted
  <1>. QED
    BY <1>5, <1>6, <1>8, <1>9 DEF RecordsKept

\* An answer is about a charge or a decline, which another may have brought already.
LEMMA ReceiveKeepsRecords ==
    ASSUME RecordsInv, NEW h \in Callback, NEW m \in Payment,
           ReceiveApproval(h, m) \/ ReceiveDecline(h, m)
    PROVE  RecordsKept'
  <1>. USE DEF At
  <1>1. h \in Handler /\ h \notin Client /\ TypeOK
    BY RecordTypes DEF RecordsInv, PaymentsInv
  <1>2. /\ Idle(h) /\ UNCHANGED <<payments, opened, charged, returned, unrecorded>>
        /\ replayed \subseteq replayed' /\ alerted \subseteq alerted'
    BY DEF ReceiveApproval, ReceiveDecline, Begin, serviceVars, nanoVars, history
  <1>3. payments[m].status # "none" /\ m \in Card
    BY DEF ReceiveApproval, ReceiveDecline, RecordsInv, RowOK, PaymentsInv, TypeOK
  <1>4. \A g \in Handler \ {h} : handlers[g].payment = m => ~At(g, "insert")
    BY <1>3 DEF RecordsInv, TurnOK, NoRow
  <1>5. CASE UNCHANGED handlers
    <2>1. approvals \ {m} \subseteq approvals' /\ (m \in approvals => m \in approvals' \cup alerted')
      <3>1. CASE ReceiveApproval(h, m)
        <4>1. ~Begin(h, "saveSucceeded", m)
          BY <1>1, <1>2, <1>5, OneJob DEF Begin, Idle
        <4>. QED
          BY <3>1, <4>1 DEF ReceiveApproval, TakeApproval
      <3>2. CASE ReceiveDecline(h, m)
        BY <3>2 DEF ReceiveDecline
      <3>. QED
        BY <3>1, <3>2
    <2>2. \A g \in Handler \ {h} : handlers'[h].payment = handlers[g].payment =>
              /\ ~At(g, "insert")
              /\ handlers[g].step \in Locking => handlers'[h].step \notin Locking
      <3>1. handlers'[h] = handlers[h] /\ handlers[h].step \notin Locking
        BY <1>2, <1>5 DEF Idle, Locking
      <3>2. \A g \in Handler \ {h} : At(g, "insert") => handlers[h].payment # handlers[g].payment
        BY <1>1 DEF RecordsInv, TurnOK
      <3>. QED
        BY <3>1, <3>2
    <2>3. TurnOK(h)' /\ SettledOK(h)' /\ ExactOK(h)'
      BY <1>1, <1>2, <1>5 DEF TurnOK, SettledOK, ExactOK, Locking, Saving, Idle
    <2>4. \A g \in Handler \ {h} : TurnOK(g)' /\ SettledOK(g)' /\ ExactOK(g)'
      BY <1>1, <1>2, <1>5, <2>2, OthersKeepRecords
    <2>5. \A n \in Payment : RowOK(n)'
      BY <1>1, <1>2, <1>5, <2>1, RowsKeepRecords DEF Idle, Accounted
    <2>. QED
      BY <2>3, <2>4, <2>5 DEF RecordsKept
  <1>6. CASE ReceiveApproval(h, m) /\ Begin(h, "saveSucceeded", m)
    <2>. DEFINE job == [step |-> "saveSucceeded", payment |-> m, row |-> payments[m],
                        amount |-> 0, key |-> NoKey]
    <2>1. handlers'[h] = job /\ \A g \in Handler \ {h} : handlers'[g] = handlers[g]
      BY <1>1, <1>6, OneJob DEF Begin
    <2>2. m \notin replayed' => payments[m].status \notin {"succeeded", "canceled"}
      BY <1>6 DEF ReceiveApproval
    <2>3. TurnOK(h)' /\ SettledOK(h)' /\ ExactOK(h)'
      BY <1>1, <1>2, <2>1, <2>2 DEF TurnOK, SettledOK, ExactOK, Locking, Saving
    <2>4. \A g \in Handler \ {h} : TurnOK(g)' /\ SettledOK(g)' /\ ExactOK(g)'
      BY <1>1, <1>2, <1>4, <2>1, OthersKeepRecords DEF Locking
    <2>5. approvals \ {m} \subseteq approvals'
      BY <1>6 DEF ReceiveApproval, TakeApproval
    <2>6. \A n \in approvals \cup alerted : Accounted(n)'
      BY <1>2, <2>1, <2>5 DEF Accounted
    <2>7. \A n \in Payment : RowOK(n)'
      BY <1>1, <1>2, <2>1, <2>6, RowsKeepRecords DEF Idle
    <2>. QED
      BY <2>3, <2>4, <2>7 DEF RecordsKept
  <1>7. CASE ReceiveDecline(h, m) /\ Begin(h, "saveFailed", m)
    <2>. DEFINE job == [step |-> "saveFailed", payment |-> m, row |-> payments[m],
                        amount |-> 0, key |-> NoKey]
    <2>1. handlers'[h] = job /\ \A g \in Handler \ {h} : handlers'[g] = handlers[g]
      BY <1>1, <1>7, OneJob DEF Begin
    <2>2. payments[m].status # "succeeded" /\ UNCHANGED <<approvals, alerted>>
      <3>1. handlers' # handlers
        BY <1>1, <1>2, <2>1 DEF Idle
      <3>. QED
        BY <1>7, <3>1 DEF ReceiveDecline, serviceVars
    <2>3. TurnOK(h)' /\ SettledOK(h)' /\ ExactOK(h)'
      BY <1>1, <1>2, <2>1, <2>2 DEF TurnOK, SettledOK, ExactOK, Locking, Saving
    <2>4. \A g \in Handler \ {h} : TurnOK(g)' /\ SettledOK(g)' /\ ExactOK(g)'
      BY <1>1, <1>2, <1>4, <2>1, OthersKeepRecords DEF Locking
    <2>5. \A n \in Payment : RowOK(n)'
      BY <1>1, <1>2, <2>1, <2>2, RowsKeepRecords DEF Idle, Accounted
    <2>. QED
      BY <2>3, <2>4, <2>5 DEF RecordsKept
  <1>. QED
    BY <1>5, <1>6, <1>7 DEF ReceiveApproval, ReceiveDecline

\* A card that is charged has an answer on its way.
LEMMA NanoKeepsRecords ==
    ASSUME RecordsInv, NEW m \in Payment, OpenCheckout(m) \/ Charge(m) \/ Decline(m)
    PROVE  RecordsKept'
  <1>. USE DEF At
  <1>1. /\ UNCHANGED <<payments, handlers, returned, alerted, unrecorded, replayed>>
        /\ \A n \in opened' : n \in opened \/ payments[n].status # "none"
        /\ approvals \subseteq approvals' /\ \A n \in charged' : n \in charged \/ n \in approvals'
    <2>1. CASE OpenCheckout(m)
      BY <2>1 DEF OpenCheckout, serviceVars, answers, history
    <2>2. CASE Charge(m)
      BY <2>2 DEF Charge, serviceVars, history
    <2>3. CASE Decline(m)
      BY <2>3 DEF Decline, serviceVars, nanoVars, history
    <2>. QED
      BY <2>1, <2>2, <2>3
  <1>2. \A h \in Handler : TurnOK(h)' /\ SettledOK(h)' /\ ExactOK(h)'
    BY <1>1 DEF RecordsInv, TurnOK, SettledOK, ExactOK
  <1>3. ASSUME NEW n \in Payment PROVE RowOK(n)'
    <2>1. Accounted(n) => Accounted(n)'
      BY <1>1 DEF Accounted
    <2>2. n \in charged' \ charged => Accounted(n)'
      BY <1>1 DEF Accounted
    <2>3. RowOK(n)
      BY DEF RecordsInv
    <2>. QED
      BY <1>1, <2>1, <2>2, <2>3 DEF RowOK
  <1>. QED
    BY <1>2, <1>3 DEF RecordsKept

\* A handler ends without a change of what the service and NANO have recorded.
LEMMA EndKeepsRecords ==
    ASSUME RecordsInv, NEW h \in Handler, Return(h),
           UNCHANGED <<payments, returned, opened, charged, replayed>>,
           unrecorded \subseteq unrecorded'
    PROVE  /\ handlers'[h] = IdleJob /\ \A g \in Handler \ {h} : handlers'[g] = handlers[g]
           /\ \A g \in Handler : TurnOK(g)' /\ SettledOK(g)' /\ ExactOK(g)'
  <1>. USE DEF At
  <1>1. handlers'[h] = IdleJob /\ \A g \in Handler \ {h} : handlers'[g] = handlers[g]
    BY OneJob DEF Return, RecordsInv, PaymentsInv
  <1>2. IdleJob.step = "idle" /\ IdleJob.payment = NoPayment /\ NoPayment \notin Card
    BY PaymentsAssumption DEF IdleJob, Card
  <1>3. \A g \in Handler : At(g, "insert") => handlers[g].payment # NoPayment
    BY PaymentsAssumption DEF RecordsInv, PaymentsInv, JobsOK, JobOK
  <1>4. \A g \in Handler \ {h} : TurnOK(g)' /\ SettledOK(g)' /\ ExactOK(g)'
    BY <1>1, <1>2, <1>3, OthersKeepRecords DEF Locking
  <1>5. TurnOK(h)' /\ SettledOK(h)' /\ ExactOK(h)'
    BY <1>1, <1>2 DEF TurnOK, SettledOK, ExactOK, Locking, Saving
  <1>. QED
    BY <1>1, <1>4, <1>5

\* A handler that stops with an answer in hand leaves it unrecorded.
LEMMA CrashKeepsRecords ==
    ASSUME RecordsInv, NEW h \in Handler, Crash(h)
    PROVE  RecordsKept'
  <1>1. /\ Return(h) /\ UNCHANGED <<payments, alerted, opened, charged, returned, approvals, replayed>>
        /\ unrecorded \subseteq unrecorded'
        /\ handlers[h].step \in {"saveSucceeded", "commitCancel"} => handlers[h].payment \in unrecorded'
    BY DEF Crash, serviceVars, nanoVars, answers
  <1>2. /\ \A g \in Handler \ {h} : handlers'[g] = handlers[g]
        /\ \A g \in Handler : TurnOK(g)' /\ SettledOK(g)' /\ ExactOK(g)'
    BY <1>1, EndKeepsRecords
  <1>3. \A n \in Payment : RowOK(n)'
    BY <1>1, <1>2, RowsKeepRecords DEF Accounted
  <1>. QED
    BY <1>2, <1>3 DEF RecordsKept

\* The retried create copies the row anew.
LEMMA ReloadKeepsRecords ==
    ASSUME RecordsInv, NEW h \in Handler, Reload(h)
    PROVE  RecordsKept'
  <1>. DEFINE m == handlers[h].payment
              job == [handlers[h] EXCEPT !.step = "saveSucceeded", !.row = payments[m]]
  <1>. USE DEF At
  <1>1. h \in Client /\ h \notin Callback /\ TypeOK /\ handlers[h] \in Job
    BY RecordTypes DEF Reload, RecordsInv, PaymentsInv, TurnOK, Saving
  <1>2. handlers' = [handlers EXCEPT ![h] = job]
    BY <1>1 DEF Reload, TypeOK
  <1>3. handlers'[h] = job /\ \A g \in Handler \ {h} : handlers'[g] = handlers[g]
    BY <1>1, <1>2, OneJob
  <1>4. job.payment = m /\ job.step = "saveSucceeded"
    BY <1>1 DEF Job
  <1>. HIDE DEF job, m
  <1>5. /\ handlers[h].step = "reload" /\ handlers[h].payment = m
        /\ UNCHANGED <<payments, alerted, opened, charged, returned, approvals, unrecorded, replayed>>
    BY DEF Reload, serviceVars, nanoVars, answers, history, m
  <1>6. TurnOK(h)' /\ SettledOK(h)' /\ ExactOK(h)'
    BY <1>1, <1>3, <1>4, <1>5 DEF RecordsInv, TurnOK, SettledOK, ExactOK, Locking, Saving
  <1>7. \A g \in Handler \ {h} : handlers[g].payment = m => ~At(g, "insert")
    BY <1>5 DEF RecordsInv, TurnOK
  <1>8. \A g \in Handler \ {h} : TurnOK(g)' /\ SettledOK(g)' /\ ExactOK(g)'
    BY <1>3, <1>4, <1>5, <1>7, OthersKeepRecords DEF Locking
  <1>9. \A n \in Payment : RowOK(n)'
    BY <1>3, <1>5, RowsKeepRecords DEF Accounted
  <1>. QED
    BY <1>6, <1>8, <1>9 DEF RecordsKept

\* A handler writes the row of its payment and ends: what is left to show is about the
\* handlers of that payment and its row.
LEMMA WriteKeepsRecords ==
    ASSUME RecordsInv, NEW h \in Handler, Return(h), NEW m \in Payment, handlers[h].payment = m,
           \A n \in Payment \ {m} : payments'[n] = payments[n],
           UNCHANGED <<returned, opened, charged, approvals, unrecorded, replayed>>,
           alerted \subseteq alerted'
    PROVE  /\ handlers'[h] = IdleJob /\ \A g \in Handler \ {h} : handlers'[g] = handlers[g]
           /\ TurnOK(h)' /\ SettledOK(h)' /\ ExactOK(h)'
           /\ \A g \in Handler \ {h} : handlers[g].payment # m
                  => TurnOK(g)' /\ SettledOK(g)' /\ ExactOK(g)'
           /\ \A n \in Payment \ {m} : RowOK(n)'
  <1>. USE DEF At
  <1>1. handlers'[h] = IdleJob /\ \A g \in Handler \ {h} : handlers'[g] = handlers[g]
    BY OneJob DEF Return, RecordsInv, PaymentsInv
  <1>2. IdleJob.step = "idle" /\ IdleJob.payment = NoPayment /\ NoPayment \notin Card
    BY PaymentsAssumption DEF IdleJob, Card
  <1>3. \A n \in Payment \ {m} : payments'[n] = payments[n]
    OBVIOUS
  <1>4. TurnOK(h)' /\ SettledOK(h)' /\ ExactOK(h)'
    BY <1>1, <1>2 DEF TurnOK, SettledOK, ExactOK, Locking, Saving
  <1>5. ASSUME NEW g \in Handler \ {h}, handlers[g].payment # m
        PROVE  TurnOK(g)' /\ SettledOK(g)' /\ ExactOK(g)'
    <2>1. TurnOK(g) /\ SettledOK(g) /\ ExactOK(g) /\ JobOK(handlers[g])
      BY DEF RecordsInv, PaymentsInv, JobsOK
    <2>2. handlers[g].step # "idle" => payments'[handlers[g].payment] = payments[handlers[g].payment]
      BY <1>3, <1>5, <2>1 DEF JobOK
    <2>3. TurnOK(g)'
      BY <1>1, <1>2, <2>1, <2>2, PaymentsAssumption DEF TurnOK, JobOK, Locking, Saving
    <2>4. SettledOK(g)' /\ ExactOK(g)'
      BY <1>1, <2>1, <2>2 DEF SettledOK, ExactOK, Saving
    <2>. QED
      BY <2>3, <2>4
  <1>6. ASSUME NEW n \in Payment \ {m} PROVE RowOK(n)'
    <2>1. RowOK(n)
      BY DEF RecordsInv
    <2>2. Accounted(n) => Accounted(n)'
      BY <1>1, <1>3 DEF Accounted, Handler
    <2>3. (\E g \in Handler : At(g, "commitCancel") /\ handlers[g].payment = n)
            => (\E g \in Handler : At(g, "commitCancel") /\ handlers[g].payment = n)'
      BY <1>1
    <2>. QED
      BY <1>3, <2>1, <2>2, <2>3 DEF RowOK
  <1>. QED
    BY <1>1, <1>3, <1>4, <1>5, <1>6

\* A payment that is inserted was neither charged nor refunded.
LEMMA InsertKeepsRecords ==
    ASSUME RecordsInv, NEW h \in Handler, NEW m \in Payment, handlers[h].payment = m, Insert(h)
    PROVE  RecordsKept'
  <1>. DEFINE status == IF m \in Bypass THEN "succeeded" ELSE "requires_payment"
  <1>. USE DEF At
  <1>1. At(h, "insert") /\ Return(h) /\ m \in Payment
        /\ UNCHANGED <<alerted, opened, charged, returned, approvals, unrecorded, replayed>>
    BY DEF Insert, RecordsInv, PaymentsInv, JobsOK, JobOK, nanoVars, answers, history
  <1>2. payments[m] = NoRow /\ \A g \in Handler \ {h} : handlers[g].payment # m
    BY <1>1 DEF RecordsInv, TurnOK
  <1>3. CASE payments' = [payments EXCEPT ![m] = [NoRow EXCEPT !.status = status]]
    <2>0. PICK row : row = [NoRow EXCEPT !.status = status]
      OBVIOUS
    <2>1. row.status # "none" /\ row.canceled = 0
      BY <2>0 DEF NoRow
    <2>2. payments'[m] = row /\ \A n \in Payment \ {m} : payments'[n] = payments[n]
      BY <1>1, <1>3, <2>0 DEF RecordsInv, PaymentsInv, TypeOK
    <2>3. /\ payments'[m] = row
          /\ \A g \in Handler : TurnOK(g)' /\ SettledOK(g)' /\ ExactOK(g)'
          /\ \A n \in Payment \ {m} : RowOK(n)'
      <3>1. /\ TurnOK(h)' /\ SettledOK(h)' /\ ExactOK(h)'
            /\ \A g \in Handler \ {h} : handlers[g].payment # m
                  => TurnOK(g)' /\ SettledOK(g)' /\ ExactOK(g)'
            /\ \A n \in Payment \ {m} : RowOK(n)'
        BY <1>1, <2>2, WriteKeepsRecords
      <3>. QED
        BY <1>2, <2>2, <3>1
    <2>4. RowOK(m)'
      <3>1. m \notin opened /\ m \notin charged
        BY <1>1, <1>2 DEF RecordsInv, RowOK, NoRow, PaymentsInv, TypeOK
      <3>2. m \in Card \ (unrecorded \cup replayed) => returned[m] = 0
        BY <1>1, <1>2 DEF RecordsInv, RowOK, NoRow
      <3>. QED
        BY <1>1, <2>1, <2>3, <3>1, <3>2 DEF RowOK
    <2>. QED
      BY <2>3, <2>4 DEF RecordsKept
  <1>4. CASE UNCHANGED payments
    <2>1. /\ \A g \in Handler \ {h} : handlers'[g] = handlers[g]
          /\ \A g \in Handler : TurnOK(g)' /\ SettledOK(g)' /\ ExactOK(g)'
      BY <1>1, <1>4, EndKeepsRecords
    <2>2. \A n \in Payment : RowOK(n)'
      BY <1>1, <1>4, <2>1, RowsKeepRecords DEF Accounted
    <2>. QED
      BY <2>1, <2>2 DEF RecordsKept
  <1>. QED
    BY <1>3, <1>4 DEF Insert, Save, NothingSaved

\* A decline is saved over a success only when all the money went back.
LEMMA SaveFailedKeepsRecords ==
    ASSUME OneAnswer, RecordsInv, NEW h \in Handler, NEW m \in Payment, handlers[h].payment = m, SaveFailed(h)
    PROVE  RecordsKept'
  <1>. USE DEF At
  <1>1. At(h, "saveFailed") /\ Return(h) /\ m \in Payment
        /\ UNCHANGED <<alerted, opened, charged, returned, approvals, unrecorded, replayed>>
    BY DEF SaveFailed, RecordsInv, PaymentsInv, JobsOK, JobOK, nanoVars, answers, history
  <1>2. h \in Callback
    BY <1>1 DEF RecordsInv, TurnOK, Handler
  <1>3. CASE payments' = [payments EXCEPT ![m] = [handlers[h].row EXCEPT !.status = "failed"]]
    <2>0. PICK row : row = [handlers[h].row EXCEPT !.status = "failed"]
      OBVIOUS
    <2>1. row.status = "failed" /\ row.canceled = handlers[h].row.canceled /\ m \in Card
      <3>1. handlers[h].row \in Row
        BY DEF RecordsInv, PaymentsInv, TypeOK, Job
      <3>2. m \in Card
        BY <1>1, <1>2, PaymentsAssumption DEF RecordsInv, PaymentsInv, JobsOK, JobOK, Card
      <3>. QED
        BY <2>0, <3>1, <3>2 DEF Row
    <2>2. payments'[m] = row /\ \A n \in Payment \ {m} : payments'[n] = payments[n]
      BY <1>1, <1>3, <2>0 DEF RecordsInv, PaymentsInv, TypeOK
    <2>3. /\ handlers'[h] = IdleJob /\ \A g \in Handler \ {h} : handlers'[g] = handlers[g]
          /\ TurnOK(h)' /\ SettledOK(h)' /\ ExactOK(h)'
          /\ \A g \in Handler \ {h} : handlers[g].payment # m
                  => TurnOK(g)' /\ SettledOK(g)' /\ ExactOK(g)'
          /\ \A n \in Payment \ {m} : RowOK(n)'
      BY <1>1, <2>2, WriteKeepsRecords
    <2>4. \A g \in Handler \ {h} : handlers[g].payment = m => handlers[g].step \notin Locking
      BY DEF SaveFailed, Locked, Locking
    <2>5. SettledOK(h) /\ ExactOK(h) /\ RowOK(m)
      BY <1>1, <2>2 DEF RecordsInv
    <2>6. ASSUME NEW g \in Handler \ {h}, handlers[g].payment = m
          PROVE  TurnOK(g)' /\ SettledOK(g)' /\ ExactOK(g)'
      <3>1. g \in Client /\ g \notin Callback /\ TurnOK(g) /\ SettledOK(g) /\ ExactOK(g)
        BY <1>2, PaymentsAssumption DEF OneAnswer, Handler, RecordsInv
      <3>2. handlers[g].step \notin Locking /\ ~At(g, "insert")
        BY <1>1, <2>2, <2>4, <2>6, <3>1 DEF TurnOK
      <3>3. TurnOK(g)'
        BY <1>1, <2>3, <3>1, <3>2 DEF TurnOK
      <3>4. SettledOK(g)'
        BY <1>1, <2>1, <2>2, <2>3, <2>5, <2>6, <3>1 DEF SettledOK
      <3>5. ExactOK(g)'
        BY <1>1, <2>1, <2>2, <2>3, <2>6, <3>1, <3>2 DEF TurnOK, ExactOK, Locking, Saving
      <3>. QED
        BY <3>3, <3>4, <3>5
    <2>7. RowOK(m)'
      <3>1. m \in charged \ unrecorded => Accounted(m)'
        <4>1. ~\E g \in Callback : At(g, "saveSucceeded") /\ handlers[g].payment = m
          BY <1>1, <1>2 DEF OneAnswer
        <4>. QED
          BY <1>1, <2>1, <2>2, <2>5, <4>1 DEF RowOK, Accounted, SettledOK
      <3>2. m \in Card \ (unrecorded \cup replayed) => row.canceled = returned[m]
        BY <1>1, <2>1, <2>2, <2>4, <2>5 DEF RowOK, ExactOK, Saving, Locking
      <3>. QED
        BY <1>1, <2>1, <2>2, <3>1, <3>2 DEF RowOK
    <2>. QED
      BY <2>3, <2>6, <2>7 DEF RecordsKept
  <1>4. CASE UNCHANGED payments
    <2>1. /\ \A g \in Handler \ {h} : handlers'[g] = handlers[g]
          /\ \A g \in Handler : TurnOK(g)' /\ SettledOK(g)' /\ ExactOK(g)'
      BY <1>1, <1>4, EndKeepsRecords
    <2>2. \A n \in Payment : RowOK(n)'
      BY <1>1, <1>4, <2>1, RowsKeepRecords DEF Accounted
    <2>. QED
      BY <2>1, <2>2 DEF RecordsKept
  <1>. QED
    BY <1>3, <1>4 DEF SaveFailed, Save, NothingSaved

\* An approval is saved from a copy with every refund, or was replayed.
LEMMA SaveSucceededKeepsRecords ==
    ASSUME OneAnswer, RecordsInv, NEW h \in Handler, NEW m \in Payment, handlers[h].payment = m,
           SaveSucceeded(h)
    PROVE  RecordsKept'
  <1>. USE DEF At
  <1>1. At(h, "saveSucceeded") /\ Return(h)
        /\ UNCHANGED <<opened, charged, returned, approvals, unrecorded, replayed>>
        /\ alerted \subseteq alerted'
    BY DEF SaveSucceeded, nanoVars, answers, history
  <1>2. \A g \in Handler : handlers[g].payment = m => handlers[g].step \notin Locking
    BY DEF SaveSucceeded, Locked, Locking
  <1>3. /\ TurnOK(h) /\ SettledOK(h) /\ ExactOK(h) /\ RowOK(m)
        /\ h \in Client => m \in replayed
    BY <1>1 DEF RecordsInv, TurnOK
  <1>4. CASE payments' = [payments EXCEPT ![m] = [handlers[h].row EXCEPT !.status = "succeeded"]]
    <2>0. PICK row : row = [handlers[h].row EXCEPT !.status = "succeeded"]
      OBVIOUS
    <2>1. row.status = "succeeded" /\ row.canceled = handlers[h].row.canceled
      BY <2>0 DEF RecordsInv, PaymentsInv, TypeOK, Job, Row
    <2>2. payments'[m] = row /\ \A n \in Payment \ {m} : payments'[n] = payments[n]
      BY <1>4, <2>0 DEF RecordsInv, PaymentsInv, TypeOK
    <2>3. /\ handlers'[h] = IdleJob /\ \A g \in Handler \ {h} : handlers'[g] = handlers[g]
          /\ TurnOK(h)' /\ SettledOK(h)' /\ ExactOK(h)'
          /\ \A g \in Handler \ {h} : handlers[g].payment # m
                  => TurnOK(g)' /\ SettledOK(g)' /\ ExactOK(g)'
          /\ \A n \in Payment \ {m} : RowOK(n)'
      BY <1>1, <2>2, WriteKeepsRecords
    <2>4. ASSUME NEW g \in Handler \ {h}, handlers[g].payment = m
          PROVE  TurnOK(g)' /\ SettledOK(g)' /\ ExactOK(g)'
      <3>1. TurnOK(g) /\ SettledOK(g) /\ ExactOK(g)
        BY DEF RecordsInv
      <3>2. handlers[g].step \notin Locking /\ ~At(g, "insert")
        BY <1>2, <2>4, <3>1 DEF TurnOK
      <3>3. TurnOK(g)'
        BY <1>1, <2>3, <3>1, <3>2 DEF TurnOK
      <3>4. g \in Client \/ h \in Client
        BY DEF OneAnswer, Handler
      <3>5. SettledOK(g)'
        BY <1>1, <1>3, <2>1, <2>2, <2>3, <2>4, <3>1, <3>4 DEF TurnOK, SettledOK
      <3>6. ExactOK(g)'
        BY <1>1, <1>3, <2>3, <2>4, <3>1, <3>2, <3>4 DEF TurnOK, ExactOK, Locking, Saving
      <3>. QED
        BY <3>3, <3>5, <3>6
    <2>5. RowOK(m)'
      <3>1. m \in Card \ (unrecorded \cup replayed) => row.canceled = returned[m]
        BY <1>1, <1>2, <1>3, <2>1 DEF RowOK, ExactOK, Saving, Locking
      <3>. QED
        BY <1>1, <2>1, <2>2, <3>1 DEF RowOK, Accounted
    <2>. QED
      BY <2>3, <2>4, <2>5 DEF RecordsKept
  <1>5. CASE UNCHANGED payments /\ (h \in Callback => m \in alerted')
    <2>1. /\ \A g \in Handler \ {h} : handlers'[g] = handlers[g]
          /\ \A g \in Handler : TurnOK(g)' /\ SettledOK(g)' /\ ExactOK(g)'
      BY <1>1, <1>5, EndKeepsRecords
    <2>2. ASSUME NEW n \in Payment PROVE RowOK(n)'
      <3>1. RowOK(n)
        BY DEF RecordsInv
      <3>2. Accounted(n) => Accounted(n)'
        BY <1>1, <1>5, <2>1 DEF Accounted, Handler
      <3>3. (\E g \in Handler : At(g, "commitCancel") /\ handlers[g].payment = n)
              => (\E g \in Handler : At(g, "commitCancel") /\ handlers[g].payment = n)'
        BY <1>1, <2>1
      <3>. QED
        BY <1>1, <1>5, <3>1, <3>2, <3>3 DEF RowOK
    <2>. QED
      BY <2>1, <2>2 DEF RecordsKept
  <1>. QED
    BY <1>4, <1>5 DEF SaveSucceeded, Save, NothingSaved

\* NANO gives back what the cancel is about to record.
LEMMA CallRefundKeepsRecords ==
    ASSUME RecordsInv, NEW h \in Handler, NEW m \in Payment, handlers[h].payment = m,
           CallRefund(h)
    PROVE  RecordsKept'
  <1>0. PICK n : n = handlers[h].amount
    OBVIOUS
  <1>. USE DEF At
  <1>1. /\ At(h, "refund") /\ m \in Card /\ TurnOK(h) /\ RowOK(m) /\ h \notin Callback
        /\ UNCHANGED <<payments, alerted, opened, charged, approvals, replayed>>
    BY DEF CallRefund, serviceVars, answers, RecordsInv, PaymentsInv, JobsOK, JobOK, TurnOK, Saving
  <1>2. /\ handlers[h].row = payments[m] /\ payments[m].status = "succeeded"
        /\ \A g \in Handler \ {h} : handlers[g].payment = m => handlers[g].step \notin Locking
    BY <1>1 DEF RecordsInv, PaymentsInv, JobsOK, JobOK, TurnOK, Locking
  <1>3. /\ n \in 1..(Amount - payments[m].canceled) /\ payments[m].canceled \in 0..Amount
        /\ returned[m] \in 0..Amount /\ Amount \in Nat
        /\ handlers \in [Handler -> Job] /\ returned \in [Payment -> 0..Amount]
    BY <1>0, <1>1, <1>2, RecordTypes DEF RecordsInv, PaymentsInv, JobsOK, JobOK, Remaining, TypeOK
  <1>4. CASE Amount - returned[m] - n >= 0 /\ returned' = [returned EXCEPT ![m] = @ + n]
    <2>1. /\ returned'[m] = returned[m] + n /\ returned[m] # Amount
          /\ \A p \in Payment \ {m} : returned'[p] = returned[p]
      BY <1>3, <1>4
    <2>2. ASSUME NEW g \in Handler \ {h}, \A f \in Handler \ {h} : handlers'[f] = handlers[f],
                 unrecorded \subseteq unrecorded',
                 handlers'[h].payment \in {m, NoPayment}
          PROVE  TurnOK(g)' /\ SettledOK(g)' /\ ExactOK(g)'
      <3>1. TurnOK(g) /\ SettledOK(g) /\ ExactOK(g) /\ JobOK(handlers[g])
        BY DEF RecordsInv, PaymentsInv, JobsOK
      <3>2. At(g, "insert") => handlers[g].payment \notin {m, NoPayment}
        BY <3>1, PaymentsAssumption DEF TurnOK, JobOK
      <3>3. handlers[g].step \in Locking => handlers[g].payment \notin {m, NoPayment}
        BY <1>2, <3>1, PaymentsAssumption DEF JobOK, Locking
      <3>4. TurnOK(g)'
        BY <1>1, <2>2, <3>1, <3>2, <3>3 DEF TurnOK
      <3>5. SettledOK(g)'
        BY <1>1, <2>1, <2>2, <3>1 DEF SettledOK, Card
      <3>6. ExactOK(g)'
        BY <1>1, <1>2, <2>1, <2>2, <3>1 DEF ExactOK, Card, Locking
      <3>. QED
        BY <3>4, <3>5, <3>6
    <2>3. ASSUME NEW p \in Payment, \A g \in Handler \ {h} : handlers'[g] = handlers[g],
                 unrecorded \subseteq unrecorded',
                 p = m => m \in unrecorded' \/ (At(h, "commitCancel") /\ handlers[h].payment = m)'
          PROVE  RowOK(p)'
      <3>1. RowOK(p)
        BY DEF RecordsInv
      <3>2. p \in charged \ unrecorded => Accounted(p)'
        <4>1. CASE p = m
          BY <1>1, <1>2, <4>1 DEF Accounted
        <4>2. CASE p # m
          BY <1>1, <2>1, <2>3, <3>1, <4>2 DEF RowOK, Accounted, Handler
        <4>. QED
          BY <4>1, <4>2
      <3>3. p \in Card \ (unrecorded' \cup replayed') =>
                (\/ payments[p].canceled = returned[p]
                 \/ \E g \in Handler : At(g, "commitCancel") /\ handlers[g].payment = p)'
        <4>1. CASE p = m
          BY <2>3, <4>1
        <4>2. CASE p # m
          BY <1>1, <2>1, <2>3, <3>1, <4>2 DEF RowOK
        <4>. QED
          BY <4>1, <4>2
      <3>. QED
        BY <1>1, <2>3, <3>1, <3>2, <3>3 DEF RowOK
    <2>4. ASSUME NEW amount \in {n, Reconciled(Remaining(handlers[h].row), Amount - returned[m] - n)},
                 handlers' = [handlers EXCEPT ![h].step = "commitCancel", ![h].amount = amount],
                 UNCHANGED unrecorded
          PROVE  RecordsKept'
      <3>0. PICK job : job = [handlers[h] EXCEPT !.step = "commitCancel", !.amount = amount]
        OBVIOUS
      <3>1. /\ handlers'[h] = job /\ \A g \in Handler \ {h} : handlers'[g] = handlers[g]
        BY <1>3, <2>4, <3>0
      <3>2. /\ job.step = "commitCancel" /\ job.payment = m /\ job.row = payments[m]
            /\ job.amount = amount
        BY <1>2, <1>3, <3>0 DEF Job
      <3>3. \A g \in Handler \ {h} : TurnOK(g)' /\ SettledOK(g)' /\ ExactOK(g)'
        BY <2>2, <2>4, <3>1, <3>2
      <3>4. TurnOK(h)'
        BY <1>1, <1>2, <3>1, <3>2 DEF TurnOK, Locking
      <3>5. m \in Card \ (unrecorded \cup replayed) => payments[m].canceled + amount = returned'[m]
        <4>1. m \in Card \ (unrecorded \cup replayed) => payments[m].canceled = returned[m]
          BY <1>1, <1>2 DEF RowOK, Locking
        <4>2. payments[m].canceled = returned[m] => amount = n
          BY <1>2, <1>3, <2>4 DEF Reconciled, Remaining
        <4>. QED
          BY <2>1, <4>1, <4>2
      <3>6. SettledOK(h)' /\ ExactOK(h)'
        BY <1>1, <2>4, <3>1, <3>2, <3>5 DEF SettledOK, ExactOK, Saving
      <3>7. \A p \in Payment : RowOK(p)'
        BY <2>3, <2>4, <3>1, <3>2
      <3>. QED
        BY <3>3, <3>4, <3>6, <3>7 DEF RecordsKept
    <2>5. CASE Return(h) /\ unrecorded' = unrecorded \cup {m}
      <3>1. handlers'[h] = IdleJob /\ \A g \in Handler \ {h} : handlers'[g] = handlers[g]
        BY <1>3, <2>5 DEF Return
      <3>2. IdleJob.step = "idle" /\ IdleJob.payment = NoPayment /\ NoPayment \notin Card
        BY PaymentsAssumption DEF IdleJob, Card
      <3>3. \A g \in Handler \ {h} : TurnOK(g)' /\ SettledOK(g)' /\ ExactOK(g)'
        BY <2>2, <2>5, <3>1, <3>2
      <3>4. TurnOK(h)' /\ SettledOK(h)' /\ ExactOK(h)'
        BY <3>1, <3>2 DEF TurnOK, SettledOK, ExactOK, Locking, Saving
      <3>5. \A p \in Payment : RowOK(p)'
        BY <2>3, <2>5, <3>1
      <3>. QED
        BY <3>3, <3>4, <3>5 DEF RecordsKept
    <2>6. \/ Return(h) /\ unrecorded' = unrecorded \cup {m}
          \/ /\ UNCHANGED unrecorded
             /\ \E amount \in {n, Reconciled(Remaining(handlers[h].row), Amount - returned[m] - n)} :
                   handlers' = [handlers EXCEPT ![h].step = "commitCancel", ![h].amount = amount]
      <3>1. returned' # returned
        BY <1>3, <2>1
      <3>. QED
        BY <1>0, <3>1 DEF CallRefund
    <2>. QED
      BY <2>4, <2>5, <2>6
  <1>5. CASE Return(h) /\ UNCHANGED <<returned, unrecorded>>
    <2>1. /\ \A g \in Handler \ {h} : handlers'[g] = handlers[g]
          /\ \A g \in Handler : TurnOK(g)' /\ SettledOK(g)' /\ ExactOK(g)'
      BY <1>1, <1>5, EndKeepsRecords
    <2>2. \A p \in Payment : RowOK(p)'
      BY <1>1, <1>5, <2>1, RowsKeepRecords DEF Accounted
    <2>. QED
      BY <2>1, <2>2 DEF RecordsKept
  <1>. QED
    BY <1>0, <1>4, <1>5 DEF CallRefund

\* The refund is recorded upon the row the cancel holds.
LEMMA CommitCancelKeepsRecords ==
    ASSUME RecordsInv, PaymentsInv', NEW h \in Handler, NEW m \in Payment,
           handlers[h].payment = m, CommitCancel(h)
    PROVE  RecordsKept'
  <1>. USE DEF At
  <1>1. /\ At(h, "commitCancel") /\ Return(h) /\ ExactOK(h) /\ RowOK(m)
        /\ UNCHANGED <<alerted, opened, charged, returned, approvals, replayed>>
    BY DEF CommitCancel, nanoVars, answers, RecordsInv
  <1>2. /\ handlers[h].row = payments[m] /\ payments[m].status = "succeeded"
        /\ \A g \in Handler \ {h} : handlers[g].payment = m => handlers[g].step \notin Locking
    BY <1>1 DEF RecordsInv, PaymentsInv, JobsOK, JobOK, TurnOK, Locking
  <1>3. CASE payments' = [payments EXCEPT ![m] = Applied(handlers[h])] /\ UNCHANGED unrecorded
    <2>0. PICK row : row = Applied(handlers[h])
      OBVIOUS
    <2>1. /\ row.status \in {"succeeded", "canceled"}
          /\ row.canceled = payments[m].canceled + handlers[h].amount
      BY <1>2, <2>0 DEF Applied
    <2>2. payments'[m] = row /\ \A n \in Payment \ {m} : payments'[n] = payments[n]
      BY <1>3, <2>0 DEF RecordsInv, PaymentsInv, TypeOK
    <2>3. /\ handlers'[h] = IdleJob /\ \A g \in Handler \ {h} : handlers'[g] = handlers[g]
          /\ TurnOK(h)' /\ SettledOK(h)' /\ ExactOK(h)'
          /\ \A g \in Handler \ {h} : handlers[g].payment # m
                  => TurnOK(g)' /\ SettledOK(g)' /\ ExactOK(g)'
          /\ \A n \in Payment \ {m} : RowOK(n)'
      BY <1>1, <1>3, <2>2, WriteKeepsRecords
    <2>4. m \in Card => row.status = "succeeded" \/ returned[m] = Amount
      BY <1>1, <2>1, <2>2 DEF PaymentsInv, FullRefundIsTold
    <2>5. ASSUME NEW g \in Handler \ {h}, handlers[g].payment = m
          PROVE  TurnOK(g)' /\ SettledOK(g)' /\ ExactOK(g)'
      <3>1. TurnOK(g) /\ SettledOK(g) /\ ExactOK(g)
        BY DEF RecordsInv
      <3>2. handlers[g].step \notin Locking /\ ~At(g, "insert")
        BY <1>2, <2>5, <3>1 DEF TurnOK
      <3>3. TurnOK(g)'
        BY <1>1, <2>3, <3>1, <3>2 DEF TurnOK
      <3>4. SettledOK(g)'
        BY <1>1, <1>2, <2>2, <2>3, <2>4, <2>5, <3>1 DEF SettledOK
      <3>5. ExactOK(g)'
        BY <1>1, <1>2, <1>3, <2>3, <2>5, <3>1, <3>2 DEF ExactOK, Locking
      <3>. QED
        BY <3>3, <3>4, <3>5
    <2>6. RowOK(m)'
      <3>1. m \in Card \ (unrecorded \cup replayed) => row.canceled = returned[m]
        BY <1>1, <2>1 DEF ExactOK
      <3>2. m \in charged => m \in Card
        BY DEF RecordsInv, PaymentsInv, TypeOK
      <3>. QED
        BY <1>1, <1>3, <2>1, <2>2, <2>4, <3>1, <3>2 DEF RowOK, Accounted
    <2>. QED
      BY <2>3, <2>5, <2>6 DEF RecordsKept
  <1>4. CASE UNCHANGED payments /\ unrecorded' = unrecorded \cup {m}
    <2>1. /\ \A g \in Handler \ {h} : handlers'[g] = handlers[g]
          /\ \A g \in Handler : TurnOK(g)' /\ SettledOK(g)' /\ ExactOK(g)'
      BY <1>1, <1>4, EndKeepsRecords
    <2>2. \A n \in Payment : RowOK(n)'
      BY <1>1, <1>4, <2>1, RowsKeepRecords DEF Accounted
    <2>. QED
      BY <2>1, <2>2 DEF RecordsKept
  <1>. QED
    BY <1>3, <1>4 DEF CommitCancel, Save, NothingSaved

LEMMA StepKeepsRecords ==
    ASSUME OneAnswer, RecordsInv, [Next]_vars
    PROVE  RecordsInv'
  <1>0. PaymentsInv'
    BY StepKeeps DEF RecordsInv
  <1>1. ASSUME NEW h \in Handler, Continue(h) \/ Crash(h)
        PROVE  RecordsKept'
    <2>1. CASE Crash(h)
      BY <2>1, CrashKeepsRecords
    <2>2. CASE Reload(h)
      BY <2>2, ReloadKeepsRecords
    <2>3. ASSUME handlers[h].step # "idle",
                 Insert(h) \/ SaveSucceeded(h) \/ SaveFailed(h) \/ CallRefund(h) \/ CommitCancel(h)
          PROVE  RecordsKept'
      <3>1. PICK m \in Payment : handlers[h].payment = m
        BY <2>3 DEF RecordsInv, PaymentsInv, JobsOK, JobOK
      <3>. QED
        BY <1>0, <2>3, <3>1, InsertKeepsRecords, SaveSucceededKeepsRecords, SaveFailedKeepsRecords,
           CallRefundKeepsRecords, CommitCancelKeepsRecords
    <2>4. Continue(h) => handlers[h].step # "idle"
      BY DEF Continue, Insert, Reload, SaveSucceeded, SaveFailed, CallRefund, CommitCancel, At
    <2>. QED
      BY <1>1, <2>1, <2>2, <2>3, <2>4 DEF Continue
  <1>2. ASSUME NEW h \in Client, NEW m \in Payment, BeginCreate(h, m) \/ BeginRetry(h, m)
        PROVE  RecordsKept'
    BY <1>2, CreateKeepsRecords, RetryKeepsRecords
  <1>3. ASSUME NEW h \in Client, NEW m \in Payment, NEW k \in CancelKey \cup {NoKey},
               NEW n \in 1..Amount, BeginCancel(h, m, k, n)
        PROVE  RecordsKept'
    BY <1>3, BeginCancelKeepsRecords
  <1>4. ASSUME NEW h \in Callback, NEW m \in Payment, ReceiveApproval(h, m) \/ ReceiveDecline(h, m)
        PROVE  RecordsKept'
    BY <1>4, ReceiveKeepsRecords
  <1>5. ASSUME NEW m \in Payment, OpenCheckout(m) \/ Charge(m) \/ Decline(m)
        PROVE  RecordsKept'
    BY <1>5, NanoKeepsRecords
  <1>6. CASE UNCHANGED vars
    <2>1. UNCHANGED <<payments, alerted, handlers, opened, charged, returned, approvals,
                      unrecorded, replayed>>
      BY <1>6 DEF vars, serviceVars, nanoVars, answers, history
    <2>2. \A h \in Handler : TurnOK(h)' /\ SettledOK(h)' /\ ExactOK(h)'
      BY <2>1 DEF RecordsInv, TurnOK, SettledOK, ExactOK, At
    <2>3. \A m \in Payment : RowOK(m)'
      BY <2>1 DEF RecordsInv, RowOK, Accounted, At
    <2>. QED
      BY <1>0, <2>2, <2>3 DEF RecordsInv
  <1>7. PaymentsInv' /\ RecordsKept' => RecordsInv'
    BY DEF RecordsInv, RecordsKept
  <1>. QED
    BY <1>0, <1>1, <1>2, <1>3, <1>4, <1>5, <1>6, <1>7 DEF Next

LEMMA RecordsInitially == Init => RecordsInv
  <1>. SUFFICES ASSUME Init PROVE RecordsInv
    OBVIOUS
  <1>1. PaymentsInv
    BY InitHolds
  <1>2. \A h \in Handler : handlers[h] = IdleJob
    BY DEF Init
  <1>3. \A h \in Handler : TurnOK(h) /\ SettledOK(h) /\ ExactOK(h)
    BY <1>2 DEF TurnOK, SettledOK, ExactOK, IdleJob, At, Locking, Saving
  <1>4. \A m \in Payment : RowOK(m)
    BY DEF Init, RowOK, NoRow, Card
  <1>. QED
    BY <1>1, <1>3, <1>4 DEF RecordsInv

\* While one answer is handled at a time, the copies the handlers will save and the
\* rows agree with NANO's books as RecordsInv says.
THEOREM RecordsInvHolds ==
    ASSUME OneAnswer
    PROVE  Spec => []RecordsInv
  <1>1. Init => RecordsInv
    BY RecordsInitially
  <1>2. RecordsInv /\ [Next]_vars => RecordsInv'
    BY StepKeepsRecords
  <1>. QED
    BY <1>1, <1>2, PTL DEF Spec

\* Once NANO has given money back, the row says so, unless the answer was lost, the
\* process stopped before the commit or an older success was saved again (CancelPayment).
THEOREM OnlyLostAnswersLoseRefundsHolds ==
    ASSUME OneAnswer
    PROVE  Spec => []OnlyLostAnswersLoseRefunds
  <1>1. RecordsInv => OnlyLostAnswersLoseRefunds
    BY PaymentsAssumption DEF RecordsInv, OnlyLostAnswersLoseRefunds, RowOK, Locked, At, Card
  <1>. QED
    BY <1>1, RecordsInvHolds, PTL

\* Money NANO took and holds is on the books as succeeded, or somebody was alerted,
\* once its answer was handled (HandleNanoResult).
THEOREM HeldMoneyIsOnTheBooksHolds ==
    ASSUME OneAnswer
    PROVE  Spec => []HeldMoneyIsOnTheBooks
  <1>1. RecordsInv => HeldMoneyIsOnTheBooks
    <2>. SUFFICES ASSUME RecordsInv, NEW m \in charged \ unrecorded, m \notin approvals,
                         \A h \in Handler : handlers[h].payment # m, returned[m] < Amount
                  PROVE  payments[m].status = "succeeded" \/ m \in alerted
      BY DEF HeldMoneyIsOnTheBooks
    <2>1. m \in Payment /\ returned[m] # Amount
      BY PaymentsAssumption DEF RecordsInv, PaymentsInv, TypeOK, Card
    <2>2. Accounted(m)
      BY <2>1 DEF RecordsInv, RowOK
    <2>. QED
      BY <2>1, <2>2 DEF Accounted, Handler
  <1>. QED
    BY <1>1, RecordsInvHolds, PTL
=============================================================================
