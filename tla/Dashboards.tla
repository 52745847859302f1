----------------------------- MODULE Dashboards -----------------------------
(***************************************************************************)
(* Four dashboards of the account, which share nothing: the live cost      *)
(* meter, the transaction pulse of the banking page, the creator's         *)
(* earnings, and the table of transactions with its invoices.              *)
(***************************************************************************)
EXTENDS Integers, Sequences, FiniteSets, FiniteSetsExt, SequencesExt

(***************************************************************************)
(* The live cost meter: the ticker that sums the meter readings of one     *)
(* pipeline run and tells its listener at most once an interval, the       *)
(* component that makes a new ticker whenever the run or the currency      *)
(* changes, the detector of a stale stream and the odometer that animates  *)
(* from one amount to the next.  The bus is external: it may deliver a     *)
(* reading twice, late, or of another run.  Costs are in half cents.       *)
(***************************************************************************)

CONSTANTS
  MeterReadings, \* reading id -> [run, specialist, cost]
  MeterRuns,     \* pipeline run ids
  NoRun,         \* no run yet: the idle meter
  BudgetCap      \* budget_cap_usd; 0 is no cap

ASSUME MeterAssumption ==
  /\ NoRun \notin MeterRuns /\ BudgetCap \in Nat
  /\ \A r \in DOMAIN MeterReadings : MeterReadings[r].run \in MeterRuns /\ MeterReadings[r].cost \in Int
  /\ IsFiniteSet({MeterReadings[r].specialist : r \in DOMAIN MeterReadings})

VARIABLES
  meter,    \* the props: [run, currency]
  ticker,   \* CoalescingCostTicker: [seen, total, shares, dirty, streaming, handle]
  tick,     \* the browser holds the timer of a flush
  snapshot, \* the snapshot rendered: [run, currency, total, alert, streaming, stamp]
  stale,    \* useStaleDetector: [is, timer]
  odometer, \* DigitOdometer: [prior, to, shown, raf]
  told      \* readings the bus delivered to this ticker

meterVars == <<meter, ticker, tick, snapshot, stale, odometer, told>>

Currencies == {"USD", "IDR"}
Between == [currency |-> "none", units |-> 0] \* digits on the way from one amount to the other

\* formatCurrency: dollars are rounded to cents, rupiah show every half cent.
FormatCurrency(cost, currency) ==
  [currency |-> currency, units |-> IF currency = "USD" THEN (cost + 1) \div 2 ELSE cost]

AlertLevel(cost) ==
  CASE BudgetCap = 0 \/ 2 * cost < BudgetCap -> "none"
    [] BudgetCap > 0 /\ cost >= BudgetCap    -> "critical"
    [] BudgetCap > cost /\ 5 * cost >= 4 * BudgetCap -> "warning"
    [] OTHER -> "advisory"

Specialists == {MeterReadings[r].specialist : r \in DOMAIN MeterReadings}
\* What a reading adds: a negative cost is clamped to nothing.
Cost == [r \in DOMAIN MeterReadings |-> IF MeterReadings[r].cost > 0 THEN MeterReadings[r].cost ELSE 0]
CostOf(readings) == MapThenSumSet(LAMBDA r : Cost[r], readings)

NewTicker == [seen |-> {}, total |-> 0, shares |-> [s \in Specialists |-> 0],
              dirty |-> FALSE, streaming |-> TRUE, handle |-> FALSE]

\* getSnapshot; stamp stands for last_updated_at: it moves with every reading counted.
SnapshotOf(t) == [run |-> meter.run, currency |-> meter.currency, total |-> t.total,
                  alert |-> AlertLevel(t.total), streaming |-> t.streaming,
                  stamp |-> Cardinality({r \in t.seen : MeterReadings[r].cost > 0})]

\* The odometer's effect, when the formatted amount it is given changes.
Retarget(o, amount) ==
  CASE amount = o.to    -> o
    [] amount # o.to /\ amount = o.prior -> [o EXCEPT !.to = amount, !.shown = amount, !.raf = FALSE]
    [] OTHER            -> [o EXCEPT !.to = amount, !.raf = TRUE]

Render(s) ==
  /\ snapshot' = s
  /\ odometer' = Retarget(odometer, FormatCurrency(s.total, s.currency))
  /\ stale' = IF s.stamp = snapshot.stamp /\ s.streaming = snapshot.streaming THEN stale
              ELSE [is |-> FALSE, timer |-> s.streaming]

Settled(cost, currency) ==
  LET amount == FormatCurrency(cost, currency)
  IN [prior |-> amount, to |-> amount, shown |-> amount, raf |-> FALSE]

MeterInit ==
  /\ meter \in [run : MeterRuns \union {NoRun}, currency : Currencies]
  /\ ticker = NewTicker /\ tick = FALSE /\ told = {}
  /\ snapshot = [SnapshotOf(NewTicker) EXCEPT !.streaming = meter.run # NoRun]
  /\ stale = [is |-> FALSE, timer |-> meter.run # NoRun]
  /\ odometer = Settled(0, meter.currency)

\* The effect of useLiveCostSnapshot: the old ticker stops and its timer goes, the new one
\* tells its first snapshot in a microtask.  Without a run the idle meter replaces the
\* display; with the next run the odometer is mounted again, on the old snapshot.
MeterPropsChange(run, currency) ==
  /\ <<run, currency>> # <<meter.run, meter.currency>>
  /\ meter' = [run |-> run, currency |-> currency]
  /\ ticker' = NewTicker /\ tick' = FALSE /\ told' = {}
  /\ IF run = NoRun
     THEN UNCHANGED <<snapshot, stale, odometer>>
     ELSE /\ snapshot' = [run |-> run, currency |-> currency, total |-> 0, alert |-> AlertLevel(0),
                            streaming |-> TRUE, stamp |-> 0]
          /\ stale' = [is |-> FALSE, timer |-> TRUE]
          /\ odometer' = Retarget(IF meter.run = NoRun
                                  THEN Settled(snapshot.total, snapshot.currency) ELSE odometer,
                                  FormatCurrency(0, currency))

\* flushImmediate: the listener of the mounted component gets the snapshot.
FlushImmediate(t) ==
  /\ ticker' = [t EXCEPT !.dirty = FALSE]
  /\ Render(SnapshotOf(t))

\* markDirty: one timer for all the changes of an interval; after the end, at once.
MarkDirty(t) ==
  IF t.handle
  THEN /\ ticker' = [t EXCEPT !.dirty = TRUE] /\ UNCHANGED <<tick, snapshot, stale, odometer>>
  ELSE IF t.streaming
       THEN /\ ticker' = [t EXCEPT !.dirty = TRUE, !.handle = TRUE] /\ tick' = TRUE
            /\ UNCHANGED <<snapshot, stale, odometer>>
       ELSE FlushImmediate(t) /\ UNCHANGED tick

\* CostAccumulator.add: a reading counts once, by its id, and one that costs nothing, or less,
\* is marked as seen and adds nothing.
AddCost(t, r) ==
  LET reading == MeterReadings[r]
  IN [t EXCEPT !.seen = @ \union {r}, !.total = @ + reading.cost,
               !.shares[reading.specialist] = @ + reading.cost]

AddAnySign(t, r) == \* without the guard on the cost
  IF r \in t.seen THEN t ELSE AddCost(t, r)

Add(t, r) ==
  CASE r \in t.seen -> t
    [] r \notin t.seen /\ MeterReadings[r].cost <= 0 -> [t EXCEPT !.seen = @ \union {r}]
    [] OTHER -> AddCost(t, r)

IngestReading(r) ==
  LET after == Add(ticker, r)
  IN IF after.total = ticker.total
     THEN ticker' = after /\ UNCHANGED <<tick, snapshot, stale, odometer>>
     ELSE MarkDirty(after)

ReadingRecorded(r) ==
  /\ meter.run = MeterReadings[r].run
  /\ told' = told \union {r}
  /\ IngestReading(r)
  /\ UNCHANGED meter

\* threshold_crossed and projection_updated only ask for a flush.
ThresholdCrossed ==
  /\ meter.run # NoRun /\ MarkDirty(ticker)
  /\ UNCHANGED <<meter, told>>

NoFlush(t) == ticker' = t /\ UNCHANGED <<snapshot, stale, odometer>>

FlushIfDirty ==
  LET fired == [ticker EXCEPT !.handle = FALSE]
  IN IF ticker.dirty THEN FlushImmediate(fired) ELSE NoFlush(fired)

TickFires ==
  /\ tick /\ tick' = FALSE
  /\ FlushIfDirty
  /\ UNCHANGED <<meter, told>>

\* pipeline.run.completed, of this run or of none: the pending timer stays.
RunCompleted ==
  /\ meter.run # NoRun
  /\ FlushImmediate([ticker EXCEPT !.streaming = FALSE])
  /\ UNCHANGED <<meter, tick, told>>

StaleFires ==
  /\ stale.timer /\ stale' = [is |-> TRUE, timer |-> FALSE]
  /\ UNCHANGED <<meter, ticker, tick, snapshot, odometer, told>>

\* One frame of the odometer: interpolateDigits until the duration is over.
AnimateStep ==
  /\ odometer.raf
  /\ \/ odometer' = [odometer EXCEPT !.shown = Between]
     \/ odometer' = [odometer EXCEPT !.shown = odometer.to, !.prior = odometer.to, !.raf = FALSE]
  /\ UNCHANGED <<meter, ticker, tick, snapshot, stale, told>>

MeterNext ==
  \/ \E run \in MeterRuns \union {NoRun}, currency \in Currencies : MeterPropsChange(run, currency)
  \/ \E r \in DOMAIN MeterReadings : ReadingRecorded(r)
  \/ ThresholdCrossed \/ RunCompleted
  \/ TickFires \/ StaleFires \/ AnimateStep

MeterSpec == MeterInit /\ [][MeterNext]_meterVars

-----------------------------------------------------------------------------
\* The total is the cost of the distinct readings of a positive cost that the bus delivered for
\* this run since the ticker was made, however often and among whatever negative ones, and the
\* specialists' rows add up to it (CostAccumulator.add).
CostCountedOnce ==
  /\ ticker.total = CostOf(told)
  /\ ticker.total = MapThenSumSet(LAMBDA s : ticker.shares[s], Specialists)

\* What is shown, the alert included, lags behind the ticker only while a timer will flush it,
\* also when the run ended with a flush pending or a reading comes late (markDirty, flushIfDirty).
NoCostLeftUnshown == meter.run # NoRun /\ snapshot # SnapshotOf(ticker) => tick

\* When no animation runs the digits are those of the amount given, whichever animation was
\* cut short before (DigitOdometer).
OdometerComesToRest == ~odometer.raf => odometer.shown = odometer.to

(***************************************************************************)
(* The transaction pulse of the banking page: a generator that emits       *)
(* synthetic transactions on a timer, the pulses that stay on screen for a *)
(* dwell time under a cap, pausing on hover, and the frame-rate sample     *)
(* that steps the density down.  A change of density or currency makes a   *)
(* new generator.  What a transaction says is left out: a pulse is its id. *)
(***************************************************************************)

CONSTANTS
  MAX_VISIBLE  \* MAX_VISIBLE_PULSES

ASSUME PulseAssumption == MAX_VISIBLE \in Nat \ {0}

VARIABLES
  stream,    \* the component: [density, currency, hovered, steady, sampling]
  generator, \* the live generator's closure: [paused]; its timer always runs
  pulses,    \* the pulses on screen, by id, oldest first
  dwelling   \* ids with a timer that will remove them, in the order they were emitted

pulseVars == <<stream, generator, pulses, dwelling>>

StepDownDensity(density) == IF density = "high" THEN "medium" ELSE "low"

NewGenerator == [paused |-> FALSE]

PulseInit ==
  /\ stream \in [density : {"low", "medium", "high"}, currency : {"USD", "IDR"},
                 hovered : {FALSE}, steady : {FALSE}, sampling : {TRUE}]
  /\ generator = NewGenerator /\ pulses = <<>> /\ dwelling = <<>>

\* The sample starts with every density but the lowest.
Sampled(density) == density # "low"

\* setPulses in handleEmit: the newest pulses, up to the cap.
Visible(shown) == IF Len(shown) <= MAX_VISIBLE THEN shown
                  ELSE SubSeq(shown, Len(shown) - MAX_VISIBLE + 1, Len(shown))

FreshId == CHOOSE id \in 1..(Len(dwelling) + 1) : id \notin ToSet(dwelling)

\* tick of a generator that is not paused: emit, then schedule the next.
\* The number of pulses dwelling is bounded by the spawn rate; the model bounds it by MAX_VISIBLE + 1.
TickEmits ==
  /\ ~generator.paused /\ Len(dwelling) <= MAX_VISIBLE
  /\ pulses' = Visible(Append(pulses, FreshId))
  /\ dwelling' = Append(dwelling, FreshId)
  /\ stream' = [stream EXCEPT !.steady = @ \/ Len(pulses') >= 3]
  /\ UNCHANGED generator

\* The dwell timer of the oldest pulse still dwelling; it may have left under the cap, and
\* is at most once on screen.
DwellOver ==
  /\ dwelling # <<>>
  /\ pulses' = RemoveFirst(pulses, Head(dwelling))
  /\ dwelling' = Tail(dwelling)
  /\ UNCHANGED <<stream, generator>>

\* The cleanup stops the old generator, the effect starts another; a generator
\* made while the pointer is over the stream is not paused.
Restarted(density, currency) ==
  /\ stream' = [stream EXCEPT !.density = density, !.currency = currency,
                              !.sampling = IF density = stream.density THEN @ ELSE Sampled(density)]
  /\ generator' = NewGenerator
  /\ UNCHANGED <<pulses, dwelling>>

CurrencyChanges(currency) == currency # stream.currency /\ Restarted(stream.density, currency)

\* The frame-rate sample of a density ends: it steps down when frames are few.
FpsSampled ==
  /\ stream.sampling /\ Sampled(stream.density)
  /\ \/ Restarted(StepDownDensity(stream.density), stream.currency)
     \/ stream' = [stream EXCEPT !.sampling = FALSE] /\ UNCHANGED <<generator, pulses, dwelling>>

MouseEnter ==
  /\ ~stream.hovered /\ stream' = [stream EXCEPT !.hovered = TRUE]
  /\ generator' = [generator EXCEPT !.paused = TRUE]
  /\ UNCHANGED <<pulses, dwelling>>

MouseLeave ==
  /\ stream.hovered /\ stream' = [stream EXCEPT !.hovered = FALSE]
  /\ generator' = [generator EXCEPT !.paused = FALSE]
  /\ UNCHANGED <<pulses, dwelling>>

PulseNext ==
  \/ TickEmits \/ DwellOver \/ FpsSampled \/ MouseEnter \/ MouseLeave
  \/ \E currency \in {"USD", "IDR"} : CurrencyChanges(currency)

PulseSpec == PulseInit /\ [][PulseNext]_pulseVars
-----------------------------------------------------------------------------
Newest(s, n) == SubSeq(s, Len(s) - n + 1, Len(s))

\* The pulses on screen are the newest of those whose dwell timers are pending, in order and
\* never more than the cap: each of them will leave, and the cap drops the oldest (handleEmit).
PulsesAreTheNewest ==
  /\ Len(pulses) <= MAX_VISIBLE
  /\ Len(pulses) <= Len(dwelling)
  /\ pulses = Newest(dwelling, Len(pulses))

(***************************************************************************)
(* The creator's earnings dashboard and its wallet card: the payouts of    *)
(* the chosen period, their total, the bars by day and the   *)
(* top-up notice.  The payouts are the page's (external).  Time is in half *)
(* days; a day runs from an even time to the next one.                     *)
(***************************************************************************)

CONSTANTS
  PayoutAmount,  \* payout id -> what the creator gets: the share, or the amount without one
  WINDOW_DAYS,   \* period -> days; 0 is all time (7, 30 and none in the code)
  HALF_DAYS      \* bound: how long the page is watched

ASSUME EarningsAssumption ==
  /\ \A p \in DOMAIN PayoutAmount : PayoutAmount[p] \in Nat
  /\ \A w \in DOMAIN WINDOW_DAYS : WINDOW_DAYS[w] \in Nat
  /\ HALF_DAYS \in Nat

VARIABLES
  payouts, \* the prop: payout id -> when it occurred
  clock,   \* Date.now(), as the last render read it
  period,  \* the period shown
  topUp    \* the top-up notice is open

earningsVars == <<payouts, clock, period, topUp>>

EarningsInit == payouts = <<>> /\ clock = 0 /\ period \in DOMAIN WINDOW_DAYS /\ topUp = FALSE

PayoutArrives(p) ==
  /\ p \notin DOMAIN payouts
  /\ payouts' = [q \in DOMAIN payouts \union {p} |-> IF q = p THEN clock ELSE payouts[q]]
  /\ UNCHANGED <<clock, period, topUp>>

HalfDayPasses ==
  /\ clock < HALF_DAYS /\ clock' = clock + 1
  /\ UNCHANGED <<payouts, period, topUp>>

HandlePeriodChange(next) ==
  /\ period # next /\ period' = next
  /\ UNCHANGED <<payouts, clock, topUp>>

ToggleTopUp == topUp' = ~topUp /\ UNCHANGED <<payouts, clock, period>>

EarningsNext ==
  \/ \E p \in DOMAIN PayoutAmount : PayoutArrives(p)
  \/ HalfDayPasses \/ ToggleTopUp
  \/ \E next \in DOMAIN WINDOW_DAYS : HandlePeriodChange(next)

EarningsSpec == EarningsInit /\ [][EarningsNext]_earningsVars

-----------------------------------------------------------------------------
DayOf(time) == time \div 2
Window == WINDOW_DAYS[period]

\* The cutoff is a whole number of days before this moment, in the middle of a day.
InPeriod == {p \in DOMAIN payouts : Window = 0 \/ payouts[p] + 2 * Window >= clock}

Earned(ps) == MapThenSumSet(LAMBDA p : PayoutAmount[p], ps)

\* computeStats
Total == Earned(InPeriod)

\* bucketByDay: one bar for each of the last days, today's the last; all time has the days paid.
Bars ==
  LET days == IF Window = 0 THEN {DayOf(payouts[p]) : p \in InPeriod}
              ELSE {d \in 0..DayOf(clock) : d + Window > DayOf(clock)}
  IN [d \in days |-> Earned({p \in InPeriod : DayOf(payouts[p]) = d})]

-----------------------------------------------------------------------------
\* The bars add up to the total, but for the payouts of the day the cutoff falls in, which
\* are in the total and have no bar (bucketByDay and computeStats over one filtered list).
BarsAddUpToTheTotal ==
  LET cut == {p \in InPeriod : Window > 0 /\ DayOf(payouts[p]) + Window = DayOf(clock)}
  IN MapThenSumSet(LAMBDA d : Bars[d], DOMAIN Bars) + Earned(cut) = Total

(***************************************************************************)
(* The transactions table of the creator's dashboard: invoices fetched on  *)
(* demand, several at a time, with one spinner and one error for all rows. *)
(***************************************************************************)

CONSTANTS
  Purchases,   \* rows of the table
  NoPurchase,  \* null
  FETCHES      \* bound: requests of one row under way

ASSUME InvoicesAssumption == NoPurchase \notin Purchases /\ FETCHES \in Nat \ {0}

VARIABLES
  invoice,    \* [downloading, failed]: downloadingId and errorId
  pdfs        \* requests under way, by purchase

invoiceVars == <<invoice, pdfs>>

InvoicesInit ==
  /\ invoice = [downloading |-> NoPurchase, failed |-> NoPurchase]
  /\ pdfs = [p \in Purchases |-> 0]

\* handleDownload; the button of the row that is loading is disabled.
HandleDownload(p) ==
  /\ invoice.downloading # p /\ pdfs[p] < FETCHES
  /\ invoice' = [downloading |-> p, failed |-> NoPurchase]
  /\ pdfs' = [pdfs EXCEPT ![p] = @ + 1]

\* finally: whichever request ends takes the spinner away.
SpinnerGone(i) == [i EXCEPT !.downloading = NoPurchase]

PdfSaved(p) ==
  /\ pdfs[p] > 0
  /\ invoice' = SpinnerGone(invoice)
  /\ pdfs' = [pdfs EXCEPT ![p] = @ - 1]

PdfFails(p) ==
  /\ pdfs[p] > 0
  /\ invoice' = SpinnerGone([invoice EXCEPT !.failed = p])
  /\ pdfs' = [pdfs EXCEPT ![p] = @ - 1]

\* What the button of a row says.
Label(p) == IF invoice.downloading = p THEN "Loading"
            ELSE IF invoice.failed = p THEN "Retry" ELSE "PDF"

InvoicesNext == \E p \in Purchases : HandleDownload(p) \/ PdfSaved(p) \/ PdfFails(p)
InvoicesSpec == InvoicesInit /\ [][InvoicesNext]_invoiceVars

----------------------------------------------------------------------------

\* A row that says it is loading is: though any answer takes the one spinner, it is
\* never left on a row whose requests have all ended.
LoadingRowIsLoading == \A p \in Purchases : Label(p) = "Loading" => pdfs[p] > 0
=============================================================================
