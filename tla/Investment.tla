----------------------------- MODULE Investment -----------------------------
(***************************************************************************)
(* Investment withdrawals.  controllers/investmentController.ts stores a   *)
(* request that becomes available a day later by the clock of the          *)
(* database; jobs/investmentWithdrawalJob.ts sweeps every minute, in every *)
(* process and without a lock: it reads the clock and the ready requests,  *)
(* and for each one moves it to available, if it is still waiting, and     *)
(* publishes the notice, each with retries.  A sweep that takes longer     *)
(* than a minute overlaps with the next of its own process.                *)
(***************************************************************************)
EXTENDS Naturals, FiniteSets

CONSTANTS
    Withdraw,      \* withdrawal requests
    Sweep,         \* runs of processInvestmentWithdrawalAvailability
    Delay,         \* WITHDRAWAL_DELAY_HOURS, in ticks of the clock
    MaxClock,      \* bound: the last instant
    SweepTries,    \* attempts of retryWithBackoff
    MaxMishaps     \* bound: calls that fail, and crashes

ASSUME InvestmentAssumption ==
    Delay \in Nat \ {0} /\ MaxClock \in Nat /\ SweepTries \in Nat \ {0} /\ MaxMishaps \in Nat

VARIABLES
    clock,         \* of the database
    asked,         \* when each request was made, MaxClock + 1 before
    availableAt,
    wstatus,       \* "none", "timed" before its row, "requested", "available" or "refused"
    sweep,         \* each sweep: where, the time it read, the requests left, the current one, its tries
    notices,       \* investment_withdrawal_ready messages of each request
    untold,        \* requests whose notice was lost: an update done but answered with an error, or retries used up
    mishaps

investmentVars == <<clock, asked, availableAt, wstatus, sweep, notices, untold, mishaps>>

Resting == [at |-> "rest", now |-> 0, left |-> {}, cur |-> {}, tries |-> 0]

InvestmentTypeOK ==
    /\ clock \in 0 .. MaxClock /\ mishaps \in 0 .. MaxMishaps
    /\ wstatus \in [Withdraw -> {"none", "timed", "requested", "available", "refused"}]
    /\ \A s \in Sweep :
          /\ sweep[s].at \in {"rest", "read", "next", "update", "publish"} /\ sweep[s].now <= clock
          /\ sweep[s].cur # {} <=> sweep[s].at \in {"update", "publish"}
          /\ sweep[s].tries < SweepTries

InvestmentInit ==
    /\ clock = 0 /\ mishaps = 0 /\ untold = {}
    /\ asked = [w \in Withdraw |-> MaxClock + 1] /\ availableAt = [w \in Withdraw |-> MaxClock + 1]
    /\ wstatus = [w \in Withdraw |-> "none"] /\ notices = [w \in Withdraw |-> 0]
    /\ sweep = [s \in Sweep |-> Resting]

Mishap     == mishaps < MaxMishaps /\ mishaps' = mishaps + 1
Does(s, r) == sweep' = [sweep EXCEPT ![s] = r]
Done(s)    == Does(s, [sweep[s] EXCEPT !.at = "next", !.cur = {}, !.tries = 0])

ClockTicks ==
    /\ clock < MaxClock /\ clock' = clock + 1
    /\ UNCHANGED <<asked, availableAt, wstatus, sweep, notices, untold, mishaps>>

-----------------------------------------------------------------------------
(* Both times come from one reading of the database's clock. *)
getInvestmentWithdrawalTiming(w) ==
    /\ wstatus[w] = "none" /\ wstatus' = [wstatus EXCEPT ![w] = "timed"]
    /\ asked' = [asked EXCEPT ![w] = clock] /\ availableAt' = [availableAt EXCEPT ![w] = clock + Delay]
    /\ UNCHANGED <<clock, sweep, notices, untold, mishaps>>

(* The row is created, or the request is refused: a business on another day. *)
postInvestmentWithdrawRequest(w) ==
    /\ wstatus[w] = "timed" /\ wstatus' \in {[wstatus EXCEPT ![w] = t] : t \in {"requested", "refused"}}
    /\ UNCHANGED <<clock, asked, availableAt, sweep, notices, untold, mishaps>>

-----------------------------------------------------------------------------
StartSweep(s) ==
    /\ sweep[s].at = "rest" /\ Does(s, [Resting EXCEPT !.at = "read", !.now = clock])
    /\ UNCHANGED <<clock, asked, availableAt, wstatus, notices, untold, mishaps>>

Ready(now) == {w \in Withdraw : wstatus[w] = "requested" /\ availableAt[w] <= now}

getReadyInvestmentWithdrawalBatch(s) ==
    /\ sweep[s].at = "read"
    /\ Does(s, [sweep[s] EXCEPT !.at = "next", !.left = Ready(sweep[s].now)])
    /\ UNCHANGED <<clock, asked, availableAt, wstatus, notices, untold, mishaps>>

NextRecord(s) ==
    /\ sweep[s].at = "next"
    /\ \/ sweep[s].left = {} /\ Does(s, Resting)
       \/ \E w \in sweep[s].left :
             Does(s, [sweep[s] EXCEPT !.at = "update", !.left = @ \ {w}, !.cur = {w}])
    /\ UNCHANGED <<clock, asked, availableAt, wstatus, notices, untold, mishaps>>

(* Mutation: the row is updated by its id alone. *)
UpdatesById(s, w) == TRUE

(* What updateMany matches. *)
StillReady(s, w) == w \in Ready(sweep[s].now)

(* The move to available: what it matched, or an error, done or not; then another *)
(* try, or the next record.                                                       *)
MakeAvailable(s, w) ==
    /\ sweep[s].at = "update" /\ w \in sweep[s].cur
    /\ \/ /\ StillReady(s, w) /\ wstatus' = [wstatus EXCEPT ![w] = "available"]
          /\ Does(s, [sweep[s] EXCEPT !.at = "publish", !.tries = 0]) /\ UNCHANGED <<untold, mishaps>>
       \/ ~StillReady(s, w) /\ Done(s) /\ UNCHANGED <<wstatus, untold, mishaps>>
       \/ /\ Mishap
          /\ \/ UNCHANGED <<wstatus, untold>>
             \/ /\ StillReady(s, w)
                /\ wstatus' = [wstatus EXCEPT ![w] = "available"] /\ untold' = untold \cup {w}
          /\ IF sweep[s].tries + 1 < SweepTries THEN Does(s, [sweep[s] EXCEPT !.tries = @ + 1]) ELSE Done(s)
    /\ UNCHANGED <<clock, asked, availableAt, notices>>

(* publishInvestmentWithdrawalReady. *)
PublishReady(s, w) ==
    /\ sweep[s].at = "publish" /\ w \in sweep[s].cur
    /\ \/ notices' = [notices EXCEPT ![w] = @ + 1] /\ Done(s) /\ UNCHANGED <<untold, mishaps>>
       \/ /\ Mishap /\ UNCHANGED notices
          /\ IF sweep[s].tries + 1 < SweepTries
             THEN Does(s, [sweep[s] EXCEPT !.tries = @ + 1]) /\ UNCHANGED untold
             ELSE Done(s) /\ untold' = untold \cup {w}
    /\ UNCHANGED <<clock, asked, availableAt, wstatus>>

(* The process ends in the middle of a sweep. *)
SweepDies(s) ==
    /\ sweep[s].at # "rest" /\ Mishap /\ Does(s, Resting)
    /\ untold' = IF sweep[s].at = "publish" THEN untold \cup sweep[s].cur ELSE untold
    /\ UNCHANGED <<clock, asked, availableAt, wstatus, notices>>

InvestmentNext ==
    \/ ClockTicks
    \/ \E w \in Withdraw : getInvestmentWithdrawalTiming(w) \/ postInvestmentWithdrawRequest(w)
    \/ \E s \in Sweep :
        \/ StartSweep(s) \/ getReadyInvestmentWithdrawalBatch(s) \/ NextRecord(s) \/ SweepDies(s)
        \/ \E w \in Withdraw : MakeAvailable(s, w) \/ PublishReady(s, w)

InvestmentSpec == InvestmentInit /\ [][InvestmentNext]_investmentVars

-----------------------------------------------------------------------------
(* However sweeps overlap and retry, a withdrawal is announced at most once and   *)
(* not before its delay has passed; and one that is available has been announced, *)
(* is in the hands of the sweep that will, or lost its notice to a failure.       *)
AnnouncedOnce ==
    InvestmentTypeOK /\ \A w \in Withdraw :
        /\ notices[w] <= 1
        /\ wstatus[w] = "available" =>
              /\ clock >= asked[w] + Delay
              /\ notices[w] = 1 \/ w \in untold \/ \E s \in Sweep : sweep[s].at = "publish" /\ w \in sweep[s].cur
=============================================================================
