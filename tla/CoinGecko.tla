------------------------------ MODULE CoinGecko ------------------------------
(***************************************************************************)
(* The CoinGecko client: every endpoint looks into its cache, then waits   *)
(* for its turn under the rate limit, then asks.  A call that found the    *)
(* minute full sleeps once and is sent without looking again.              *)
(***************************************************************************)
EXTENDS Integers, Sequences, FiniteSets, SequencesExt, FiniteSetsExt

CONSTANTS
  CgCalls, Asked,  \* the endpoints the calls use
  RateLimit,       \* cgRateLimitRpm
  Minute,          \* windowMs, in ticks
  MaxClock         \* bound: ticks of the clock

ASSUME CoinGeckoAssumption == RateLimit \in Nat \ {0} /\ Minute \in Nat \ {0} /\ MaxClock \in Nat

VARIABLES
  clock,
  stamps,          \* cgRequestTimestamps
  answers,         \* the endpoints with an answer in the cache
  cgCalls,         \* the calls of the endpoints
  sends            \* history: the last minute's requests, slept or not

cgVars == <<clock, stamps, answers, cgCalls, sends>>

(* The endpoints, one key each: listings, lookups of a coin, and prices.   *)
Listings == {"trending", "market", "categories", "category", "recent", "top"}
Lookups == {"coin", "search"}
PriceEndpoints == {"simple", "chart", "ohlc"}
Endpoints == Listings \cup Lookups \cup PriceEndpoints

NoAsk == [stage |-> "idle", of |-> "none", wake |-> 0]

CgTypeOK ==
  /\ clock \in 0..MaxClock
  /\ \A i \in DOMAIN stamps : stamps[i] \in 0..clock
  /\ answers \subseteq Asked
  /\ \A c \in CgCalls :
       cgCalls[c].stage \in {"idle", "asked", "asleep", "sent"} /\ cgCalls[c].of \in Asked \cup {"none"}

CgInit ==
  /\ clock = 0 /\ stamps = <<>> /\ sends = <<>>
  /\ answers = {} /\ cgCalls = [c \in CgCalls |-> NoAsk]

Becomes(c, ask) == cgCalls' = [cgCalls EXCEPT ![c] = ask]

(* An endpoint goes on when the cache has no answer for it.                *)
AskEndpoint(c) ==
  /\ cgCalls[c].stage = "idle"
  /\ \E e \in Asked \ answers : Becomes(c, [NoAsk EXCEPT !.stage = "asked", !.of = e])
  /\ UNCHANGED <<clock, stamps, answers, sends>>

(* Times are pushed as they come: the filter keeps the end of them, from   *)
(* the first one younger than age.                                         *)
Since(times, age) == Min({i \in DOMAIN times : clock - times[i] < age} \cup {Len(times) + 1})

(* Mutant: a stamp is dropped one tick early.                              *)
RecentMutant(s) == SubSeq(s, Since(s, Minute - 1), Len(s))

(* The stamps of the last minute.                                          *)
Recent(s) == SubSeq(s, Since(s, Minute), Len(s))

SentAt == [i \in DOMAIN sends |-> sends[i].at]

Pushed(c, s, slept) ==
  /\ stamps' = Append(s, clock)
  /\ sends' = Append(SubSeq(sends, Since(SentAt, Minute), Len(sends)), [at |-> clock, slept |-> slept])
  /\ Becomes(c, [cgCalls[c] EXCEPT !.stage = "sent"])

(* cgGet, up to its sleep: the stamps of the last minute are kept; with    *)
(* the minute full the call sleeps until the oldest of them has left it.   *)
CgGet(c) ==
  /\ cgCalls[c].stage = "asked"
  /\ LET recent == Recent(stamps)
     IN  IF Len(recent) < RateLimit THEN Pushed(c, recent, FALSE)
         ELSE /\ stamps' = recent
              /\ Becomes(c, [cgCalls[c] EXCEPT !.stage = "asleep", !.wake = Head(recent) + Minute])
              /\ UNCHANGED sends
  /\ UNCHANGED <<clock, answers>>

(* cgGet after its sleep: pushed and sent, whoever else was sent meanwhile.*)
WakeUp(c) ==
  /\ cgCalls[c].stage = "asleep" /\ clock >= cgCalls[c].wake
  /\ Pushed(c, stamps, TRUE)
  /\ UNCHANGED <<clock, answers>>

(* The answer is cached; a failure is answered as nothing and not cached.  *)
CgAnswer(c) ==
  /\ cgCalls[c].stage = "sent"
  /\ answers' \in {answers, answers \cup {cgCalls[c].of}}
  /\ Becomes(c, NoAsk)
  /\ UNCHANGED <<clock, stamps, sends>>

(* clearCategoriesCache, and the life of a cached answer, 5 minutes, 10 or *)
(* a day.                                                                  *)
Cleared(e) ==
  /\ e \in answers
  /\ answers' = answers \ {e}
  /\ UNCHANGED <<clock, stamps, cgCalls, sends>>

(* A sleeper wakes in the tick it asked for: timers are not late here.     *)
CgClock ==
  /\ clock < MaxClock
  /\ \A c \in CgCalls : cgCalls[c].stage = "asleep" => clock < cgCalls[c].wake
  /\ clock' = clock + 1
  /\ UNCHANGED <<stamps, answers, cgCalls, sends>>

CgStep ==
  \/ \E c \in CgCalls : AskEndpoint(c) \/ CgGet(c) \/ WakeUp(c) \/ CgAnswer(c)
  \/ \E e \in Asked : Cleared(e)
  \/ CgClock

-------------------------------------------------------------------------------
(***************************************************************************)
(* Properties                                                              *)
(***************************************************************************)

(* The limit of a minute is broken by sleepers only: of the requests of    *)
(* any minute those that did not sleep are at most RateLimit, and when one *)
(* that did not sleep is sent, the whole minute before it is within it.    *)
SleepersOnlyExceed ==
  sends # <<>> =>
    /\ Cardinality({i \in DOMAIN sends : ~sends[i].slept}) <= RateLimit
    /\ ~Last(sends).slept => Len(sends) <= RateLimit
===============================================================================
