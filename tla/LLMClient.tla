------------------------------ MODULE LLMClient ------------------------------
(***************************************************************************)
(* llm_client.py: DeepSeekGeminiClient, one for the worker process.  A job *)
(* is one complete_structured call, made by a thread of the pool of the    *)
(* stage.  All threads book the start of a request in one schedule.        *)
(*                                                                         *)
(* Time is relative: nextIn is how long until _next_request_at, a sleep    *)
(* how long until time.sleep returns; Tick lets a unit pass.  A thread may *)
(* be slower than its sleep.  What a valid answer says is left to the      *)
(* stage that asked.                                                       *)
(***************************************************************************)
EXTENDS Naturals

CONSTANTS
  Jobs,         \* calls of one stage, in submission order: 1 .. n
  MaxAttempts,  \* llm_max_attempts
  Spacing,      \* llm_min_seconds_between_requests
  BaseDelay,    \* llm_retry_base_seconds
  MaxBackoff,   \* llm_max_backoff_seconds
  HasGemini,    \* gemini_api_key is set
  MaxFaults     \* bound: answers that are not valid, and warnings of low quota

ASSUME AttemptsAssumption == MaxAttempts \in Nat \ {0}
ASSUME SpacingAssumption == Spacing \in Nat
ASSUME BackoffAssumption == BaseDelay \in Nat /\ MaxBackoff \in Nat /\ BaseDelay <= MaxBackoff
ASSUME GeminiAssumption == HasGemini \in BOOLEAN
ASSUME FaultsAssumption == MaxFaults \in Nat

VARIABLES nextIn, job, faults

llmVars == <<nextIn, job, faults>>

-----------------------------------------------------------------------------
JobPC == {"idle", "ready", "paced", "sent", "backoff", "gemini", "ok", "failed"}

(* prompt: 1, or 2 for the repair prompt; attempt: within the prompt;       *)
(* sent: requests made to the primary so far.                               *)
NoJob == [pc |-> "idle", prompt |-> 1, attempt |-> 1, delay |-> BaseDelay,
          sleep |-> 0, sent |-> 0]

Running(j) == job[j].pc \in JobPC \ {"idle", "ok", "failed"}
Slept(j) == job[j].sleep = 0

Least(m, n) == IF m <= n THEN m ELSE n

LLMInit == nextIn = 0 /\ job = [j \in Jobs |-> NoJob] /\ faults = 0

Become(j, r) == job' = [job EXCEPT ![j] = r]
Fault == faults < MaxFaults /\ faults' = faults + 1

-----------------------------------------------------------------------------
(* Plausible bugs: mutants.                                                 *)

(* The slot is read but the next one is not booked.                         *)
ReserveBooksNothing(j) ==
  /\ job[j].pc = "ready"
  /\ Become(j, [job[j] EXCEPT !.pc = "paced", !.sleep = nextIn])
  /\ UNCHANGED <<nextIn, faults>>

(* Every schema violation is answered with another repair prompt.           *)
RepairForEver(j) ==
  /\ Fault
  /\ Become(j, [NoJob EXCEPT !.pc = "ready", !.prompt = job[j].prompt + 1,
                             !.sent = job[j].sent])

(* One attempt more than llm_max_attempts.                                  *)
WakeOnceMore(j) ==
  /\ job[j].pc = "backoff" /\ Slept(j)
  /\ Become(j, IF job[j].attempt <= MaxAttempts
               THEN [job[j] EXCEPT !.pc = "ready", !.attempt = @ + 1]
               ELSE [NoJob EXCEPT !.pc = "failed"])
  /\ UNCHANGED <<nextIn, faults>>

(* The thread does not come back from its last back-off.                    *)
WakeOnlyToRetry(j) ==
  /\ job[j].pc = "backoff" /\ Slept(j)
  /\ job[j].attempt < MaxAttempts
  /\ Become(j, [job[j] EXCEPT !.pc = "ready", !.attempt = @ + 1])
  /\ UNCHANGED <<nextIn, faults>>

-----------------------------------------------------------------------------
Begin(j) ==
  /\ job[j].pc = "idle"
  /\ Become(j, [NoJob EXCEPT !.pc = "ready"])
  /\ UNCHANGED <<nextIn, faults>>

(* _reserve_slot, under the lock; the sleep is outside of it.               *)
Reserve(j) ==
  /\ job[j].pc = "ready"
  /\ Become(j, [job[j] EXCEPT !.pc = "paced", !.sleep = nextIn])
  /\ nextIn' = nextIn + Spacing
  /\ UNCHANGED faults

Send(j) ==
  /\ job[j].pc = "paced" /\ Slept(j)
  /\ Become(j, [job[j] EXCEPT !.pc = "sent", !.sent = @ + 1])
  /\ UNCHANGED <<nextIn, faults>>

(* _observe_rate_limit: a low quota pushes the schedule of all threads.     *)
Observe ==
  \/ UNCHANGED <<nextIn, faults>>
  \/ /\ Fault
     /\ \E wait \in 1 .. MaxBackoff : nextIn' = nextIn + wait

(* The counters of a call end with it.                                      *)
End(pc) == [NoJob EXCEPT !.pc = pc]

(* complete_structured gives up the primary: Gemini, or LLMOutputError.     *)
GiveUp(r) ==
  IF HasGemini THEN [r EXCEPT !.pc = "gemini", !.sleep = 0] ELSE End("failed")

(* A completion that matches the schema.                                    *)
Answer(j) ==
  /\ job[j].pc = "sent"
  /\ Observe
  /\ Become(j, End("ok"))

(* One that does not: one repair prompt, its attempts counted afresh.       *)
Repair(j) ==
  /\ Fault
  /\ Become(j, IF job[j].prompt = 1
               THEN [NoJob EXCEPT !.pc = "ready", !.prompt = 2, !.sent = job[j].sent]
               ELSE GiveUp(job[j]))
Violate(j) == job[j].pc = "sent" /\ Repair(j) /\ UNCHANGED nextIn

BackOff(j, wait) ==
  Become(j, [job[j] EXCEPT !.pc = "backoff", !.sleep = wait,
                           !.delay = Least(2 * @, MaxBackoff)])

(* 429: Retry-After if it is given and not zero, else the delay.            *)
RateLimit(j) ==
  /\ job[j].pc = "sent" /\ Fault
  /\ \E wait \in {job[j].delay} \cup 1 .. MaxBackoff : BackOff(j, wait)
  /\ UNCHANGED nextIn

(* A timeout, a lost connection or a 5xx.                                   *)
TransportError(j) ==
  /\ job[j].pc = "sent" /\ Fault
  /\ BackOff(j, job[j].delay)
  /\ UNCHANGED nextIn

(* Another status, or any other exception.                                  *)
Reject(j) ==
  /\ job[j].pc = "sent" /\ Fault
  /\ Become(j, GiveUp(job[j]))
  /\ UNCHANGED nextIn

(* The sleep after a failed attempt is over; the last one was slept too.    *)
Wake(j) ==
  /\ job[j].pc = "backoff" /\ Slept(j)
  /\ Become(j, IF job[j].attempt < MaxAttempts
               THEN [job[j] EXCEPT !.pc = "ready", !.attempt = @ + 1]
               ELSE GiveUp(job[j]))
  /\ UNCHANGED <<nextIn, faults>>

(* _call_gemini: one request, neither paced nor retried.                    *)
AskGemini(j) ==
  /\ job[j].pc = "gemini"
  /\ \E pc \in {"ok", "failed"} : Become(j, End(pc))
  /\ UNCHANGED <<nextIn, faults>>

Less(n) == IF n > 0 THEN n - 1 ELSE 0

Tick ==
  /\ nextIn > 0 \/ \E j \in Jobs : job[j].sleep > 0
  /\ nextIn' = Less(nextIn)
  /\ job' = [j \in Jobs |-> [job[j] EXCEPT !.sleep = Less(@)]]
  /\ UNCHANGED faults

JobStep(j) ==
  \/ Reserve(j) \/ Send(j) \/ Answer(j) \/ Violate(j) \/ RateLimit(j)
  \/ TransportError(j) \/ Reject(j) \/ Wake(j) \/ AskGemini(j)

LLMNext == Tick \/ \E j \in Jobs : JobStep(j)

(* Type correctness of the client.                                          *)
Job == [pc : JobPC, prompt : 1 .. 2, attempt : 1 .. MaxAttempts,
        delay : 0 .. MaxBackoff, sleep : Nat, sent : Nat]
ClientTypeOK == nextIn \in Nat /\ faults \in 0 .. MaxFaults /\ job \in [Jobs -> Job]
=============================================================================
