--------------------------- MODULE CircuitBreaker ---------------------------
(***************************************************************************)
(* The breaker in front of an outside service (company register, CDEK Pay, *)
(* T-Bank): after a row of failures calls are refused at once, and after   *)
(* the recovery time they are let through again.  One process; callers     *)
(* interleave at the await on the network.                                 *)
(***************************************************************************)
EXTENDS Naturals, FiniteSets

CONSTANTS Callers,   \* requests that use the service
          Threshold, \* failure_threshold
          Outages    \* bound: times the service goes down

ASSUME BreakerAssumption == Threshold \in Nat \ {0} /\ Outages \in Nat

VARIABLES failures,  \* _consecutive_failures, up to Threshold: no more is looked at
          opened,    \* _opened_at: "no", "recent", or "old" when recovery_seconds have passed
          calling,   \* requests on the way: to be answered, or lost in an outage
          cached,    \* the last answer is in the cache and not stale
          upstream,  \* the service answers
          outages
breakerVars == <<failures, opened, calling, cached, upstream, outages>>

InitBreaker ==
  /\ failures = 0 /\ opened = "no" /\ calling = [c \in Callers |-> "no"] /\ cached = FALSE
  /\ upstream = TRUE /\ outages = 0

BreakerState == CASE opened = "no" -> "closed" [] opened = "old" -> "half_open"
                  [] OTHER -> "open"
AllowWhenClosed == BreakerState = "closed"                    \* mutant
AllowRequest == BreakerState \in {"closed", "half_open"}

\* A cached answer is returned and the service left alone; refused callers leave too.
Call(c) ==
  /\ calling[c] = "no" /\ ~cached /\ AllowRequest
  /\ calling' = [calling EXCEPT ![c] = IF upstream THEN "sent" ELSE "lost"]
  /\ UNCHANGED <<failures, opened, cached, upstream, outages>>
\* Only a company that was found is cached.
RecordSuccess(c, found) ==
  /\ calling[c] = "sent"
  /\ failures' = 0 /\ opened' = "no" /\ cached' = found
  /\ calling' = [calling EXCEPT ![c] = "no"] /\ UNCHANGED <<upstream, outages>>
\* T-Bank's refusal of an operation is neither a failure nor a success.
BusinessRefusal(c) ==
  /\ calling[c] = "sent" /\ calling' = [calling EXCEPT ![c] = "no"]
  /\ UNCHANGED <<failures, opened, cached, upstream, outages>>
RecordFailure(c) ==
  /\ calling[c] = "lost" /\ calling' = [calling EXCEPT ![c] = "no"]
  /\ failures' = IF failures < Threshold THEN failures + 1 ELSE failures
  /\ opened' = IF failures' >= Threshold THEN "recent" ELSE opened
  /\ UNCHANGED <<cached, upstream, outages>>

RecoveryPasses == opened = "recent" /\ opened' = "old"
                  /\ UNCHANGED <<failures, calling, cached, upstream, outages>>
CacheExpires == cached /\ cached' = FALSE
                /\ UNCHANGED <<failures, opened, calling, upstream, outages>>
GoesDown == /\ upstream /\ outages < Outages
            /\ upstream' = FALSE /\ outages' = outages + 1
            /\ \E lost \in SUBSET {c \in Callers : calling[c] = "sent"} :
                 calling' = [c \in Callers |-> IF c \in lost THEN "lost" ELSE calling[c]]
            /\ UNCHANGED <<failures, opened, cached>>
ComesBack == /\ ~upstream /\ upstream' = TRUE
             /\ UNCHANGED <<failures, opened, calling, cached, outages>>

NextBreaker ==
  \/ \E c \in Callers : Call(c) \/ BusinessRefusal(c) \/ RecordFailure(c)
  \/ \E c \in Callers, found \in BOOLEAN : RecordSuccess(c, found)
  \/ RecoveryPasses \/ CacheExpires \/ GoesDown \/ ComesBack

\* Time passes; requests end by an answer or by the client's timeout; people go on
\* asking, and not every answer is a refusal; an outage ends.
BreakerFairness ==
  /\ WF_breakerVars(RecoveryPasses) /\ WF_breakerVars(CacheExpires) /\ WF_breakerVars(ComesBack)
  /\ \A c \in Callers :
       /\ SF_breakerVars(Call(c)) /\ WF_breakerVars(RecordFailure(c))
       /\ SF_breakerVars(\E found \in BOOLEAN : RecordSuccess(c, found))

SpecBreaker == InitBreaker /\ [][NextBreaker]_breakerVars /\ BreakerFairness

-----------------------------------------------------------------------------
(* Type invariant. *)
BreakerTypeOK ==
  /\ failures \in 0..Threshold /\ opened \in {"no", "recent", "old"}
  /\ calling \in [Callers -> {"no", "sent", "lost"}] /\ cached \in BOOLEAN
  /\ upstream \in BOOLEAN /\ outages \in 0..Outages

(* The breaker never shuts a service off for good: after the recovery time *)
(* somebody gets through, however late the answers and the failures of an  *)
(* outage are recorded, and calls are served again (allow_request,         *)
(* record_success, record_failure).                                        *)
BreakerLetsGo == opened # "no" ~> opened = "no"
=============================================================================
