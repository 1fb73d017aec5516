------------------------------- MODULE Config -------------------------------
(***************************************************************************)
(* load_configuration (net/sync.cpp): the numbers clsync takes from its    *)
(* environment, read one after the other, and the tests that               *)
(* SyncManager::start makes on them afterwards.                            *)
(*                                                                         *)
(* The text of a variable is of one of the kinds the code tells apart: not *)
(* set, only blanks, a minus sign first, no digits, digits followed by     *)
(* something else, or a number.  Blanks around a number are skipped and do *)
(* not show.  The largest values of the C++ types are constants.           *)
(* A definition with a suffix is a wrong variant of the one after it.      *)
(***************************************************************************)
EXTENDS Integers, Sequences

CONSTANTS
  Numbers,     \* the numbers a variable may hold
  UIntMax, ULongMax, LongMax, ULLongMax,
  Default      \* the members' initial values in SyncConfig

Names == {"SMALL_WORKERS", "LARGE_WORKERS", "MAX_RETRIES", "TIMEOUT_MS", "RETRY_DELAY_MS",
          "MONITOR_INTERVAL_MS", "LARGE_FILE_THRESHOLD"}
Text  == [kind : {"unset", "blank", "minus", "word", "rest"}, value : {0}]
         \cup [kind : {"number"}, value : Numbers]
Unset(text)    == text.kind = "unset"
IsNumber(text) == text.kind = "number"

ASSUME ConfigWidths ==
  /\ {UIntMax, ULongMax, LongMax, ULLongMax} \subseteq Nat
  /\ UIntMax <= ULongMax /\ ULongMax <= ULLongMax
  /\ UIntMax <= LongMax \/ UIntMax = 2 * LongMax + 1   \* long is wider than int, or just as wide
  /\ Numbers \subseteq Nat
  /\ Default \in [Names -> Nat]
  /\ Default["SMALL_WORKERS"] > 0 /\ Default["LARGE_WORKERS"] > 0
  /\ Default["TIMEOUT_MS"] \in 1 .. LongMax

VARIABLES
  next,       \* the variable read next: an index of Order, or past its end
  environ,    \* history: the texts read so far
  config,
  verdict     \* "loading"; the name of a refused variable; "loaded"; what start says

vars == <<next, environ, config, verdict>>

-----------------------------------------------------------------------------
Order == <<"SMALL_WORKERS", "LARGE_WORKERS", "MAX_RETRIES", "TIMEOUT_MS", "RETRY_DELAY_MS",
           "MONITOR_INTERVAL_MS", "LARGE_FILE_THRESHOLD">>

AllowsZero_workers(n) == n # "TIMEOUT_MS"
AllowsZero(n) == n \in {"MAX_RETRIES", "RETRY_DELAY_MS", "LARGE_FILE_THRESHOLD"}

(* stoul or stoull throws above its type; then the range of the member.    *)
InRange(n, v) ==
  IF n = "LARGE_FILE_THRESHOLD" THEN v <= ULLongMax ELSE v <= ULongMax /\ v <= UIntMax

(* set_unsigned_from_environment, and the same lines for the threshold.    *)
Refused(n, text) ==
  \/ text.kind \in {"blank", "minus", "word", "rest"}
  \/ IsNumber(text) /\ (~InRange(n, text.value) \/ (text.value = 0 /\ ~AllowsZero(n)))

(* An unsigned int assigned to a long.                                     *)
ToLong(v) == IF v <= LongMax THEN v ELSE v - (UIntMax + 1)

(* Timeout, delay and interval are only assigned when they are not zero.   *)
Assigned(n, text) ==
  IF Unset(text) \/ (n = "RETRY_DELAY_MS" /\ text.value = 0) THEN config[n]
  ELSE IF n = "TIMEOUT_MS" THEN ToLong(text.value) ELSE text.value

set_from_environment(text) ==
  LET n == Order[next] IN
  /\ verdict = "loading" /\ next <= Len(Order)
  /\ environ' = [environ EXCEPT ![n] = text]
  /\ next' = next + 1
  /\ IF Refused(n, text) THEN verdict' = n /\ config' = config
                         ELSE verdict' = verdict /\ config' = [config EXCEPT ![n] = Assigned(n, text)]

load_configuration ==
  /\ verdict = "loading" /\ next > Len(Order)
  /\ verdict' = "loaded"
  /\ UNCHANGED <<next, environ, config>>

(* start, for the numbers it looks at.                                     *)
Positive_nonzero == \A n \in {"SMALL_WORKERS", "LARGE_WORKERS", "TIMEOUT_MS"} : config[n] # 0
Positive == config["SMALL_WORKERS"] # 0 /\ config["LARGE_WORKERS"] # 0 /\ config["TIMEOUT_MS"] > 0
start ==
  /\ verdict = "loaded"
  /\ verdict' = IF Positive THEN "started" ELSE "not positive"
  /\ UNCHANGED <<next, environ, config>>

Init ==
  /\ next = 1 /\ verdict = "loading"
  /\ environ = [n \in Names |-> [kind |-> "unset", value |-> 0]] /\ config = Default

Next == (\E text \in Text : set_from_environment(text)) \/ load_configuration \/ start

Spec == Init /\ [][Next]_vars

-----------------------------------------------------------------------------
(* Properties.                                                             *)

(* What load_configuration accepts, start accepts, with one exception:     *)
(* where long is no wider than int, a timeout above the largest long has   *)
(* become negative on its way into network_timeout_ms.  No other number    *)
(* that main takes as good is refused by the manager a moment later.       *)
RefusedOnlyForTimeout ==
  verdict = "not positive" =>
    IsNumber(environ["TIMEOUT_MS"]) /\ environ["TIMEOUT_MS"].value > LongMax

(* A manager that has started runs on the environment over the defaults:   *)
(* no text that is not a number in range has passed, and nothing was       *)
(* changed on the way into a member of another width, on any platform; a   *)
(* retry delay of 0 counts as not given.                                   *)
EnvironmentIsUsed ==
  verdict = "started" =>
    \A n \in Names :
      \/ Unset(environ[n]) /\ config[n] = Default[n]
      \/ IsNumber(environ[n]) /\ config[n] = environ[n].value
      \/ /\ n = "RETRY_DELAY_MS" /\ IsNumber(environ[n])
         /\ environ[n].value = 0 /\ config[n] = Default[n]
=============================================================================
