------------------------------ MODULE Network ------------------------------
(***************************************************************************)
(* One Network object (net/network.cpp) and the calls a thread makes on it,*)
(* one after the other.  All calls share one curl handle, whose options    *)
(* stay until curl_easy_reset, and last_http_status_.  A request may end   *)
(* in any way curl allows; CURLOPT_FAILONERROR makes a status of 400 or    *)
(* more an error without a body.  What a download does with its files is   *)
(* the subject of module Download.                                         *)
(* A definition with a suffix is a wrong variant of the one after it.      *)
(***************************************************************************)
EXTENDS Naturals, FiniteSets, Transfer

CONSTANTS
  Retries,    \* retries_
  MaxCalls    \* bound: calls on the object

ASSUME NetworkAssumption == Retries \in Nat /\ MaxCalls \in Nat

VARIABLES
  curl,       \* curl_easy_init gave a handle
  opts,       \* the options of the handle that differ between calls
  forms,      \* curl_mime structures not yet freed
  form,       \* the local of http_upload_file; 0 is nullptr
  call,       \* the running call, or the one that returned last
  pc,         \* "idle", "configure", "perform"
  attempt,
  status,     \* last_http_status_
  response,   \* "" or what kind of text it is (see Transfer)
  calls,
  result      \* what the latest call returned; "none" before

vars == <<curl, opts, forms, form, call, pc, attempt, status, response, calls, result>>

-----------------------------------------------------------------------------
Kinds == {"get", "post", "put", "delete", "upload", "download"}

(* curl_easy_reset; then what configure_request and the call itself set.   *)
NoOptions == [method |-> "GET", body |-> "none", sink |-> "stdout"]
BaseOptions_kept == opts
BaseOptions == NoOptions
Configured(k, base) ==
  [base EXCEPT !.sink = IF k = "download" THEN "file" ELSE "response",
               !.method = IF k = "post" \/ k = "upload" THEN "POST" ELSE IF k = "put" THEN "PUT"
                          ELSE IF k = "delete" THEN "DELETE" ELSE @,
               !.body = IF k \in {"post", "put"} THEN "data" ELSE IF k = "upload" THEN "form" ELSE @]

(* A call returns; an upload first frees its form.                         *)
Return(r, text) ==
  /\ result' = r /\ response' = text
  /\ pc' = "idle"
  /\ forms' = forms \ {form}
  /\ form' = 0

(* Without a handle, or without the file to upload, nothing is tried and   *)
(* the status stays what it was.                                           *)
NotThere_other == "other"
NotThere == "local file"
call_refused(k) ==
  /\ pc = "idle" /\ calls < MaxCalls
  /\ \/ ~curl /\ Return("false", "")
     \/ curl /\ k = "upload" /\ Return("false", NotThere)
  /\ call' = k /\ calls' = calls + 1 /\ attempt' = 0
  /\ UNCHANGED <<curl, opts, status>>

call_begins(k) ==
  /\ pc = "idle" /\ calls < MaxCalls /\ curl
  /\ call' = k /\ calls' = calls + 1 /\ attempt' = 0
  /\ pc' = "configure" /\ form' = 0 /\ response' = ""
  /\ UNCHANGED <<curl, opts, forms, status, result>>

(* The .part file of a download cannot be opened.                          *)
open_fails ==
  /\ pc = "configure" /\ call = "download"
  /\ Return("false", "local file")
  /\ UNCHANGED <<curl, opts, call, attempt, status, calls>>

(* An upload frees the form of the attempt before and makes a new one.     *)
Freed_at_end == forms
Freed == forms \ {form}
configure ==
  /\ pc = "configure"
  /\ opts' = Configured(call, BaseOptions)
  /\ IF call = "upload" THEN form' = attempt + 1 /\ forms' = Freed \cup {attempt + 1}
                        ELSE UNCHANGED <<form, forms>>
  /\ status' = "0" /\ response' = "" /\ pc' = "perform"
  /\ UNCHANGED <<curl, call, attempt, calls, result>>

(* How curl_easy_perform ends: result == CURLE_OK, the status, and what of *)
(* the answer was written to response.                                     *)
Texts   == {"other", "local file", "validation failed"}
Replies == [ok : {TRUE}, status : HttpStatus, text : {"", "other"}]
             \cup [ok : {FALSE}, status : HttpStatus, text : {""}]
             \cup [ok : {FALSE}, status : {"2xx", "3xx"}, text : Texts]
Answered_any(r) == r.ok
Answered(r) == r.ok /\ r.status \in {"0", "2xx"}

(* The text a failed attempt leaves.  A download has its own: the answer   *)
(* went to the file, which may fail its checks or not be renamed.          *)
FailureText(r) ==
  IF call = "download" /\ Answered(r) THEN {"validation failed", "other"}
  ELSE IF call = "download" \/ r.ok THEN {"other"} ELSE {r.text}

reply_succeeds(r) ==
  /\ pc = "perform" /\ Answered(r)
  /\ status' = r.status
  /\ Return("true", "other")
  /\ UNCHANGED <<curl, opts, call, attempt, calls>>

MoreAttempts == attempt < Retries
reply_fails(r) ==
  /\ pc = "perform" /\ (~Answered(r) \/ call = "download")
  /\ status' = r.status
  /\ \E text \in FailureText(r) :
       IF MoreAttempts
       THEN /\ attempt' = attempt + 1 /\ pc' = "configure" /\ response' = text
            /\ UNCHANGED <<forms, form, result>>
       ELSE /\ Return("false", IF text = "" THEN "other" ELSE text)
            /\ attempt' = attempt
  /\ UNCHANGED <<curl, opts, call, calls>>

-----------------------------------------------------------------------------
Init ==
  /\ curl \in BOOLEAN
  /\ opts = NoOptions /\ forms = {} /\ form = 0
  /\ call = "get" /\ pc = "idle" /\ attempt = 0
  /\ status = "0" /\ response = "" /\ calls = 0 /\ result = "none"

Next ==
  \/ \E k \in Kinds : call_refused(k) \/ call_begins(k)
  \/ open_fails \/ configure
  \/ \E r \in Replies : reply_succeeds(r) \/ reply_fails(r)

Spec == Init /\ [][Next]_vars

-----------------------------------------------------------------------------
(* Properties.                                                             *)

(* What a call must ask for, whatever was asked before it.                 *)
OwnOptions(k) ==
  [method |-> CASE k \in {"post", "upload"} -> "POST" [] k = "put" -> "PUT"
                [] k = "delete" -> "DELETE" [] OTHER -> "GET",
   body   |-> CASE k \in {"post", "put"} -> "data" [] k = "upload" -> "form" [] OTHER -> "none",
   sink   |-> IF k = "download" THEN "file" ELSE "response"]

(* The handle is shared, yet every request is the one its call wants: no   *)
(* method, body or sink of an earlier call is left in it, and a form it    *)
(* points to has not been freed.                                           *)
RequestIsItsOwn ==
  pc = "perform" => opts = OwnOptions(call) /\ (opts.body = "form" => form \in forms)

(* At most one form at a time, and none once the call has returned.        *)
FormsFreed == Cardinality(forms) <= 1 /\ (pc = "idle" => forms = {})

(* A failed transfer leaves one of the outcomes SyncManager expects of it  *)
(* (an empty text counts as any other text that is_retryable does not      *)
(* know).  One that could not open its local file asked nobody and leaves  *)
(* the status of an earlier request; is_retryable must not retry it for    *)
(* that status, whatever it is.                                            *)
OutcomeIsKnown ==
  [][pc' = "idle" /\ result' = "false" /\ call' \in {"upload", "download"} =>
       LET error == IF response' = "" THEN "other" ELSE response' IN
       /\ [status |-> status', error |-> error] \in FailedTransfers
       /\ curl /\ pc # "perform" => ~is_retryable(status', error)]_vars
=============================================================================
