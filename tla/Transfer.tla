------------------------------ MODULE Transfer ------------------------------
(***************************************************************************)
(* The outcome of a transfer as Network hands it to SyncManager, by what   *)
(* SyncManager tells apart.  Module Network shows that its calls leave no  *)
(* other outcome than FailedTransfers, and SyncManager relies on that.     *)
(***************************************************************************)
(* HTTP status by the classes the code tells apart ("429" also stands for  *)
(* 408 and 425, "0" for no answer) and the error text by what is_retryable *)
(* looks for in it.                                                        *)
HttpStatus == {"0", "2xx", "3xx", "4xx", "429", "5xx"}
is_retryable(status, error) ==
  /\ error # "local file"
  /\ status \in {"0", "429", "5xx"} \/ error = "validation failed"

(* What a failed http_download_file or http_upload_file leaves behind: an  *)
(* error of curl or an unexpected status, a body that is not the expected  *)
(* one, or a local file that cannot be opened; then no request was made    *)
(* and the status is the one of the worker's previous request.  The error  *)
(* text of a failed upload may be the beginning of the server's answer.    *)
FailedTransfers ==
  [status : HttpStatus, error : {"other", "local file"}]
    \cup [status : {"0", "2xx", "3xx"}, error : {"validation failed"}]
=============================================================================
