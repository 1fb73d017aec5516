--------------------------- MODULE LibraryProofs ---------------------------
(***************************************************************************)
(* Safety of three parts that SyncManager stands on.                       *)
(*                                                                         *)
(* One Network object, for any number of retries and calls: the shared     *)
(* handle carries nothing from one call into the next, no form is leaked   *)
(* or used after it was freed, and a failed transfer ends in one of the    *)
(* ways SyncManager expects, and is not retried without a request made.    *)
(*                                                                         *)
(* One rfs::File: the position that it tracks, and the name it has open.   *)
(*                                                                         *)
(* resolve_local_path, for every path, tree of links and local_root: what  *)
(* is used and what is created is below local_root, as far as links stay.  *)
(***************************************************************************)
EXTENDS Network, RfsFile, LocalPath, FiniteSetTheorems, WellFoundedInduction, TLAPS

(* Only the latest form of an upload exists, and it is the one the local   *)
(* variable points to; a request is performed with the options of its call.*)
Handle ==
  /\ call \in Kinds /\ pc \in {"idle", "configure", "perform"} /\ attempt \in Nat
  /\ forms = {} \/ forms = {form}
  /\ pc = "idle" \/ call # "upload" => forms = {}
  /\ pc = "perform" => opts = OwnOptions(call) /\ (call = "upload" => forms = {form})

(* What the caller of a transfer finds when it has failed.                 *)
Known ==
  pc = "idle" /\ result = "false" /\ call \in {"upload", "download"} =>
    [status |-> status, error |-> IF response = "" THEN "other" ELSE response] \in FailedTransfers
Outcome == status \in HttpStatus /\ Known

IInv == Handle /\ Outcome

-----------------------------------------------------------------------------
(* A call that resets the handle and then sets its options asks for what   *)
(* the call wants.                                                         *)
LEMMA ConfiguredIsOwn ==
  ASSUME NEW k \in Kinds
  PROVE  Configured(k, NoOptions) = OwnOptions(k)
<1> DEFINE c == Configured(k, NoOptions)  o == OwnOptions(k)
           Options == [method : {"GET", "POST", "PUT", "DELETE"}, body : {"none", "data", "form"},
                       sink : {"stdout", "response", "file"}]
<1>a. NoOptions \in Options
  BY DEF NoOptions
<1>b. c \in Options
  BY <1>a, Zenon DEF Configured
<1>1. c = [method |-> c.method, body |-> c.body, sink |-> c.sink]
  BY <1>b
<1>2. o = [method |-> o.method, body |-> o.body, sink |-> o.sink]
  BY DEF OwnOptions
<1>3. c.method = o.method
  BY DEF Configured, NoOptions, OwnOptions
<1>4. c.body = o.body
  BY DEF Configured, NoOptions, OwnOptions
<1>5. c.sink = o.sink
  BY DEF Configured, NoOptions, OwnOptions
<1> HIDE DEF c, o
<1>6. c = o
  BY <1>1, <1>2, <1>3, <1>4, <1>5
<1> QED BY <1>6 DEF c, o

(* Returning frees the last form.                                          *)
LEMMA ReturnFrees ==
  ASSUME Handle, NEW r, NEW text, Return(r, text), call' \in Kinds, attempt' \in Nat
  PROVE  Handle'
BY DEF Handle, Return

(* Every step keeps forms and options in order.                            *)
LEMMA HandleStep == Handle /\ [Next]_vars => Handle'
<1> SUFFICES ASSUME Handle, [Next]_vars PROVE Handle'
  OBVIOUS
<1>1. CASE UNCHANGED vars
  BY <1>1 DEF vars, Handle
<1>2. ASSUME NEW k \in Kinds, call_refused(k) PROVE Handle'
  BY <1>2, ReturnFrees, Zenon DEF call_refused
<1>3. ASSUME NEW k \in Kinds, call_begins(k) PROVE Handle'
  BY <1>3, Zenon DEF call_begins, Handle
<1>4. CASE open_fails
  BY <1>4, ReturnFrees, Zenon DEF open_fails, Handle
<1>5. CASE configure
  <2>1. opts' = OwnOptions(call) /\ UNCHANGED <<call, attempt>> /\ pc' = "perform"
    BY <1>5, ConfiguredIsOwn, Zenon DEF configure, BaseOptions, Handle
  <2>2. CASE call = "upload"
    <3>1. form' = attempt + 1 /\ forms' = {attempt + 1}
      BY <1>5, <2>2, Zenon DEF configure, Freed, Handle
    <3> QED BY <2>1, <2>2, <3>1 DEF Handle, OwnOptions
  <2>3. CASE call # "upload"
    BY <1>5, <2>1, <2>3, Zenon DEF configure, Handle, OwnOptions
  <2> QED BY <2>2, <2>3
<1>6. ASSUME NEW r \in Replies, reply_succeeds(r) PROVE Handle'
  BY <1>6, ReturnFrees DEF reply_succeeds, Handle
<1>7. ASSUME NEW r \in Replies, reply_fails(r) PROVE Handle'
  <2>1. CASE MoreAttempts
    BY <1>7, <2>1 DEF reply_fails, Handle
  <2>2. CASE ~MoreAttempts
    BY <1>7, <2>2, ReturnFrees, Zenon DEF reply_fails, Handle
  <2> QED BY <2>1, <2>2
<1> QED BY <1>1, <1>2, <1>3, <1>4, <1>5, <1>6, <1>7 DEF Next

(* The last attempt of a transfer leaves a known outcome.                  *)
LEMMA FailureIsKnown ==
  ASSUME NEW r \in Replies, NEW text \in FailureText(r), ~Answered(r) \/ call = "download"
  PROVE  [status |-> r.status, error |-> IF text = "" THEN "other" ELSE text] \in FailedTransfers
<1>1. r.status \in HttpStatus /\ r.ok \in BOOLEAN
  BY Zenon DEF Replies, HttpStatus
<1>2. CASE call = "download"
  <2>1. CASE Answered(r)
    BY <1>1, <1>2, <2>1, Zenon DEF FailureText, FailedTransfers, Answered
  <2>2. CASE ~Answered(r)
    BY <1>1, <1>2, <2>2 DEF FailureText, FailedTransfers
  <2> QED BY <2>1, <2>2, Zenon
<1>3. CASE call # "download" /\ r.ok
  BY <1>1, <1>3 DEF FailureText, FailedTransfers
<1>4. CASE call # "download" /\ ~r.ok
  <2>1. text = r.text
    BY <1>4 DEF FailureText
  <2>2. r.text = "" \/ (r.text \in Texts /\ r.status \in {"2xx", "3xx"})
    BY <1>4, Zenon DEF Replies
  <2> QED BY <1>1, <2>1, <2>2, Zenon DEF Texts, FailedTransfers
<1> QED BY <1>1, <1>2, <1>3, <1>4, Zenon

(* Every step keeps what is known of outcomes.                             *)
LEMMA OutcomeStep == Handle /\ Outcome /\ [Next]_vars => Outcome'
<1> SUFFICES ASSUME Handle, Outcome, [Next]_vars PROVE Outcome'
  OBVIOUS
<1> USE DEF Outcome
<1>a. ASSUME status' \in HttpStatus, pc' # "idle" PROVE Outcome'
  BY <1>a, Zenon DEF Known
<1>b. ASSUME NEW text \in {"", "other", "local file"}, response' = text, status' \in HttpStatus
      PROVE  Outcome'
  BY <1>b, Zenon DEF Known, FailedTransfers
<1>1. CASE UNCHANGED vars
  BY <1>1, Zenon DEF vars, Known
<1>2. ASSUME NEW k \in Kinds, call_refused(k) PROVE Outcome'
  BY <1>2, <1>b, Zenon DEF call_refused, Return, NotThere
<1>3. CASE open_fails
  BY <1>3, <1>b, Zenon DEF open_fails, Return
<1>4. ASSUME NEW k \in Kinds, call_begins(k) PROVE Outcome'
  BY <1>4, <1>a, Zenon DEF call_begins
<1>5. CASE configure
  BY <1>5, <1>a, Zenon DEF configure, HttpStatus
<1>6. ASSUME NEW r \in Replies PROVE r.status \in HttpStatus
  BY <1>6, Zenon DEF Replies, HttpStatus
<1>7. ASSUME NEW r \in Replies, reply_succeeds(r) PROVE Outcome'
  BY <1>6, <1>7, <1>b DEF reply_succeeds, Return
<1>8. ASSUME NEW r \in Replies, reply_fails(r) PROVE Outcome'
  <2>1. PICK text \in FailureText(r) :
          IF MoreAttempts THEN pc' = "configure"
          ELSE response' = (IF text = "" THEN "other" ELSE text)
    BY <1>8, Zenon DEF reply_fails, Return
  <2>2. status' = r.status /\ call' = call /\ (~Answered(r) \/ call = "download")
    BY <1>8, Zenon DEF reply_fails
  <2>3. [status |-> r.status, error |-> IF text = "" THEN "other" ELSE text] \in FailedTransfers
    BY <2>2, FailureIsKnown, Zenon
  <2>4. CASE MoreAttempts
    BY <1>6, <2>1, <2>2, <2>4, <1>a
  <2>5. CASE ~MoreAttempts
    <3>1. response' = (IF text = "" THEN "other" ELSE text) /\ response' # ""
      BY <2>1, <2>5, Zenon
    <3> QED BY <1>6, <2>2, <2>3, <3>1, Zenon DEF Known
  <2> QED BY <2>4, <2>5
<1> QED BY <1>1, <1>2, <1>3, <1>4, <1>5, <1>7, <1>8 DEF Next

(* The inductive invariant.                                                *)
LEMMA Inductive == Spec => []IInv
<1>1. Init => IInv
  <2> SUFFICES ASSUME Init PROVE IInv
    OBVIOUS
  <2>1. Handle
    BY Zenon DEF Init, Handle, Kinds
  <2>2. Outcome
    BY Zenon DEF Init, Outcome, Known, HttpStatus
  <2> QED BY <2>1, <2>2 DEF IInv
<1>2. IInv /\ [Next]_vars => IInv'
  BY HandleStep, OutcomeStep DEF IInv
<1> QED BY <1>1, <1>2, PTL DEF Spec

-----------------------------------------------------------------------------
(* No option of an earlier call or attempt is left in the handle when a    *)
(* request is made, and a form it points to still exists.                  *)
THEOREM RequestCorrect == Spec => []RequestIsItsOwn
<1>1. IInv => RequestIsItsOwn
  BY DEF IInv, Handle, RequestIsItsOwn, OwnOptions, Kinds
<1> QED BY <1>1, Inductive, PTL

(* However many attempts an upload takes, one form exists at a time, and   *)
(* none when it has returned.                                              *)
THEOREM FormsCorrect == Spec => []FormsFreed
<1>1. IInv => FormsFreed
  <2> SUFFICES ASSUME Handle PROVE FormsFreed
    BY DEF IInv
  <2>1. CASE forms = {}
    BY <2>1, FS_EmptySet DEF FormsFreed
  <2>2. CASE forms = {form}
    <3>1. Cardinality(forms) = 1
      BY <2>2, FS_Singleton, Zenon
    <3> QED BY <3>1 DEF FormsFreed, Handle
  <2> QED BY <2>1, <2>2 DEF Handle
<1> QED BY <1>1, Inductive, PTL

(* A failed upload or download leaves one of the outcomes that the model   *)
(* of SyncManager's retry decision starts from, and one that is not to be  *)
(* retried when it could not open its file.                                *)
THEOREM OutcomeCorrect == Spec => OutcomeIsKnown
<1> DEFINE Error == IF response' = "" THEN "other" ELSE response'
<1>1. ASSUME IInv', Next, pc' = "idle", result' = "false", call' \in {"upload", "download"}
      PROVE  /\ [status |-> status', error |-> Error] \in FailedTransfers
             /\ curl /\ pc # "perform" => ~is_retryable(status', Error)
  <2>1. [status |-> status', error |-> Error] \in FailedTransfers
    BY <1>1, Zenon DEF IInv, Outcome, Known
  <2>2. ASSUME curl, pc # "perform" PROVE response' = "local file"
    <3>1. ASSUME NEW k \in Kinds, call_refused(k) PROVE response' = "local file"
      BY <2>2, <3>1, Zenon DEF call_refused, Return, NotThere
    <3>2. CASE open_fails
      BY <3>2, Zenon DEF open_fails, Return
    <3>3. ASSUME NEW k \in Kinds, call_begins(k) PROVE FALSE
      BY <1>1, <3>3, Zenon DEF call_begins
    <3>4. CASE configure
      BY <1>1, <3>4, Zenon DEF configure
    <3>5. ASSUME NEW r \in Replies, reply_succeeds(r) \/ reply_fails(r) PROVE FALSE
      BY <2>2, <3>5, Zenon DEF reply_succeeds, reply_fails
    <3> QED BY <1>1, <3>1, <3>2, <3>3, <3>4, <3>5, Zenon DEF Next
  <2>3. curl /\ pc # "perform" => ~is_retryable(status', Error)
    BY <2>2, Zenon DEF is_retryable
  <2> QED BY <2>1, <2>3, Zenon
<1>2. IInv /\ IInv' /\ [Next]_vars =>
        [pc' = "idle" /\ result' = "false" /\ call' \in {"upload", "download"} =>
           /\ [status |-> status', error |-> Error] \in FailedTransfers
           /\ curl /\ pc # "perform" => ~is_retryable(status', Error)]_vars
  BY <1>1, Zenon
<1> QED BY <1>2, Inductive, PTL DEF Spec, OutcomeIsKnown

-----------------------------------------------------------------------------
(* rfs::File.                                                              *)

(* The calls, with a stream's name for a path of its own.                  *)
LEMMA FileCases ==
  ASSUME FileNext
  PROVE  \/ \E p \in FilePaths, m \in Modes : open_mounted(p) \/ open_failed(p, m) \/ open_succeeds(p, m)
         \/ ntfs_open_refused \/ get_file_info \/ close \/ not_open \/ size \/ flush_fails
         \/ \E n \in 0 .. MaxCount : read(n) \/ write(n)
         \/ \E offset \in -1 .. MaxLen, origin \in Origins : seek(offset, origin)
<1>1. ASSUME NEW p \in FilePaths PROVE [p EXCEPT !.stream = TRUE] \in FilePaths
  BY Zenon DEF FilePaths
<1> QED BY <1>1, Zenon DEF FileNext, open, open_stream

(* The longer of two lengths is a length.                                  *)
LEMMA MaxOfTwo ==
  ASSUME NEW a \in Int, NEW b \in Int
  PROVE  Max({a, b}) \in Int
<1>1. \E x \in {a, b} : \A y \in {a, b} : x >= y
  OBVIOUS
<1>2. Max({a, b}) \in {a, b}
  BY <1>1 DEF Max
<1> QED BY <1>2

(* Lengths are numbers, and an open file has one.                          *)
Lengths ==
  /\ files \in [FilePaths -> Int] /\ pos \in Int
  /\ opened \in FilePaths \cup {NoPath}

FileInv == Lengths /\ PositionKnown

(* Every call keeps the lengths.                                           *)
LEMMA StepLengths ==
  ASSUME Lengths, [FileNext]_fileVars
  PROVE  Lengths'
<1> USE DEF Lengths
<1>1. CASE UNCHANGED <<files, opened, pos>>
  BY <1>1
<1>2. CASE UNCHANGED fileVars
  BY <1>1, <1>2 DEF fileVars, streamVars
<1>3. ASSUME NEW p \in FilePaths, NEW m \in Modes, open_mounted(p) \/ open_failed(p, m) \/ open_succeeds(p, m)
      PROVE  Lengths'
  <2>1. CASE open_mounted(p) \/ open_failed(p, m)
    BY <1>1, <2>1 DEF open_mounted, open_failed, streamVars
  <2>2. CASE open_succeeds(p, m)
    BY <2>2 DEF open_succeeds
  <2> QED BY <1>3, <2>1, <2>2
<1>4. CASE ntfs_open_refused \/ get_file_info \/ not_open \/ size
  BY <1>1, <1>4 DEF ntfs_open_refused, get_file_info, not_open, size, Restored, streamVars
<1>5. CASE close
  BY <1>5 DEF close
<1>6. ASSUME NEW n \in 0 .. MaxCount, read(n) PROVE Lengths'
  <2>1. opened \in FilePaths /\ n \in Int
    BY <1>6, RfsAssumption DEF read, is_open
  <2>2. Available \in Int
    BY <2>1 DEF Available
  <2>3. \E x \in {n, Available} : \A y \in {n, Available} : x <= y
    BY <2>1, <2>2
  <2>4. Min({n, Available}) \in Int
    BY <2>1, <2>2, <2>3 DEF Min
  <2> QED BY <1>6, <2>4 DEF read
<1>7. ASSUME NEW n \in 0 .. MaxCount, write(n) PROVE Lengths'
  <2>1. PICK k \in 0 .. n :
          /\ pos' = pos + k
          /\ files' = [files EXCEPT ![opened] = Max({@, IF k = 0 THEN 0 ELSE pos + k})]
    BY <1>7, Zenon DEF write
  <2>2. opened \in FilePaths /\ k \in Int /\ UNCHANGED opened
    BY <1>7, <2>1, RfsAssumption DEF write, is_open
  <2>3. files[opened] \in Int /\ (IF k = 0 THEN 0 ELSE pos + k) \in Int
    BY <2>2
  <2>4. Max({files[opened], IF k = 0 THEN 0 ELSE pos + k}) \in Int
    BY <2>3, MaxOfTwo
  <2> QED BY <2>1, <2>2, <2>4
<1>8. ASSUME NEW offset \in -1 .. MaxLen, NEW origin \in Origins, seek(offset, origin)
      PROVE  Lengths'
  <2>1. opened \in FilePaths /\ offset \in Int /\ origin \in {"beg", "cur", "end"} /\ UNCHANGED <<files, opened>>
    BY <1>8, RfsAssumption DEF seek, is_open, Origins
  <2>2. \A x \in Int : From(origin, x) + offset \in Int
    BY <2>1 DEF From
  <2> QED BY <1>8, <2>1, <2>2 DEF seek
<1>9. CASE flush_fails
  BY <1>9 DEF flush_fails
<1> QED BY <1>2, <1>3, <1>4, <1>5, <1>6, <1>7, <1>8, <1>9, FileCases

(* A seek from the beginning or the end lands where its argument says, or  *)
(* the position stays as it is: the second half does not move it again.    *)
LEMMA SeekOnce ==
  ASSUME NEW offset \in Int, NEW origin \in {"beg", "end"}, seek(offset, origin), Lengths
  PROVE  \/ UNCHANGED <<pos, believed>>
         \/ pos' = believed'
<1>1. \A x, y : From(origin, x) = From(origin, y)
  BY DEF From
<1> DEFINE got == From(origin, pos) + offset
           put == From(origin, got) + offset
<1>2. got \in Int /\ got = put
  <2>1. files[opened] \in Int
    BY DEF seek, is_open, Lengths
  <2>2. got \in Int
    BY <2>1 DEF From
  <2> QED BY <1>1, <2>2
<1>3. From(origin, 0) + offset = put
  BY <1>1
<1>4. /\ pos' = IF got < 0 THEN pos ELSE IF put < 0 THEN got ELSE put
      /\ believed' = IF got >= 0 /\ put >= 0 THEN From(origin, 0) + offset ELSE believed
  BY DEF seek, Reckoned
<1> HIDE DEF got, put
<1> QED BY <1>2, <1>3, <1>4

(* A seek from the current position moves twice, or nothing is known.      *)
LEMMA SeekTwice ==
  ASSUME NEW offset \in Int, seek(offset, "cur"), FileInv
  PROVE  believed' = Unknown \/ pos' = believed'
<1>1. From("cur", pos) + offset = pos + offset
      /\ From("cur", pos + offset) + offset = pos + offset + offset
  BY DEF From
<1>2. is_open /\ pos \in Int
  BY DEF seek, FileInv, Lengths
<1>3. /\ pos' = IF pos + offset < 0 THEN pos
               ELSE IF pos + offset + offset < 0 THEN pos + offset ELSE pos + offset + offset
      /\ believed' = IF pos + offset >= 0 /\ pos + offset + offset >= 0 /\ believed # Unknown
                     THEN believed + 2 * offset ELSE Unknown
  BY <1>1 DEF seek, Reckoned
<1>4. believed # Unknown => believed = pos
  BY <1>2 DEF FileInv, PositionKnown
<1> QED BY <1>2, <1>3, <1>4

(* What each call does to the position and to what is believed of it.      *)
LEMMA StepPosition ==
  ASSUME FileInv, [FileNext]_fileVars
  PROVE  PositionKnown'
<1> USE DEF FileInv
<1>1. ASSUME UNCHANGED <<opened, pos, believed>> PROVE PositionKnown'
  BY <1>1 DEF PositionKnown, is_open
<1>2. CASE UNCHANGED fileVars
  BY <1>1, <1>2 DEF fileVars, streamVars
<1>3. ASSUME NEW p, NEW m, open_mounted(p) \/ open_failed(p, m) \/ open_succeeds(p, m)
      PROVE  PositionKnown'
  BY <1>1, <1>3 DEF open_mounted, open_failed, open_succeeds, streamVars, PositionKnown
<1>4. CASE ntfs_open_refused \/ get_file_info \/ not_open \/ size
  BY <1>1, <1>4 DEF ntfs_open_refused, get_file_info, not_open, size, Restored, streamVars
<1>5. CASE close
  BY <1>5, Zenon DEF close, PositionKnown, is_open, NoPath
<1>6. ASSUME NEW n \in 0 .. MaxCount, read(n) PROVE PositionKnown'
  BY <1>6 DEF read, PositionKnown, is_open
<1>7. ASSUME NEW n \in 0 .. MaxCount, write(n) PROVE PositionKnown'
  <2>1. PICK k \in 0 .. n : /\ pos' = pos + k
                            /\ believed' = IF believed = Unknown \/ k < n THEN Unknown ELSE believed + n
    BY <1>7 DEF write
  <2>2. n \in Nat /\ ~(k < n) => k = n
    BY <2>1, RfsAssumption
  <2>3. is_open /\ n \in Nat
    BY <1>7, RfsAssumption DEF write
  <2> QED BY <2>1, <2>2, <2>3 DEF PositionKnown
<1>8. ASSUME NEW offset \in -1 .. MaxLen, NEW origin \in Origins, seek(offset, origin)
      PROVE  PositionKnown'
  <2>1. UNCHANGED opened /\ offset \in Int
    BY <1>8, RfsAssumption DEF seek
  <2>2. CASE origin = "cur"
    BY <1>8, <2>1, <2>2, SeekTwice DEF PositionKnown
  <2>3. CASE origin # "cur"
    BY <1>1, <1>8, <2>1, <2>3, SeekOnce DEF PositionKnown, Origins
  <2> QED BY <2>2, <2>3
<1>9. CASE flush_fails
  BY <1>9 DEF flush_fails, PositionKnown
<1> QED BY <1>2, <1>3, <1>4, <1>5, <1>6, <1>7, <1>8, <1>9, FileCases

(* A caller that counts twice the offset of a seek from where it is always *)
(* knows its position, for files and offsets of any length.                *)
THEOREM PositionCorrect == FileSpec => []PositionKnown
<1>1. FileInit => FileInv
  BY DEF FileInit, FileInv, Lengths, PositionKnown, Absent
<1>2. FileInv /\ [FileNext]_fileVars => FileInv'
  BY StepPosition, StepLengths DEF FileInv
<1>3. FileInv => PositionKnown
  BY DEF FileInv
<1> QED BY <1>1, <1>2, <1>3, PTL DEF FileSpec

(* An open that fails sets a bit, and a bit an error code.                 *)
LEMMA FailureShows ==
  ASSUME NEW p, NEW m, open_failed(p, m)
  PROVE  last_error_' # 0
BY DEF open_failed, SetBits, ErrorOf, AfterFailure

(* Each call answers for itself: only open returns an "open".              *)
LEMMA StepOpened ==
  ASSUME OpenedIsNamed, [FileNext]_fileVars
  PROVE  OpenedIsNamed'
<1> USE DEF OpenedIsNamed
<1>1. CASE UNCHANGED fileVars
  BY <1>1 DEF fileVars, streamVars
<1>2. ASSUME NEW p, NEW m, open_mounted(p) \/ open_failed(p, m) \/ open_succeeds(p, m)
      PROVE  OpenedIsNamed'
  <2>1. CASE open_mounted(p)
    BY <2>1 DEF open_mounted
  <2>2. CASE open_failed(p, m)
    BY <2>2, FailureShows
  <2>3. CASE open_succeeds(p, m)
    BY <2>3 DEF open_succeeds
  <2> QED BY <1>2, <2>1, <2>2, <2>3
<1>3. ASSUME NEW op \in {"info", "close", "none", "size", "read", "write", "seek"},
             NEW v, Returns(op, v)
      PROVE  OpenedIsNamed'
  BY <1>3 DEF Returns
<1>4. CASE ntfs_open_refused
  BY <1>4 DEF ntfs_open_refused, Returns, True, False
<1>5. CASE get_file_info \/ close \/ not_open \/ size \/ flush_fails
  BY <1>3, <1>5 DEF get_file_info, close, not_open, size, flush_fails, Unflushed
<1>6. ASSUME NEW n \in 0 .. MaxCount, read(n) \/ write(n) PROVE OpenedIsNamed'
  BY <1>3, <1>6 DEF read, write
<1>7. ASSUME NEW offset, NEW origin, seek(offset, origin) PROVE OpenedIsNamed'
  BY <1>3, <1>7 DEF seek
<1> QED BY <1>1, <1>2, <1>4, <1>5, <1>6, <1>7, FileCases

(* When open returns true and the error code is 0, the file behind the     *)
(* object is the one that was named.                                       *)
THEOREM OpenCorrect ==
  FileSpec => []OpenedIsNamed
<1>1. FileInit => OpenedIsNamed
  BY DEF FileInit, OpenedIsNamed
<1>2. OpenedIsNamed /\ [FileNext]_fileVars => OpenedIsNamed'
  BY StepOpened
<1> QED BY <1>1, <1>2, PTL DEF FileSpec

-----------------------------------------------------------------------------
(* Local paths.  A place is a sequence of names.  lexically_normal and     *)
(* weakly_canonical are recursive functions over the names of a path; what *)
(* they compute is found by induction, which is stated for sets of numbers *)
(* (UpTo) and comes from the well-foundedness of < on Nat.                 *)

Name  == STRING \cup {""}
Place == Seq(Name)

(* A set of natural numbers that is not empty has a smallest one.          *)
LEMMA SmallestExists ==
  ASSUME NEW T \in SUBSET Nat, T # {}
  PROVE  \E x \in T : \A y \in T : x <= y
<1> DEFINE R == OpToRel(<, Nat)
<1>1. IsWellFoundedOn(R, Nat)
  BY NatLessThanWellFounded, Zenon
<1>2. R = {ss \in Nat \X Nat : ss[1] < ss[2]}
  BY DEF OpToRel
<1> HIDE DEF R
<1>3. PICK x \in T : \A y \in T : ~ (<<y, x>> \in R)
  BY <1>1, WFMin, Zenon
<1>4. ASSUME NEW y \in T PROVE x <= y
  <2>1. x \in Nat /\ y \in Nat
    OBVIOUS
  <2>2. y < x => <<y, x>> \in R
    BY <2>1, <1>2
  <2> QED BY <2>1, <2>2, <1>3
<1> QED BY <1>4

(* Induction up to n, for sets.                                            *)
LEMMA UpTo ==
  ASSUME NEW n \in Nat, NEW T, 0 \in T, \A k \in 1 .. n : k - 1 \in T => k \in T
  PROVE  \A k \in 0 .. n : k \in T
<1> SUFFICES ASSUME NEW k \in 0 .. n, k \notin T PROVE FALSE
  OBVIOUS
<1> DEFINE U == {j \in 0 .. n : j \notin T}
<1>1. U \in SUBSET Nat /\ U # {}
  OBVIOUS
<1>2. PICK x \in U : \A y \in U : x <= y
  BY <1>1, SmallestExists, Zenon
<1>3. x \in 1 .. n /\ x - 1 \in 0 .. n /\ ~(x <= x - 1)
  BY <1>2
<1>4. x - 1 \in T
  BY <1>2, <1>3
<1> QED BY <1>2, <1>3, <1>4

(* A step function can be applied along a sequence.                        *)
Along(F, a, s, n, f) == f[0] = a /\ \A k \in 1 .. n : f[k] = F[<<f[k - 1], s[k]>>]
LEMMA Iterate ==
  ASSUME NEW A, NEW B, NEW F \in [A \X B -> A], NEW a \in A, NEW s \in Seq(B)
  PROVE  \E f \in [0 .. Len(s) -> A] : Along(F, a, s, Len(s), f)
<1> DEFINE T == {n \in 0 .. Len(s) : \E f \in [0 .. n -> A] : Along(F, a, s, n, f)}
<1>1. 0 \in T
  <2>1. [k \in 0 .. 0 |-> a] \in [0 .. 0 -> A] /\ Along(F, a, s, 0, [k \in 0 .. 0 |-> a])
    BY DEF Along
  <2>2. \E f \in [0 .. 0 -> A] : Along(F, a, s, 0, f)
    BY <2>1
  <2> QED BY <2>2
<1>2. ASSUME NEW n \in 1 .. Len(s), n - 1 \in T PROVE n \in T
  <2>1. PICK f \in [0 .. n - 1 -> A] : Along(F, a, s, n - 1, f)
    BY <1>2
  <2> DEFINE g == [k \in 0 .. n |-> IF k = n THEN F[<<f[n - 1], s[n]>>] ELSE f[k]]
  <2>2. s[n] \in B /\ f[n - 1] \in A
    BY <2>1
  <2>3. F[<<f[n - 1], s[n]>>] \in A
    BY <2>2
  <2>4. \A k \in 0 .. n : k # n => k \in 0 .. n - 1
    OBVIOUS
  <2>5. g \in [0 .. n -> A]
    BY <2>3, <2>4
  <2>6. g[0] = a
    BY <2>1 DEF Along
  <2>7. ASSUME NEW k \in 1 .. n PROVE g[k] = F[<<g[k - 1], s[k]>>]
    <3>1. k - 1 \in 0 .. n /\ k - 1 # n /\ g[k - 1] = f[k - 1]
      OBVIOUS
    <3>2. CASE k = n
      BY <3>1, <3>2
    <3>3. CASE k # n
      <4>1. k \in 1 .. n - 1
        BY <3>3
      <4> QED BY <2>1, <3>1, <3>3, <4>1 DEF Along
    <3> QED BY <3>2, <3>3
  <2> HIDE DEF g
  <2>8. \E h \in [0 .. n -> A] : Along(F, a, s, n, h)
    BY <2>5, <2>6, <2>7 DEF Along
  <2> QED BY <2>8
<1>3. Len(s) \in Nat /\ Len(s) \in 0 .. Len(s)
  OBVIOUS
<1> HIDE DEF T
<1>4. Len(s) \in T
  BY <1>1, <1>2, <1>3, UpTo, Zenon
<1> QED BY <1>4 DEF T

(* The first n elements of a sequence.                                     *)
LEMMA FirstElements ==
  ASSUME NEW S, NEW s \in Seq(S), NEW n \in 0 .. Len(s)
  PROVE  /\ SubSeq(s, 1, n) \in Seq(S) /\ Len(SubSeq(s, 1, n)) = n
         /\ \A k \in 1 .. n : SubSeq(s, 1, n)[k] = s[k]
OBVIOUS

(* The front of a sequence.                                                *)
LEMMA FrontElements ==
  ASSUME NEW S, NEW s \in Seq(S), s # <<>>
  PROVE  /\ parent_path(s) \in Seq(S) /\ Len(s) \in Nat /\ Len(s) > 0
         /\ Len(parent_path(s)) = Len(s) - 1
         /\ \A k \in 1 .. Len(s) - 1 : parent_path(s)[k] = s[k]
<1>1. Len(s) \in Nat /\ Len(s) # 0
  OBVIOUS
<1>2. Len(s) > 0 /\ Len(s) - 1 \in 0 .. Len(s)
  BY <1>1
<1>3. /\ SubSeq(s, 1, Len(s) - 1) \in Seq(S) /\ Len(SubSeq(s, 1, Len(s) - 1)) = Len(s) - 1
      /\ \A k \in 1 .. Len(s) - 1 : SubSeq(s, 1, Len(s) - 1)[k] = s[k]
  BY <1>1, <1>2, FirstElements, Zenon
<1> QED BY <1>1, <1>2, <1>3 DEF parent_path

(* Appending to a sequence.                                                *)
LEMMA AppendElements ==
  ASSUME NEW S, NEW s \in Seq(S), NEW e \in S
  PROVE  /\ Append(s, e) \in Seq(S) /\ Len(s) \in Nat
         /\ Len(Append(s, e)) = Len(s) + 1
         /\ \A k \in 1 .. Len(s) : Append(s, e)[k] = s[k]
         /\ Append(s, e)[Len(s) + 1] = e
OBVIOUS

(* One name on, from place to place.                                       *)
LEMMA FollowPlace ==
  ASSUME NEW l \in [LinkPlaces -> Place], NEW place \in Place, NEW part \in Name
  PROVE  Follow(l, place, part) \in Place
<1> DEFINE on == IF part = Up THEN (IF place = <<>> THEN <<>> ELSE parent_path(place)) ELSE Append(place, part)
<1>1. on \in Place
  BY FrontElements, AppendElements DEF Place
<1> HIDE DEF on
<1>2. Follow(l, place, part) = IF on \in LinkPlaces /\ l[on] # NoLink THEN l[on] ELSE on
  BY DEF Follow, on
<1> QED BY <1>1, <1>2

(* The walk of weakly_canonical goes from place to place.                  *)
LEMMA WalkStep ==
  ASSUME NEW l \in [LinkPlaces -> Place], NEW parts \in Place
  PROVE  /\ Walk(l, parts) \in [0 .. Len(parts) -> Place]
         /\ Walk(l, parts)[0] = <<>>
         /\ \A k \in 1 .. Len(parts) :
              Walk(l, parts)[k] = Follow(l, Walk(l, parts)[k - 1], parts[k])
<1> DEFINE F == [x \in Place \X Name |-> Follow(l, x[1], x[2])]
           G(f) == [k \in 0 .. Len(parts) |-> IF k = 0 THEN <<>> ELSE Follow(l, f[k - 1], parts[k])]
           w == Walk(l, parts)
<1>1. F \in [Place \X Name -> Place]
  BY FollowPlace
<1>2. <<>> \in Place /\ parts \in Seq(Name) /\ Len(parts) \in Nat
  BY DEF Place
<1>3. PICK f \in [0 .. Len(parts) -> Place] : Along(F, <<>>, parts, Len(parts), f)
  BY <1>1, <1>2, Iterate, Zenon
<1>4. ASSUME NEW k \in 1 .. Len(parts) PROVE f[k] = Follow(l, f[k - 1], parts[k])
  <2>1. f[k - 1] \in Place /\ parts[k] \in Name
    BY <1>2, <1>3
  <2>2. f[k] = F[<<f[k - 1], parts[k]>>]
    BY <1>3, Zenon DEF Along
  <2> QED BY <2>1, <2>2
<1>5. f[0] = <<>>
  BY <1>3 DEF Along
<1> HIDE DEF F
<1>6. f = G(f)
  BY <1>2, <1>3, <1>4, <1>5
<1>7. w = CHOOSE g : g = G(g)
  BY DEF Walk
<1> HIDE DEF w
<1>8. w = G(w)
  BY <1>6, <1>7, Zenon
<1>9. /\ DOMAIN w = 0 .. Len(parts) /\ w[0] = <<>>
      /\ \A k \in 1 .. Len(parts) : w[k] = Follow(l, w[k - 1], parts[k])
  BY <1>2, <1>8
<1> DEFINE T == {k \in 0 .. Len(parts) : w[k] \in Place}
<1>10. 0 \in T
  BY <1>2, <1>9
<1>11. ASSUME NEW k \in 1 .. Len(parts), k - 1 \in T PROVE k \in T
  <2>1. parts[k] \in Name /\ w[k - 1] \in Place /\ k \in 0 .. Len(parts)
    BY <1>2, <1>11
  <2>2. Follow(l, w[k - 1], parts[k]) \in Place
    BY <2>1, FollowPlace, Zenon
  <2> QED BY <1>9, <2>1, <2>2
<1> HIDE DEF T
<1>12. \A k \in 0 .. Len(parts) : k \in T
  BY <1>2, <1>10, <1>11, UpTo, Zenon
<1>13. w \in [0 .. Len(parts) -> Place]
  BY <1>8, <1>12 DEF T
<1> QED BY <1>9, <1>13 DEF w

(* One name on, of lexically_normal: a sequence of names without ".".      *)
Dotless == {s \in Place : \A k \in 1 .. Len(s) : s[k] # "."}
LEMMA WithPartDotless ==
  ASSUME NEW done \in Dotless, NEW part \in Name
  PROVE  WithPart(done, part) \in Dotless
<1>1. done \in Place /\ Len(done) \in Nat /\ \A k \in 1 .. Len(done) : done[k] # "."
  BY DEF Dotless, Place
<1>2. CASE part = "."
  BY <1>2 DEF WithPart
<1>3. ASSUME done # <<>> PROVE parent_path(done) \in Dotless
  <2>1. /\ parent_path(done) \in Place /\ Len(parent_path(done)) = Len(done) - 1
        /\ \A k \in 1 .. Len(done) - 1 : parent_path(done)[k] = done[k]
    BY <1>1, <1>3, FrontElements DEF Place
  <2> QED BY <1>1, <2>1 DEF Dotless
<1>4. ASSUME part # "." PROVE Append(done, part) \in Dotless
  <2> DEFINE t == Append(done, part)
  <2>1. /\ t \in Place /\ Len(t) = Len(done) + 1 /\ t[Len(done) + 1] = part
        /\ \A k \in 1 .. Len(done) : t[k] = done[k]
    BY <1>1, AppendElements DEF Place
  <2> HIDE DEF t
  <2>2. ASSUME NEW k \in 1 .. Len(t) PROVE t[k] # "."
    <3>1. k \in 1 .. Len(done) \/ k = Len(done) + 1
      BY <1>1, <2>1
    <3> QED BY <1>1, <1>4, <2>1, <3>1
  <2>3. t \in Dotless
    BY <2>1, <2>2 DEF Dotless
  <2> QED BY <2>3 DEF t
<1> QED BY <1>2, <1>3, <1>4 DEF WithPart

(* So is what lexically_normal has done with the first names.              *)
LEMMA DoneDotless ==
  ASSUME NEW parts \in Place
  PROVE  Done(parts)[Len(parts)] \in Dotless
<1> DEFINE F == [x \in Dotless \X Name |-> WithPart(x[1], x[2])]
           G(f) == [k \in 0 .. Len(parts) |-> IF k = 0 THEN <<>> ELSE WithPart(f[k - 1], parts[k])]
           w == Done(parts)
<1>1. F \in [Dotless \X Name -> Dotless]
  BY WithPartDotless
<1>2. parts \in Seq(Name) /\ Len(parts) \in Nat
  BY DEF Place
<1>3. <<>> \in Dotless
  BY DEF Dotless, Place
<1>4. PICK f \in [0 .. Len(parts) -> Dotless] : Along(F, <<>>, parts, Len(parts), f)
  BY <1>1, <1>2, <1>3, Iterate, Zenon
<1>5. ASSUME NEW k \in 1 .. Len(parts) PROVE f[k] = WithPart(f[k - 1], parts[k])
  <2>1. f[k - 1] \in Dotless /\ parts[k] \in Name
    BY <1>2, <1>4
  <2>2. f[k] = F[<<f[k - 1], parts[k]>>]
    BY <1>4, Zenon DEF Along
  <2> QED BY <2>1, <2>2
<1>6. f[0] = <<>>
  BY <1>4 DEF Along
<1> HIDE DEF F
<1>7. f = G(f)
  BY <1>2, <1>4, <1>5, <1>6
<1>8. w = CHOOSE g : g = G(g)
  BY DEF Done
<1> HIDE DEF w
<1>9. w = G(w)
  BY <1>7, <1>8, Zenon
<1>10. /\ w[0] = <<>>
       /\ \A k \in 1 .. Len(parts) : w[k] = WithPart(w[k - 1], parts[k])
  BY <1>2, <1>9
<1> DEFINE T == {k \in 0 .. Len(parts) : w[k] \in Dotless}
<1>11. 0 \in T
  BY <1>2, <1>3, <1>10
<1>12. ASSUME NEW k \in 1 .. Len(parts), k - 1 \in T PROVE k \in T
  <2>1. parts[k] \in Name /\ w[k - 1] \in Dotless /\ k \in 0 .. Len(parts)
    BY <1>2, <1>12
  <2>2. WithPart(w[k - 1], parts[k]) \in Dotless
    BY <2>1, WithPartDotless, Zenon
  <2> QED BY <1>10, <2>1, <2>2
<1> HIDE DEF T
<1>13. Len(parts) \in T
  <2>1. \A k \in 0 .. Len(parts) : k \in T
    BY <1>2, <1>11, <1>12, UpTo, Zenon
  <2>2. Len(parts) \in 0 .. Len(parts)
    BY <1>2
  <2> QED BY <2>1, <2>2
<1> QED BY <1>13 DEF T, w

(* No name of a normal path is ".".                                        *)
LEMMA NormalDotless ==
  ASSUME NEW parts \in Place
  PROVE  lexically_normal(parts) \in Dotless
<1> DEFINE done == Done(parts)[Len(parts)]
<1>1. done \in Dotless
  BY DoneDotless
<1>2. lexically_normal(parts) \in {done, Append(done, "")}
  BY DEF lexically_normal
<1> HIDE DEF done
<1>3. Append(done, "") \in Dotless
  <2>1. Append(done, "") = WithPart(done, "")
    BY DEF WithPart, Up
  <2>2. "" \in Name
    BY DEF Name
  <2>3. WithPart(done, "") \in Dotless
    BY <1>1, <2>2, WithPartDotless, Zenon
  <2> QED BY <2>1, <2>3, Zenon
<1> QED BY <1>1, <1>2, <1>3, Zenon

-----------------------------------------------------------------------------
(* Where a walk can lead.                                                  *)

(* What is taken for granted of the file system: paths and places are made *)
(* of names; local_root has been made canonical by start, so no name of it *)
(* is ".." and no directory of it a link; and the directories above a      *)
(* link exist.                                                             *)
Inside(place) == is_descendant_of(place, Root)
Existing      == Above(Root) \cup (LinkTargets \ (RegularFiles \cup {NoLink}))
Canonical     == \A k \in 1 .. Len(Root) : Root[k] # Up /\ SubSeq(Root, 1, k) \notin LinkPlaces
FileSystem ==
  /\ \A p \in Paths : p.parts \in Place
  /\ LinkPlaces \subseteq Place /\ LinkTargets \subseteq Place
  /\ Root \in Place /\ Canonical
LinksAreReal ==
  \A p \in LinkPlaces : \A n \in 1 .. Len(p) - 1 :
    Inside(SubSeq(p, 1, n)) \/ SubSeq(p, 1, n) \in Existing

(* Sequences are equal when their elements are.                            *)
LEMMA SameElements ==
  ASSUME NEW S, NEW s \in Seq(S), NEW t \in Seq(S), Len(s) = Len(t),
         \A k \in 1 .. Len(s) : s[k] = t[k]
  PROVE  s = t
OBVIOUS

(* One more name of a place.                                               *)
LEMMA OneMore ==
  ASSUME NEW s \in Place, NEW n \in 1 .. Len(s)
  PROVE  SubSeq(s, 1, n) = Append(SubSeq(s, 1, n - 1), s[n])
<1> DEFINE a == SubSeq(s, 1, n)
           b == SubSeq(s, 1, n - 1)
           c == Append(b, s[n])
<1>1. s \in Seq(Name) /\ Len(s) \in Nat /\ n \in Nat /\ n \in 0 .. Len(s) /\ n - 1 \in 0 .. Len(s)
  BY DEF Place
<1>2. s[n] \in Name
  BY <1>1
<1>3. a \in Seq(Name) /\ Len(a) = n /\ \A k \in 1 .. n : a[k] = s[k]
  BY <1>1, FirstElements
<1>4. b \in Seq(Name) /\ Len(b) = n - 1 /\ \A k \in 1 .. n - 1 : b[k] = s[k]
  BY <1>1, FirstElements
<1> HIDE DEF a, b
<1>5. /\ c \in Seq(Name) /\ Len(c) = Len(b) + 1 /\ c[Len(b) + 1] = s[n]
      /\ \A k \in 1 .. Len(b) : c[k] = b[k]
  BY <1>2, <1>4, AppendElements
<1> HIDE DEF c
<1>6. ASSUME NEW k \in 1 .. n PROVE c[k] = s[k]
  <2>1. k \in 1 .. n - 1 \/ k = n
    OBVIOUS
  <2> QED BY <1>1, <1>4, <1>5, <2>1
<1>7. a = c
  <2>1. Len(c) = n
    BY <1>1, <1>4, <1>5
  <2> QED BY <1>3, <1>5, <1>6, <2>1, SameElements
<1> QED BY <1>7 DEF a, b, c

(* What the name that was appended last is behind.                         *)
LEMMA BeforeLast ==
  ASSUME NEW s \in Place, NEW e \in Name
  PROVE  parent_path(Append(s, e)) = s /\ filename(Append(s, e)) = e
<1> DEFINE t == Append(s, e)
<1>1. s \in Seq(Name) /\ Len(s) \in Nat
  BY DEF Place
<1>2. /\ t \in Seq(Name) /\ Len(t) = Len(s) + 1 /\ t[Len(s) + 1] = e
      /\ \A k \in 1 .. Len(s) : t[k] = s[k]
  BY <1>1, AppendElements
<1> HIDE DEF t
<1>3. Len(t) - 1 = Len(s) /\ Len(s) \in 0 .. Len(t)
  BY <1>1, <1>2
<1>4. /\ SubSeq(t, 1, Len(s)) \in Seq(Name) /\ Len(SubSeq(t, 1, Len(s))) = Len(s)
      /\ \A k \in 1 .. Len(s) : SubSeq(t, 1, Len(s))[k] = t[k]
  BY <1>2, <1>3, FirstElements
<1>5. SubSeq(t, 1, Len(s)) = s
  BY <1>1, <1>2, <1>4, SameElements
<1> QED BY <1>2, <1>3, <1>5 DEF t, parent_path, filename

(* A place that is the beginning of another one.                           *)
LEMMA BeginningOf ==
  ASSUME NEW s \in Place, NEW n \in 1 .. Len(s), NEW x \in Place, NEW e \in Name,
         SubSeq(s, 1, n) = Append(x, e)
  PROVE  n - 1 = Len(x) /\ x = SubSeq(s, 1, n - 1)
<1>1. s \in Seq(Name) /\ Len(s) \in Nat /\ n \in Nat /\ n - 1 \in 0 .. Len(s)
  BY DEF Place
<1>2. SubSeq(s, 1, n - 1) \in Seq(Name) /\ Len(SubSeq(s, 1, n - 1)) = n - 1 /\ s[n] \in Name
  BY <1>1, FirstElements
<1>3. Append(SubSeq(s, 1, n - 1), s[n]) = Append(x, e)
  BY OneMore
<1>4. parent_path(Append(SubSeq(s, 1, n - 1), s[n])) = SubSeq(s, 1, n - 1)
  BY <1>2, BeforeLast, Zenon DEF Place
<1>5. parent_path(Append(x, e)) = x
  BY BeforeLast
<1> QED BY <1>2, <1>3, <1>4, <1>5, Zenon

(* A place that is not below local_root nor above it nor above a link.     *)
Lost(x) ==
  /\ x # <<>> /\ ~Inside(x) /\ x \notin Above(Root)
  /\ \A p \in LinkPlaces : \A n \in 1 .. Len(p) - 1 : SubSeq(p, 1, n) # x

(* From such a place names other than ".." lead only to such places.       *)
LEMMA LostStays ==
  ASSUME FileSystem, NEW l \in [LinkPlaces -> Place], NEW x \in Place, Lost(x),
         NEW part \in Name, part # Up
  PROVE  Lost(Follow(l, x, part))
<1> DEFINE y == Append(x, part)
<1>1. x \in Seq(Name) /\ Len(x) \in Nat /\ Len(x) > 0
  BY DEF Place, Lost
<1>2. /\ y \in Seq(Name) /\ Len(y) = Len(x) + 1 /\ \A k \in 1 .. Len(x) : y[k] = x[k]
  BY <1>1, AppendElements
<1>3. Root \in Place /\ Len(Root) \in Nat /\ LinkPlaces \subseteq Place
  BY DEF FileSystem, Place
<1>4. ASSUME NEW s \in Place, NEW n \in 1 .. Len(s), SubSeq(s, 1, n) = y
      PROVE  n - 1 = Len(x) /\ x = SubSeq(s, 1, n - 1)
  BY <1>4, BeginningOf
<1>5. SubSeq(y, 1, Len(y)) = y
  <2>1. Len(y) \in 0 .. Len(y)
    BY <1>1, <1>2
  <2> HIDE DEF y
  <2>2. /\ SubSeq(y, 1, Len(y)) \in Seq(Name) /\ Len(SubSeq(y, 1, Len(y))) = Len(y)
        /\ \A k \in 1 .. Len(y) : SubSeq(y, 1, Len(y))[k] = y[k]
    BY <1>2, <2>1, FirstElements
  <2> QED BY <1>2, <2>2, SameElements
<1> HIDE DEF y
<1>6. y \notin LinkPlaces
  <2> SUFFICES ASSUME y \in LinkPlaces PROVE FALSE
    OBVIOUS
  <2>1. y \in Place /\ Len(y) \in 1 .. Len(y)
    BY <1>1, <1>2 DEF Place
  <2>2. x = SubSeq(y, 1, Len(y) - 1)
    BY <1>4, <1>5, <2>1, Zenon
  <2>3. Len(y) - 1 \in 1 .. Len(y) - 1
    BY <1>1, <1>2
  <2> QED BY <2>2, <2>3 DEF Lost
<1>7. Follow(l, x, part) = y
  BY <1>6 DEF Follow, y
<1>8. y \notin Above(Root)
  <2> SUFFICES ASSUME NEW n \in 1 .. Len(Root), SubSeq(Root, 1, n) = y PROVE FALSE
    BY DEF Above
  <2>1. n - 1 = Len(x) /\ x = SubSeq(Root, 1, n - 1)
    BY <1>3, <1>4
  <2>2. n - 1 \in 1 .. Len(Root)
    BY <1>1, <1>3, <2>1
  <2> QED BY <2>1, <2>2 DEF Lost, Above
<1>9. ASSUME NEW p \in LinkPlaces, NEW n \in 1 .. Len(p) - 1, SubSeq(p, 1, n) = y PROVE FALSE
  <2>1. p \in Place /\ Len(p) \in Nat /\ n \in Nat
    BY <1>3 DEF Place
  <2>2. n \in 1 .. Len(p)
    BY <2>1
  <2>3. n - 1 = Len(x) /\ x = SubSeq(p, 1, n - 1)
    BY <1>4, <1>9, <2>1, <2>2
  <2>4. n - 1 \in 1 .. Len(p) - 1
    BY <1>1, <2>1, <2>3
  <2> QED BY <2>3, <2>4 DEF Lost
<1>10. ~Inside(y)
  <2> SUFFICES ASSUME Len(Root) <= Len(y), \A k \in 1 .. Len(Root) : y[k] = Root[k] PROVE FALSE
    BY <1>3 DEF Inside, is_descendant_of, Place
  <2>1. CASE Len(Root) <= Len(x)
    <3>1. \A k \in 1 .. Len(Root) : k \in 1 .. Len(x)
      BY <1>1, <1>3, <2>1
    <3>2. \A k \in 1 .. Len(Root) : x[k] = Root[k]
      BY <1>2, <3>1
    <3>3. Inside(x)
      BY <1>3, <2>1, <3>2 DEF Inside, is_descendant_of, Place
    <3> QED BY <3>3 DEF Lost
  <2>2. CASE Len(Root) = Len(y)
    <3>1. y = Root
      BY <1>2, <1>3, <2>2, SameElements DEF Place
    <3>2. Len(y) \in 1 .. Len(Root)
      BY <1>1, <1>2, <2>2
    <3>3. y = SubSeq(Root, 1, Len(y))
      BY <1>5, <3>1
    <3> QED BY <1>8, <3>2, <3>3, Zenon DEF Above
  <2> QED BY <1>1, <1>2, <1>3, <2>1, <2>2
<1>11. y # <<>>
  BY <1>1, <1>2
<1> QED BY <1>7, <1>8, <1>9, <1>10, <1>11 DEF Lost

(* The directories of local_root are found where its name says.            *)
LEMMA RootWalk ==
  ASSUME FileSystem, NEW l \in [LinkPlaces -> Place]
  PROVE  Walk(l, Root)[Len(Root)] = Root
<1> DEFINE w == Walk(l, Root)
<1>1. Root \in Place /\ Root \in Seq(Name) /\ Len(Root) \in Nat /\ Canonical
  BY DEF FileSystem, Place
<1>2. w[0] = <<>> /\ \A k \in 1 .. Len(Root) : w[k] = Follow(l, w[k - 1], Root[k])
  BY <1>1, WalkStep
<1> HIDE DEF w
<1> DEFINE T == {k \in 0 .. Len(Root) : w[k] = SubSeq(Root, 1, k)}
<1>3. 0 \in T
  <2>1. SubSeq(Root, 1, 0) = <<>> /\ 0 \in 0 .. Len(Root)
    BY <1>1
  <2>2. w[0] = SubSeq(Root, 1, 0)
    BY <1>2, <2>1
  <2> QED BY <2>1, <2>2
<1>4. ASSUME NEW k \in 1 .. Len(Root), k - 1 \in T PROVE k \in T
  <2>1. w[k] = Follow(l, SubSeq(Root, 1, k - 1), Root[k])
    BY <1>2, <1>4, Zenon
  <2>2. SubSeq(Root, 1, k) = Append(SubSeq(Root, 1, k - 1), Root[k])
    BY <1>1, OneMore
  <2>3. Root[k] # Up /\ SubSeq(Root, 1, k) \notin LinkPlaces
    BY <1>1 DEF Canonical
  <2>4. w[k] = SubSeq(Root, 1, k)
    BY <2>1, <2>2, <2>3, Zenon DEF Follow
  <2>5. k \in 0 .. Len(Root)
    BY <1>1
  <2> QED BY <2>4, <2>5
<1> HIDE DEF T
<1>5. Len(Root) \in T
  <2>1. \A k \in 0 .. Len(Root) : k \in T
    BY <1>1, <1>3, <1>4, UpTo, Zenon
  <2>2. Len(Root) \in 0 .. Len(Root)
    BY <1>1
  <2> QED BY <2>1, <2>2
<1>6. w[Len(Root)] = SubSeq(Root, 1, Len(Root))
  BY <1>5 DEF T
<1>7. SubSeq(Root, 1, Len(Root)) = Root
  <2>1. Len(Root) \in 0 .. Len(Root)
    BY <1>1
  <2>2. /\ SubSeq(Root, 1, Len(Root)) \in Seq(Name) /\ Len(SubSeq(Root, 1, Len(Root))) = Len(Root)
        /\ \A k \in 1 .. Len(Root) : SubSeq(Root, 1, Len(Root))[k] = Root[k]
    BY <1>1, <2>1, FirstElements
  <2> QED BY <1>1, <2>2, SameElements
<1> QED BY <1>6, <1>7 DEF w

(* The directories on the way to a place are those its walk goes through.  *)
LEMMA PrefixWalk ==
  ASSUME NEW l \in [LinkPlaces -> Place], NEW parts \in Place, NEW n \in 0 .. Len(parts)
  PROVE  Walk(l, SubSeq(parts, 1, n))[Len(SubSeq(parts, 1, n))] = Walk(l, parts)[n]
<1> DEFINE some == SubSeq(parts, 1, n)
           w == Walk(l, parts)
           v == Walk(l, some)
<1>1. parts \in Seq(Name) /\ Len(parts) \in Nat /\ n \in Nat /\ n <= Len(parts)
  BY DEF Place
<1>2. some \in Place /\ Len(some) = n /\ \A k \in 1 .. n : some[k] = parts[k]
  BY <1>1, FirstElements DEF Place
<1> HIDE DEF some
<1>3. w[0] = <<>> /\ \A k \in 1 .. Len(parts) : w[k] = Follow(l, w[k - 1], parts[k])
  BY WalkStep
<1>4. v[0] = <<>> /\ \A k \in 1 .. n : v[k] = Follow(l, v[k - 1], some[k])
  BY <1>2, WalkStep, Zenon
<1> HIDE DEF w, v
<1> DEFINE T == {k \in 0 .. n : v[k] = w[k]}
<1>5. 0 \in T
  BY <1>1, <1>3, <1>4
<1>6. ASSUME NEW k \in 1 .. n, k - 1 \in T PROVE k \in T
  <2>1. k \in 1 .. Len(parts) /\ k \in 0 .. n
    BY <1>1
  <2>2. v[k - 1] = w[k - 1]
    BY <1>6
  <2>3. v[k] = w[k]
    BY <1>2, <1>3, <1>4, <2>1, <2>2
  <2> QED BY <2>1, <2>3
<1> HIDE DEF T
<1>7. n \in T
  <2>1. \A k \in 0 .. n : k \in T
    BY <1>1, <1>5, <1>6, UpTo, Zenon
  <2>2. n \in 0 .. n
    BY <1>1
  <2> QED BY <2>1, <2>2
<1> QED BY <1>2, <1>7 DEF T, some, v, w

(* A walk without ".." that ends below local_root is never lost.           *)
LEMMA NeverLost ==
  ASSUME FileSystem, NEW l \in [LinkPlaces -> Place], NEW parts \in Place,
         \A k \in 1 .. Len(parts) : parts[k] # Up,
         Inside(Walk(l, parts)[Len(parts)]),
         NEW n \in 1 .. Len(parts)
  PROVE  Walk(l, parts)[n] # <<>> /\ ~Lost(Walk(l, parts)[n])
<1> DEFINE w == Walk(l, parts)
<1>1. parts \in Seq(Name) /\ Len(parts) \in Nat /\ n \in Nat /\ n <= Len(parts)
  BY DEF Place
<1>2. /\ w \in [0 .. Len(parts) -> Place]
      /\ \A k \in 1 .. Len(parts) : w[k] = Follow(l, w[k - 1], parts[k])
  BY WalkStep
<1>3. Inside(w[Len(parts)])
  OBVIOUS
<1> HIDE DEF w
<1>4. \A k \in 1 .. Len(parts) : w[k - 1] \in Place /\ parts[k] \in Name
  BY <1>1, <1>2
<1>5. w[n] # <<>>
  <2>1. w[n] = Follow(l, w[n - 1], parts[n]) /\ parts[n] # Up
    BY <1>2
  <2>2. Append(w[n - 1], parts[n]) # <<>>
    <3>1. w[n - 1] \in Seq(Name) /\ parts[n] \in Name
      BY <1>4 DEF Place
    <3>2. Len(w[n - 1]) \in Nat /\ Len(Append(w[n - 1], parts[n])) = Len(w[n - 1]) + 1
      BY <3>1, AppendElements
    <3>3. Len(Append(w[n - 1], parts[n])) # Len(<<>>)
      BY <3>2
    <3> QED BY <3>3, Zenon
  <2> QED BY <2>1, <2>2 DEF Follow, NoLink
<1>6. ASSUME Lost(w[n]) PROVE FALSE
  <2> DEFINE T == {k \in 0 .. Len(parts) : k >= n => Lost(w[k])}
  <2>1. 0 \in T
    BY <1>1
  <2>2. ASSUME NEW k \in 1 .. Len(parts), k - 1 \in T PROVE k \in T
    <3>1. k \in 0 .. Len(parts) /\ (k >= n => k = n \/ k - 1 >= n)
      BY <1>1
    <3>2. ASSUME Lost(w[k - 1]) PROVE Lost(w[k])
      <4>1. Lost(Follow(l, w[k - 1], parts[k]))
        BY <1>4, <3>2, LostStays
      <4> QED BY <1>2, <4>1, Zenon
    <3> QED BY <1>6, <2>2, <3>1, <3>2
  <2> HIDE DEF T
  <2>3. \A k \in 0 .. Len(parts) : k \in T
    BY <1>1, <2>1, <2>2, UpTo, Zenon
  <2>4. Len(parts) \in 0 .. Len(parts) /\ Len(parts) >= n
    BY <1>1
  <2>5. Lost(w[Len(parts)])
    BY <2>3, <2>4 DEF T
  <2> QED BY <1>3, <2>5 DEF Lost
<1> QED BY <1>5, <1>6 DEF w

(* A concatenation.                                                        *)
LEMMA ConcatElements ==
  ASSUME NEW S, NEW s \in Seq(S), NEW t \in Seq(S)
  PROVE  /\ s \o t \in Seq(S) /\ Len(s \o t) = Len(s) + Len(t)
         /\ \A k \in 1 .. Len(s) + Len(t) :
              (s \o t)[k] = IF k <= Len(s) THEN s[k] ELSE t[k - Len(s)]
OBVIOUS

(* The file that resolve_local_path tests, once the text of its path has   *)
(* passed.                                                                 *)
LEMMA CandidateNames ==
  ASSUME FileSystem, path.parts \in Place, ~Lexical
  PROVE  /\ candidate \in Place /\ candidate # <<>> /\ Parent \in Place
         /\ \A k \in 1 .. Len(Parent) : Parent[k] # Up
         /\ filename(candidate) \in Name \ {Up, "."}
<1> DEFINE nm == Normal
           c == Root \o nm
<1>1. Normal \in Dotless /\ Normal # <<>> /\ \A k \in DOMAIN Normal : Normal[k] # Up
  BY NormalDotless DEF Normal, Lexical
<1>2. /\ nm \in Seq(Name) /\ Len(nm) \in Nat /\ Len(nm) # 0
      /\ \A k \in 1 .. Len(nm) : nm[k] \in Name /\ nm[k] # Up /\ nm[k] # "."
  BY <1>1 DEF Dotless, Place
<1>3. candidate = c
  BY DEF candidate
<1> HIDE DEF nm
<1>4. /\ Root \in Seq(Name) /\ Len(Root) \in Nat
      /\ \A k \in 1 .. Len(Root) : Root[k] # Up
  BY DEF FileSystem, Canonical, Place
<1>5. /\ c \in Seq(Name) /\ Len(c) = Len(Root) + Len(nm)
      /\ \A k \in 1 .. Len(Root) + Len(nm) : c[k] = IF k <= Len(Root) THEN Root[k] ELSE nm[k - Len(Root)]
  BY <1>2, <1>4, ConcatElements
<1> HIDE DEF c
<1>6. ASSUME NEW k \in 1 .. Len(c) PROVE c[k] # Up
  <2>1. CASE k <= Len(Root)
    <3>1. k \in 1 .. Len(Root)
      BY <1>2, <1>4, <1>5, <2>1
    <3> QED BY <1>4, <1>5, <2>1, <3>1
  <2>2. CASE ~(k <= Len(Root))
    <3>1. k - Len(Root) \in 1 .. Len(nm)
      BY <1>2, <1>4, <1>5, <2>2
    <3> QED BY <1>2, <1>5, <2>2, <3>1, Zenon
  <2> QED BY <2>1, <2>2
<1>7. c[Len(c)] = nm[Len(nm)] /\ Len(nm) \in 1 .. Len(nm) /\ Len(c) # 0
  <2>1. /\ Len(c) \in 1 .. Len(Root) + Len(nm) /\ ~(Len(c) <= Len(Root)) /\ Len(c) # 0
        /\ Len(c) - Len(Root) = Len(nm) /\ Len(nm) \in 1 .. Len(nm)
    BY <1>2, <1>4, <1>5
  <2>2. c[Len(c)] = nm[Len(c) - Len(Root)]
    BY <1>5, <2>1
  <2> QED BY <2>1, <2>2
<1>8. filename(c) \in Name \ {Up, "."}
  BY <1>2, <1>7 DEF filename
<1>9. c # <<>>
  BY <1>7
<1>10. /\ parent_path(c) \in Seq(Name) /\ Len(c) \in Nat /\ Len(parent_path(c)) = Len(c) - 1
       /\ \A k \in 1 .. Len(c) - 1 : parent_path(c)[k] = c[k]
  BY <1>5, <1>9, FrontElements, Zenon
<1>11. ASSUME NEW k \in 1 .. Len(parent_path(c)) PROVE parent_path(c)[k] # Up
  <2>1. k \in 1 .. Len(c) /\ k \in 1 .. Len(c) - 1
    BY <1>10
  <2> QED BY <1>6, <1>10, <2>1
<1>12. Parent = parent_path(c)
  BY <1>3 DEF Parent
<1>13. candidate \in Place /\ candidate # <<>>
  BY <1>3, <1>5, <1>9, Zenon DEF Place
<1> QED BY <1>3, <1>8, <1>10, <1>11, <1>12, <1>13 DEF Place

(* What create_directories makes for a path that is confined is below      *)
(* local_root: everything else on the way exists.                          *)
LEMMA MissingInside ==
  ASSUME FileSystem, LinksAreReal, path.parts \in Place, links \in [LinkPlaces -> Place],
         Existing \subseteq dirs, ~Lexical, Confined, NEW d \in Missing
  PROVE  Inside(d)
<1> DEFINE parts == Parent
           w == Walk(links, parts)
<1>1. parts \in Place /\ \A k \in 1 .. Len(parts) : parts[k] # Up
  BY CandidateNames
<1>2. Inside(w[Len(parts)])
  <2>1. is_descendant_of(w[Len(parts)], Walk(links, Root)[Len(Root)])
    BY DEF Confined, weakly_canonical
  <2>2. Walk(links, Root)[Len(Root)] = Root
    BY RootWalk
  <2> QED BY <2>1, <2>2 DEF Inside
<1>3. PICK n \in 1 .. Len(parts) : d = weakly_canonical(SubSeq(parts, 1, n)) /\ d \notin dirs
  BY Zenon DEF Missing, OnTheWay, Above
<1> HIDE DEF parts
<1>4. n \in 0 .. Len(parts)
  BY <1>1, <1>3 DEF Place
<1>5. d = w[n]
  BY <1>1, <1>3, <1>4, PrefixWalk DEF weakly_canonical
<1>6. d # <<>> /\ ~Lost(d)
  BY <1>1, <1>2, <1>5, NeverLost
<1>7. ASSUME d \in Above(Root) PROVE FALSE
  BY <1>3, <1>7 DEF Existing
<1>8. ASSUME NEW p \in LinkPlaces, NEW m \in 1 .. Len(p) - 1, SubSeq(p, 1, m) = d PROVE Inside(d)
  BY <1>3, <1>8, Zenon DEF LinksAreReal
<1> QED BY <1>6, <1>7, <1>8 DEF Lost

-----------------------------------------------------------------------------
(* The way of a path, from its arrival to its transfer.                    *)

PathTypes == path.parts \in Place /\ links \in [LinkPlaces -> Place]

(* While no link was changed, a task is still as enqueue has found it.     *)
StillConfined ==
  resolving \in {"queued", "created", "checked", "transfer"} /\ ~relinked => ~Lexical /\ Confined

(* What process_task has tested, while no link was changed since then.     *)
Tested ==
  /\ resolving \in {"created", "checked", "transfer"} => ~Lexical
  /\ resolving \in {"checked", "transfer"} /\ steady => Confined

(* The steps that concern a path.                                          *)
LEMMA PathCases ==
  ASSUME [PathNext]_pathVars
  PROVE  \/ UNCHANGED pathVars
         \/ \E d \in {"Download", "Upload"} : arrive(d)
         \/ enqueue \/ create_fails \/ create_parent \/ check_parent \/ process_refused
         \/ open_file \/ requeue_task \/ relink
BY Zenon DEF PathNext, process_task

(* Only a new task and relink change a path or a link.                     *)
LEMMA Kept ==
  ASSUME enqueue \/ create_fails \/ create_parent \/ check_parent \/ process_refused
           \/ open_file \/ requeue_task
  PROVE  UNCHANGED <<path, direction, links, relinked>>
BY Zenon DEF enqueue, create_fails, create_parent, check_parent, process_refused, open_file, requeue_task

(* Paths and places stay sequences of names.                               *)
LEMMA StepPathTypes ==
  ASSUME FileSystem, PathTypes, [PathNext]_pathVars
  PROVE  PathTypes'
<1> USE DEF PathTypes
<1>1. CASE UNCHANGED <<path, links>>
  BY <1>1
<1>2. CASE UNCHANGED pathVars
  BY <1>1, <1>2 DEF pathVars
<1>3. ASSUME NEW d, arrive(d) PROVE PathTypes'
  <2>1. path' \in Paths /\ links' \in [LinkPlaces -> LinkTargets]
    BY <1>3 DEF arrive
  <2> QED BY <2>1 DEF FileSystem
<1>4. CASE relink
  <2>1. PICK p \in LinkPlaces, t \in LinkTargets : links' = [links EXCEPT ![p] = t]
    BY <1>4, Zenon DEF relink
  <2>2. path' = path /\ t \in Place
    BY <1>4 DEF relink, FileSystem
  <2> QED BY <2>1, <2>2
<1> QED BY <1>1, <1>2, <1>3, <1>4, Kept, PathCases

(* Directories are only added.                                             *)
LEMMA StepExisting ==
  ASSUME Existing \subseteq dirs, [PathNext]_pathVars
  PROVE  Existing \subseteq dirs'
<1>1. CASE UNCHANGED dirs
  BY <1>1
<1>2. CASE UNCHANGED pathVars
  BY <1>1, <1>2 DEF pathVars
<1>3. ASSUME NEW d, arrive(d) PROVE Existing \subseteq dirs'
  BY <1>3 DEF arrive
<1>4. CASE enqueue \/ check_parent \/ process_refused \/ open_file \/ requeue_task \/ relink
  BY <1>1, <1>4, Zenon DEF enqueue, check_parent, process_refused, open_file, requeue_task, relink
<1>5. CASE create_fails \/ create_parent
  <2>1. \E some : dirs' = dirs \cup some
    BY <1>5, Zenon DEF create_fails, create_parent
  <2> QED BY <2>1
<1> QED BY <1>2, <1>3, <1>4, <1>5, PathCases

(* The verdict on a path only depends on the path and the links.           *)
LEMMA SameVerdict ==
  ASSUME path' = path, links' = links
  PROVE  Lexical' = Lexical /\ Confined' = Confined /\ LastIsLink' = LastIsLink
BY Zenon DEF Lexical, Normal, Confined, weakly_canonical, Parent, candidate, LastIsLink

(* enqueue lets nothing else through, and only relink changes a link.      *)
LEMMA StepStillConfined ==
  ASSUME StillConfined, [PathNext]_pathVars
  PROVE  StillConfined'
<1>1. CASE UNCHANGED pathVars
  BY <1>1, SameVerdict, Zenon DEF pathVars, StillConfined
<1>2. ASSUME NEW d, arrive(d) PROVE StillConfined'
  BY <1>2 DEF arrive, StillConfined
<1>3. CASE enqueue
  <2>1. path' = path /\ links' = links /\ (resolving' = "queued" => ~Lexical /\ Confined)
        /\ resolving' \in {"queued", "refused"}
    BY <1>3 DEF enqueue, ResolvedOnEnqueue
  <2> QED BY <2>1, SameVerdict DEF StillConfined
<1>4. CASE create_fails \/ process_refused
  BY <1>4 DEF create_fails, process_refused, StillConfined
<1>5. CASE create_parent \/ check_parent \/ open_file \/ requeue_task
  <2>1. path' = path /\ links' = links /\ relinked' = relinked
    BY <1>5, Kept, Zenon
  <2>2. resolving \in {"queued", "created", "checked", "transfer"}
    BY <1>5, Zenon DEF create_parent, check_parent, open_file, requeue_task
  <2> QED BY <2>1, <2>2, SameVerdict, Zenon DEF StillConfined
<1>6. CASE relink
  BY <1>6 DEF relink, StillConfined
<1> QED BY <1>1, <1>2, <1>3, <1>4, <1>5, <1>6, PathCases

(* What was tested stays so until a link is changed.                       *)
LEMMA StepTested ==
  ASSUME Tested, [PathNext]_pathVars
  PROVE  Tested'
<1>1. CASE UNCHANGED pathVars
  <2>1. path' = path /\ links' = links /\ resolving' = resolving /\ steady' = steady
    BY <1>1, Zenon DEF pathVars
  <2> QED BY <2>1, SameVerdict DEF Tested
<1>2. CASE resolving' \notin {"created", "checked", "transfer"}
  BY <1>2, Zenon DEF Tested
<1>3. ASSUME NEW d, arrive(d) PROVE Tested'
  BY <1>2, <1>3 DEF arrive
<1>4. CASE enqueue \/ create_fails \/ process_refused \/ requeue_task
  BY <1>2, <1>4 DEF enqueue, create_fails, process_refused, requeue_task
<1>5. CASE create_parent
  <2>1. path' = path /\ links' = links /\ ~Lexical /\ resolving' = "created"
    BY <1>5, Zenon DEF create_parent
  <2> QED BY <2>1, SameVerdict DEF Tested
<1>6. CASE check_parent
  <2>1. path' = path /\ links' = links /\ resolving = "created" /\ Confined
    BY <1>6, Zenon DEF check_parent
  <2> QED BY <2>1, SameVerdict DEF Tested
<1>7. CASE open_file
  <2>1. path' = path /\ links' = links /\ resolving \in {"checked", "transfer"} /\ steady' = steady
    BY <1>7, Zenon DEF open_file
  <2> QED BY <2>1, SameVerdict DEF Tested
<1>8. CASE relink
  <2>1. path' = path /\ resolving' = resolving /\ ~steady'
    BY <1>8, Zenon DEF relink
  <2>2. Lexical' = Lexical
    BY <2>1, Zenon DEF Lexical, Normal
  <2> QED BY <2>1, <2>2, Zenon DEF Tested
<1> QED BY <1>1, <1>3, <1>4, <1>5, <1>6, <1>7, <1>8, PathCases

(* A last name that is no link is found in the directory above it.         *)
LEMMA PlainLastName ==
  ASSUME FileSystem, PathTypes, ~Lexical, ~LastIsLink
  PROVE  weakly_canonical(candidate) = Append(weakly_canonical(Parent), filename(candidate))
<1> DEFINE c == candidate
           w == Walk(links, c)
<1>1. c \in Place /\ c # <<>> /\ filename(c) # Up
  BY CandidateNames DEF PathTypes
<1> HIDE DEF c
<1>2. Len(c) \in 1 .. Len(c) /\ Len(c) - 1 \in 0 .. Len(c)
  BY <1>1 DEF Place
<1>3. w[Len(c)] = Follow(links, w[Len(c) - 1], c[Len(c)])
  BY <1>1, <1>2, WalkStep DEF PathTypes
<1>4. w[Len(c) - 1] = weakly_canonical(parent_path(c))
  BY <1>1, <1>2, PrefixWalk, Zenon DEF PathTypes, weakly_canonical, parent_path
<1>5. Parent = parent_path(c)
  BY DEF Parent, c
<1>6. LET p == Append(weakly_canonical(Parent), filename(c)) IN ~(p \in LinkPlaces /\ links[p] # NoLink)
  BY Zenon DEF LastIsLink, c
<1>7. w[Len(c)] = Append(weakly_canonical(Parent), filename(c))
  BY <1>1, <1>3, <1>4, <1>5, <1>6, Zenon DEF Follow, filename
<1> QED BY <1>7 DEF c, weakly_canonical

(* The name is used in the directory that was tested.                      *)
LEMMA StepTransfer ==
  ASSUME FileSystem, PathTypes, Tested, TransferInside, [PathNext]_pathVars
  PROVE  TransferInside'
<1>1. CASE UNCHANGED pathVars
  BY <1>1, SameVerdict, Zenon DEF pathVars, TransferInside
<1>2. CASE resolving' # "transfer" \/ ~steady'
  BY <1>2, Zenon DEF TransferInside
<1>3. ASSUME NEW d, arrive(d) PROVE TransferInside'
  BY <1>2, <1>3 DEF arrive
<1>4. CASE enqueue \/ create_fails \/ create_parent \/ check_parent
  BY <1>2, <1>4 DEF enqueue, create_fails, create_parent, check_parent
<1>5. CASE process_refused \/ requeue_task \/ relink
  BY <1>2, <1>5 DEF process_refused, requeue_task, relink
<1>6. CASE open_file
  <2> SUFFICES ASSUME steady', direction' = "Upload" => ~LastIsLink'
               PROVE  is_descendant_of(parent_path(target'), Root) /\ filename(target') \notin {Up, "."}
    BY Zenon DEF TransferInside
  <2> DEFINE place == Walk(links, Parent)[Len(Parent)]
             last == filename(candidate)
  <2>1. /\ UNCHANGED <<path, direction, links>> /\ steady /\ target' = Reached
        /\ resolving \in {"checked", "transfer"}
    BY <1>6, Zenon DEF open_file
  <2>2. ~Lexical /\ Confined /\ (direction = "Upload" => ~LastIsLink)
    BY <2>1, SameVerdict DEF Tested
  <2>3. is_descendant_of(place, Walk(links, Root)[Len(Root)])
    BY <2>2, Zenon DEF Confined, weakly_canonical
  <2>4. Parent \in Place /\ last \in Name \ {Up, "."}
    BY <2>2, CandidateNames DEF PathTypes
  <2>5. place \in Place
    <3>1. Walk(links, Parent) \in [0 .. Len(Parent) -> Place]
      BY <2>4, WalkStep DEF PathTypes
    <3>2. Len(Parent) \in 0 .. Len(Parent)
      BY <2>4 DEF Place
    <3> QED BY <3>1, <3>2, Zenon
  <2>6. Walk(links, Root)[Len(Root)] = Root
    BY RootWalk DEF PathTypes
  <2>7. Reached = Append(weakly_canonical(Parent), filename(candidate))
    BY <2>2, PlainLastName, Zenon DEF Reached
  <2>8. target' = Append(place, last)
    BY <2>1, <2>7, Zenon DEF weakly_canonical
  <2> HIDE DEF place, last
  <2>9. parent_path(target') = place /\ filename(target') = last
    BY <2>4, <2>5, <2>8, BeforeLast
  <2> QED BY <2>3, <2>4, <2>6, <2>9, Zenon
<1> QED BY <1>1, <1>3, <1>4, <1>5, <1>6, PathCases

(* Directories are created only for a path that is confined.               *)
LEMMA StepMade ==
  ASSUME FileSystem, LinksAreReal, PathTypes, Existing \subseteq dirs, StillConfined, MadeInside,
         [PathNext]_pathVars
  PROVE  MadeInside'
<1>1. ASSUME relinked' = relinked, \A d \in made' : d \in made \/ relinked \/ Inside(d) PROVE MadeInside'
  BY <1>1 DEF MadeInside, Inside
<1>2. CASE UNCHANGED <<relinked, made>>
  BY <1>1, <1>2
<1>3. CASE UNCHANGED pathVars
  BY <1>2, <1>3 DEF pathVars
<1>4. ASSUME NEW d, arrive(d) PROVE MadeInside'
  BY <1>2, <1>4 DEF arrive
<1>5. CASE enqueue \/ check_parent \/ process_refused \/ open_file \/ requeue_task
  BY <1>2, <1>5, Zenon DEF enqueue, check_parent, process_refused, open_file, requeue_task
<1>6. CASE relink
  BY <1>6 DEF relink, MadeInside
<1>7. CASE create_fails \/ create_parent
  <2>1. /\ relinked' = relinked /\ resolving = "queued"
        /\ \E some \in SUBSET Missing : made' = made \cup some
    BY <1>7, Zenon DEF create_fails, create_parent
  <2>2. ASSUME ~relinked, NEW d \in Missing PROVE Inside(d)
    BY <2>1, <2>2, MissingInside DEF StillConfined, PathTypes
  <2> QED BY <1>1, <2>1, <2>2
<1> QED BY <1>3, <1>4, <1>5, <1>6, <1>7, PathCases

PathInv == PathTypes /\ Tested /\ TransferInside

(* For every tree of links and every path, and however links change until  *)
(* the check in process_task: while they stay as they are after it, the    *)
(* file that is used is in a directory that is really below local_root (an *)
(* upload's, unless its last name is a link).                              *)
THEOREM TransferCorrect ==
  ASSUME FileSystem
  PROVE  PathSpec => []TransferInside
<1>1. PathInit => PathInv
  <2> SUFFICES ASSUME PathInit PROVE PathInv
    OBVIOUS
  <2>1. path.parts \in Place /\ links \in [LinkPlaces -> Place]
    BY DEF PathInit, NoLink, Place
  <2>2. Tested /\ TransferInside
    BY DEF PathInit, Tested, TransferInside
  <2> QED BY <2>1, <2>2 DEF PathInv, PathTypes
<1>2. PathInv /\ [PathNext]_pathVars => PathInv'
  BY StepPathTypes, StepTested, StepTransfer DEF PathInv
<1>3. PathInv => TransferInside
  BY DEF PathInv
<1> QED BY <1>1, <1>2, <1>3, PTL DEF PathSpec

MadeInv == PathTypes /\ Existing \subseteq dirs /\ StillConfined /\ MadeInside

(* While links stay as they are, create_directories is never called for a  *)
(* place outside local_root that does not exist: the test in enqueue comes *)
(* before the first directory.                                             *)
THEOREM MadeCorrect ==
  ASSUME FileSystem, LinksAreReal
  PROVE  PathSpec => []MadeInside
<1>1. PathInit => MadeInv
  <2> SUFFICES ASSUME PathInit PROVE MadeInv
    OBVIOUS
  <2>1. path.parts \in Place /\ links \in [LinkPlaces -> Place]
    BY DEF PathInit, NoLink, Place
  <2>2. Existing \subseteq dirs
    BY DEF PathInit, Existing
  <2>3. StillConfined /\ MadeInside
    BY DEF PathInit, StillConfined, MadeInside
  <2> QED BY <2>1, <2>2, <2>3 DEF MadeInv, PathTypes
<1>2. MadeInv /\ [PathNext]_pathVars => MadeInv'
  <2> SUFFICES ASSUME MadeInv, [PathNext]_pathVars PROVE MadeInv'
    OBVIOUS
  <2>1. PathTypes' /\ StillConfined' /\ MadeInside' /\ Existing \subseteq dirs'
    BY StepPathTypes, StepStillConfined, StepMade, StepExisting DEF MadeInv
  <2>2. Existing' = Existing
    BY DEF Existing, Above
  <2> QED BY <2>1, <2>2 DEF MadeInv
<1>3. MadeInv => MadeInside
  BY DEF MadeInv
<1> QED BY <1>1, <1>2, <1>3, PTL DEF PathSpec
=============================================================================
