------------------------------ MODULE Download ------------------------------
(***************************************************************************)
(* Network::http_download_file (net/network.cpp), run by several workers   *)
(* over one file system: a body is received into <target>.part, checked    *)
(* for size and SHA-256, and renamed to <target>.                          *)
(*                                                                         *)
(* The file system maps names to inodes and inodes to contents; a worker   *)
(* that has a file open writes to its inode, at its own offset, whatever   *)
(* the name means by then.  Each library call on a name is one step.  A    *)
(* call makes retries_ + 1 attempts (worker_loop gives its Network no      *)
(* retries, other users may); it may be repeated (SyncManager's retry), and*)
(* the process may die between any two steps and be started again.  The    *)
(* model assumes that removing an existing file succeeds.                  *)
(* A definition with a suffix is a wrong variant of the one after it.      *)
(***************************************************************************)
EXTENDS Naturals, Sequences, FiniteSets

CONSTANTS
  Workers,      \* threads that download
  Target,       \* Target[w]: the local path of w's download
  BodyLen,      \* chunks in the body the server should deliver
  MaxLen,       \* bound: chunks the server delivers at most
  MaxCalls,     \* bound: calls per worker
  Retries,      \* retries_
  CheckSize,    \* workers whose task has an expected_size
  CheckHash,    \* workers whose task has an expected_sha256
  Existing,     \* targets that exist before the first call
  None          \* no inode

ASSUME DownloadAssumption ==
  /\ IsFiniteSet(Workers)
  /\ {BodyLen, MaxLen, MaxCalls, Retries} \subseteq Nat
  /\ CheckSize \subseteq Workers /\ CheckHash \subseteq Workers

VARIABLES
  dir,      \* name -> inode, or None
  data,     \* inode -> sequence of chunks
  pc,       \* where each call is
  fd,       \* the inode behind out_file
  pos,      \* out_file's position
  calls,    \* calls started so far
  attempt,  \* the loop's counter
  gap       \* history: targets removed by a call that then did not rename

vars == <<dir, data, pc, fd, pos, calls, attempt, gap>>

-----------------------------------------------------------------------------
Targets == {Target[w] : w \in Workers}
Part(p) == <<p, ".part">>
Names   == Targets \cup {Part(p) : p \in Targets}

Chunks  == Workers \cup {"bad", "hole"}
Body(w) == [k \in 1 .. BodyLen |-> w]

(* An inode is named for the attempt that created it; the files that       *)
(* existed before are call 0 of the path.                                  *)
OldInode(p) == <<p, 0, 0>>
NewInode(w) == <<w, calls[w], attempt[w]>>
Inodes == {OldInode(p) : p \in Targets} \cup (Workers \X (1 .. MaxCalls) \X (0 .. Retries))

(* A chunk written at offset k; a gap left by a truncation reads as zeros. *)
Written(s, k, c) ==
  [i \in 1 .. (IF k > Len(s) THEN k ELSE Len(s)) |->
     IF i = k THEN c ELSE IF i <= Len(s) THEN s[i] ELSE "hole"]

PartOf(w) == Part(Target[w])

(* The contents once name n is gone: a file without a name that nobody has *)
(* open is given back.                                                     *)
DataWithout(n) ==
  IF dir[n] # None /\ \A v \in Workers : fd[v] # dir[n]
  THEN [data EXCEPT ![dir[n]] = <<>>] ELSE data

Goto(w, where) == pc' = [pc EXCEPT ![w] = where] /\ attempt' = attempt

(* An attempt failed: the loop goes on, or the last lines follow.          *)
AttemptFails(w) ==
  /\ pc' = [pc EXCEPT ![w] = IF attempt[w] < Retries THEN "removePart" ELSE "cleanup"]
  /\ attempt' = [attempt EXCEPT ![w] = IF @ < Retries THEN @ + 1 ELSE @]

-----------------------------------------------------------------------------
(* Entering the function: a first call, or a retry of a failed one.        *)
http_download_file(w) ==
  /\ pc[w] \in {"idle", "failed"}
  /\ calls[w] < MaxCalls
  /\ calls' = [calls EXCEPT ![w] = @ + 1]
  /\ attempt' = [attempt EXCEPT ![w] = 0]
  /\ pc' = [pc EXCEPT ![w] = "removePart"]
  /\ UNCHANGED <<dir, data, fd, pos, gap>>

FirstRemoved_target(w) == Target[w]
FirstRemoved(w) == PartOf(w)
remove_part(w) ==
  /\ pc[w] = "removePart"
  /\ dir' = [dir EXCEPT ![FirstRemoved(w)] = None]
  /\ data' = DataWithout(FirstRemoved(w))
  /\ Goto(w, "open")
  /\ UNCHANGED <<fd, pos, calls, gap>>

(* ofstream(partial, trunc): an existing file is truncated and shared.     *)
open_part(w) ==
  LET i == IF dir[PartOf(w)] = None THEN NewInode(w) ELSE dir[PartOf(w)] IN
  /\ pc[w] = "open"
  /\ dir' = [dir EXCEPT ![PartOf(w)] = i]
  /\ data' = [data EXCEPT ![i] = <<>>]
  /\ fd' = [fd EXCEPT ![w] = i]
  /\ pos' = [pos EXCEPT ![w] = 0]
  /\ Goto(w, "receive")
  /\ UNCHANGED <<calls, gap>>

open_fails(w) ==
  /\ pc[w] = "open"
  /\ Goto(w, "failed")
  /\ UNCHANGED <<dir, data, fd, pos, calls, gap>>

(* FileWriteCallback: the right chunk, or a wrong one.                     *)
Offset(w) == pos[w] + 1
FileWriteCallback(w) ==
  /\ pc[w] = "receive"
  /\ pos[w] < MaxLen
  /\ \E c \in {w, "bad"} :
       data' = [data EXCEPT ![fd[w]] = Written(@, Offset(w), c)]
  /\ pos' = [pos EXCEPT ![w] = @ + 1]
  /\ UNCHANGED <<dir, pc, fd, calls, attempt, gap>>

(* out_file.close() writes out what is still buffered.  Its result is not  *)
(* looked at: the end of the body may be missing from the file.            *)
Flushed(w) ==
  LET s == data[fd[w]] IN
  {s} \cup (IF pos[w] > 0 /\ Len(s) = pos[w] THEN {SubSeq(s, 1, Len(s) - 1)} ELSE {})
AfterClose_open(w) == fd[w]
AfterClose(w) == None

(* curl_easy_perform returns CURLE_OK with status 0 or 2xx; how much has   *)
(* arrived is not its concern.                                             *)
perform_succeeds(w) ==
  /\ pc[w] = "receive"
  /\ \E s \in Flushed(w) : data' = [data EXCEPT ![fd[w]] = s]
  /\ fd' = [fd EXCEPT ![w] = AfterClose(w)]
  /\ Goto(w, "size")
  /\ UNCHANGED <<dir, pos, calls, gap>>

perform_fails(w) ==
  /\ pc[w] = "receive"
  /\ fd' = [fd EXCEPT ![w] = None]
  /\ AttemptFails(w)
  /\ UNCHANGED <<dir, data, pos, calls, gap>>

(* file_size(partial), by name: an error, or the size to compare.          *)
SizeAccepted_stat(w) == dir[PartOf(w)] # None
SizeAccepted(w) ==
  /\ dir[PartOf(w)] # None
  /\ w \in CheckSize => Len(data[dir[PartOf(w)]]) = BodyLen
check_size(w) ==
  /\ pc[w] = "size"
  /\ IF SizeAccepted(w) THEN Goto(w, "hash") ELSE AttemptFails(w)
  /\ UNCHANGED <<dir, data, fd, pos, calls, gap>>

(* sha256_file(partial), by name; equal digests mean equal contents.       *)
HashAccepted(w) ==
  w \in CheckHash => /\ dir[PartOf(w)] # None
                     /\ data[dir[PartOf(w)]] = Body(w)
check_hash(w) ==
  /\ pc[w] = "hash"
  /\ IF HashAccepted(w) THEN Goto(w, "removeTarget") ELSE AttemptFails(w)
  /\ UNCHANGED <<dir, data, fd, pos, calls, gap>>

remove_target(w) ==
  /\ pc[w] = "removeTarget"
  /\ dir' = [dir EXCEPT ![Target[w]] = None]
  /\ data' = DataWithout(Target[w])
  /\ Goto(w, "rename")
  /\ UNCHANGED <<fd, pos, calls, gap>>

rename_succeeds(w) ==
  /\ pc[w] = "rename"
  /\ dir[PartOf(w)] # None
  /\ dir' = [dir EXCEPT ![Target[w]] = dir[PartOf(w)], ![PartOf(w)] = None]
  /\ Goto(w, "succeeded")
  /\ UNCHANGED <<data, fd, pos, calls, gap>>

(* No such file, no permission, ...                                        *)
rename_fails(w) ==
  /\ pc[w] = "rename"
  /\ gap' = gap \cup {Target[w]}
  /\ AttemptFails(w)
  /\ UNCHANGED <<dir, data, fd, pos, calls>>

(* The loop ends without success: remove(partial), return false.           *)
PartRemoved_not(w) == UNCHANGED <<dir, data>>
PartRemoved(w) == dir' = [dir EXCEPT ![PartOf(w)] = None] /\ data' = DataWithout(PartOf(w))
cleanup(w) ==
  /\ pc[w] = "cleanup"
  /\ PartRemoved(w)
  /\ Goto(w, "failed")
  /\ UNCHANGED <<fd, pos, calls, gap>>

(* The process dies; the file system stays.                                *)
crash ==
  /\ \E w \in Workers : pc[w] \notin {"idle", "failed", "succeeded"}
  /\ pc' = [w \in Workers |-> "idle"]
  /\ fd' = [w \in Workers |-> None]
  /\ gap' = gap \cup {Target[w] : w \in {v \in Workers : pc[v] = "rename"}}
  /\ UNCHANGED <<dir, data, pos, calls, attempt>>

-----------------------------------------------------------------------------
Init ==
  /\ dir = [n \in Names |-> IF n \in Existing THEN OldInode(n) ELSE None]
  /\ data = [i \in Inodes |-> <<>>]
  /\ pc = [w \in Workers |-> "idle"]
  /\ fd = [w \in Workers |-> None]
  /\ pos = [w \in Workers |-> 0]
  /\ calls = [w \in Workers |-> 0] /\ attempt = [w \in Workers |-> 0]
  /\ gap = {}

step(w) ==
  \/ http_download_file(w) \/ remove_part(w) \/ open_part(w) \/ open_fails(w)
  \/ FileWriteCallback(w) \/ perform_succeeds(w) \/ perform_fails(w)
  \/ check_size(w) \/ check_hash(w) \/ remove_target(w)
  \/ rename_succeeds(w) \/ rename_fails(w) \/ cleanup(w)

Next == crash \/ \E w \in Workers : step(w)

Spec == Init /\ [][Next]_vars

-----------------------------------------------------------------------------
(* Properties.                                                             *)

(* Type invariant.                                                         *)
TypeOK ==
  /\ dir \in [Names -> Inodes \cup {None}]
  /\ \A i \in Inodes : Len(data[i]) <= MaxLen /\ \A k \in DOMAIN data[i] : data[i][k] \in Chunks
  /\ pc \in [Workers -> {"idle", "removePart", "open", "receive", "size", "hash",
                         "removeTarget", "rename", "cleanup", "failed", "succeeded"}]
  /\ fd \in [Workers -> Inodes \cup {None}]
  /\ pos \in [Workers -> 0 .. MaxLen]
  /\ calls \in [Workers -> 0 .. MaxCalls] /\ attempt \in [Workers -> 0 .. Retries]
  /\ gap \subseteq Targets

Valid(w, s) ==
  /\ w \in CheckSize => Len(s) = BodyLen
  /\ w \in CheckHash => s = Body(w)

(* net/SYNC_PROTOCOL.md:17: a download is written to .part, its size and   *)
(* SHA-256 are checked, and only then is it renamed to the final file.  So *)
(* a final file is the old one, or passed the checks of a task for it,     *)
(* also after a crash.                                                     *)
PublishedIsValid ==
  \A p \in Targets :
    dir[p] \in {None, OldInode(p)} \/ \E w \in Workers : Target[w] = p /\ Valid(w, data[dir[p]])

(* Nobody still writes to a published file.                                *)
PublishedIsClosed == \A w \in Workers : fd[w] # None => \A p \in Targets : dir[p] # fd[w]

(* A call that returned leaves no .part behind, on any of its paths.       *)
NoPartLeft ==
  \A w \in Workers : pc[w] \in {"failed", "succeeded"} => dir[PartOf(w)] = None

(* remove(target) before the rename is the only place where the old file   *)
(* can be lost: it is there, or replaced, or about to be, unless a rename  *)
(* failed or the process died right there.                                 *)
OldFileSafe ==
  \A p \in Existing :
    \/ dir[p] # None
    \/ p \in gap
    \/ \E w \in Workers : /\ Target[w] = p /\ pc[w] = "rename"
                          /\ dir[PartOf(w)] # None /\ Valid(w, data[dir[PartOf(w)]])
=============================================================================
