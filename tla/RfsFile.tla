------------------------------ MODULE RfsFile ------------------------------
(***************************************************************************)
(* rfs::File (include/rfs/fs_file.cpp) and rfs::ntfs::NtfsFile over it     *)
(* (include/rfs/ntfs/ntfs.cpp, as built without the Windows API): one file *)
(* object and any sequence of calls on it.                                 *)
(*                                                                         *)
(* std::fstream is modelled by its mode, its one position and its state    *)
(* bits, as libstdc++ implements them; a file by its length.  A path is a  *)
(* last component and whether ":stream" follows it.                        *)
(* A definition with a suffix is a wrong variant of the one after it.      *)
(***************************************************************************)
EXTENDS Integers, FiniteSetsExt

CONSTANTS
  Bases,       \* last components of paths; ".mounted" is the control file
  MaxLen,      \* bound: length of a file
  MaxCount     \* bound: bytes in one read or write

ASSUME RfsAssumption == MaxLen \in Nat /\ MaxCount \in Nat

VARIABLES
  files,       \* path -> length, or Absent
  opened,      \* the path behind stream_, or NoPath when it is not open
  mode,        \* its open mode, a subset of {"in", "out"}
  pos, bits,   \* position and state bits of stream_
  path_, last_error_,
  ret,         \* the latest call and what it returned
  believed     \* history: the position as a caller works it out, or Unknown

streamVars == <<opened, mode, pos, bits>>
fileVars == <<files, streamVars, path_, last_error_, ret, believed>>

-----------------------------------------------------------------------------
Absent  == -1
Unknown == -1
FilePaths   == [base : Bases, stream : BOOLEAN]
NoPath  == [base |-> "", stream |-> FALSE]

is_open == opened # NoPath

Returns(op, value) == ret' = [op |-> op, value |-> value]
True == 1
False == 0

(* update_error_state *)
ErrorOf(b) == IF "bad" \in b THEN 2 ELSE IF "fail" \in b THEN 1 ELSE 0
SetBits(b) == bits' = b /\ last_error_' = ErrorOf(b)

is_target_mounted_file(p) == p.base = ".mounted"

(* The open modes in use: reading needs the file, writing alone or with    *)
(* trunc creates and empties it.                                           *)
Modes == {[io |-> {"in"}, creates |-> FALSE], [io |-> {"in", "out"}, creates |-> FALSE],
          [io |-> {"in", "out"}, creates |-> TRUE], [io |-> {"out"}, creates |-> TRUE]}

-----------------------------------------------------------------------------
(* File::open.  stream_.open fails on an open stream and on a missing file.*)
open_mounted(p) ==
  /\ is_target_mounted_file(p)
  /\ last_error_' = 5
  /\ Returns("open", False)
  /\ UNCHANGED <<files, streamVars, path_, believed>>

AfterFailure_kept == bits
AfterFailure == bits \cup {"fail"}
open_failed(p, m) ==
  /\ ~is_target_mounted_file(p)
  /\ is_open \/ (files[p] = Absent /\ ~m.creates)
  /\ path_' = p
  /\ SetBits(AfterFailure)
  /\ Returns("open", IF is_open THEN True ELSE False)
  /\ UNCHANGED <<files, opened, mode, pos, believed>>

open_succeeds(p, m) ==
  /\ ~is_target_mounted_file(p)
  /\ ~is_open /\ (files[p] # Absent \/ m.creates)
  /\ path_' = p /\ opened' = p /\ mode' = m.io
  /\ files' = IF m.creates THEN [files EXCEPT ![p] = 0] ELSE files
  /\ pos' = 0 /\ believed' = 0
  /\ SetBits({})
  /\ Returns("open", True)

open(p, m) == open_mounted(p) \/ open_failed(p, m) \/ open_succeeds(p, m)

(* NtfsFile: an empty path is refused, a stream's name is appended.        *)
ntfs_open_refused ==
  /\ Returns("open", False)
  /\ UNCHANGED <<files, streamVars, path_, last_error_, believed>>
open_stream(p, m) == open([p EXCEPT !.stream = TRUE], m)

get_file_info ==
  /\ path_ # NoPath
  /\ last_error_' = IF is_target_mounted_file(path_) THEN 2 ELSE 1
  /\ Returns("info", False)
  /\ UNCHANGED <<files, streamVars, path_, believed>>

(* Closing keeps the state bits; it fails when the last flush does.        *)
close ==
  /\ is_open
  /\ opened' = NoPath
  /\ \E failure \in {{}, {"fail"}} : SetBits(bits \cup failure)
  /\ Returns("close", 0)
  /\ UNCHANGED <<files, mode, pos, path_, believed>>

(* read, write, seek and size on a file that is not open.                  *)
not_open ==
  /\ ~is_open
  /\ last_error_' = -1
  /\ Returns("none", -1)
  /\ UNCHANGED <<files, streamVars, path_, believed>>

(* read: gcount bytes; a short one sets eof and fail, and while a bit is   *)
(* set nothing is read.                                                    *)
Available == IF "in" \in mode /\ pos < files[opened] THEN files[opened] - pos ELSE 0
read(n) ==
  LET count == IF bits # {} THEN 0 ELSE Min({n, Available}) IN
  /\ is_open
  /\ pos' = pos + count
  /\ SetBits(IF bits # {} THEN bits \cup {"fail"} ELSE IF count < n THEN {"eof", "fail"} ELSE {})
  /\ Returns("read", count)
  /\ believed' = IF believed = Unknown THEN Unknown ELSE believed + count
  /\ UNCHANGED <<files, opened, mode, path_>>

(* write: clear, then k of the n bytes get there; fewer is a bad stream.   *)
write(n) ==
  /\ is_open
  /\ pos + n <= MaxLen
  /\ \E k \in 0 .. n :
       /\ "out" \notin mode => k = 0
       /\ files' = [files EXCEPT ![opened] = Max({@, IF k = 0 THEN 0 ELSE pos + k})]
       /\ pos' = pos + k
       /\ SetBits(IF k < n THEN {"bad"} ELSE {})
       /\ believed' = IF believed = Unknown \/ k < n THEN Unknown ELSE believed + n
  /\ Returns("write", n)
  /\ UNCHANGED <<opened, mode, path_>>

(* seek: seekg and then seekp, which move the same position; a place       *)
(* before the beginning fails, and seekp is not tried after that.          *)
Origins == {"beg", "cur", "end"}
From(origin, p) == CASE origin = "beg" -> 0 [] origin = "cur" -> p [] origin = "end" -> files[opened]
Reckoned(offset, origin, ok) ==
  IF origin = "cur" THEN (IF ok /\ believed # Unknown THEN believed + 2 * offset ELSE Unknown)
  ELSE IF ok THEN From(origin, 0) + offset ELSE believed
seek(offset, origin) ==
  LET got == From(origin, pos) + offset
      put == From(origin, got) + offset
      ok  == got >= 0 /\ put >= 0
  IN
  /\ is_open
  /\ got <= MaxLen /\ put <= MaxLen
  /\ pos' = IF got < 0 THEN pos ELSE IF put < 0 THEN got ELSE put
  /\ SetBits(IF ok THEN {} ELSE {"fail"})
  /\ Returns("seek", IF ok THEN True ELSE False)
  /\ believed' = Reckoned(offset, origin, ok)
  /\ UNCHANGED <<files, opened, mode, path_>>

(* size: to the end and back.                                              *)
Restored_end == files[opened]
Restored == pos
size ==
  /\ is_open
  /\ pos' = Restored
  /\ SetBits({})
  /\ Returns("size", files[opened])
  /\ UNCHANGED <<files, opened, mode, path_, believed>>

(* read, seek and size first write out what an earlier write left in the   *)
(* buffer.  When that fails nothing else is done, and it is unknown what   *)
(* became of the position; files goes on counting the bytes.               *)
Unflushed == {[op |-> "read", value |-> 0, bits |-> {"eof", "fail"}],
              [op |-> "seek", value |-> False, bits |-> {"fail"}],
              [op |-> "size", value |-> -1, bits |-> {"fail"}]}
flush_fails ==
  /\ is_open /\ "out" \in mode
  /\ \E u \in Unflushed :
       /\ u.op = "read" => bits = {}
       /\ SetBits(u.bits) /\ Returns(u.op, u.value)
  /\ pos' \in 0 .. pos /\ believed' = Unknown
  /\ UNCHANGED <<files, opened, mode, path_>>

-----------------------------------------------------------------------------
FileInit ==
  /\ files \in [FilePaths -> {Absent, 1}]
  /\ opened = NoPath /\ mode = {} /\ pos = 0 /\ bits = {}
  /\ path_ = NoPath /\ last_error_ = 0
  /\ ret = [op |-> "none", value |-> 0]
  /\ believed = 0

FileNext ==
  \/ \E p \in FilePaths, m \in Modes : open(p, m) \/ open_stream(p, m)
  \/ ntfs_open_refused \/ get_file_info \/ close \/ not_open
  \/ \E n \in 0 .. MaxCount : read(n) \/ write(n)
  \/ \E offset \in -1 .. MaxLen, origin \in Origins : seek(offset, origin)
  \/ size \/ flush_fails

FileSpec == FileInit /\ [][FileNext]_fileVars

-----------------------------------------------------------------------------
(* Properties.                                                             *)

(* A caller that keeps count knows where it is.  A read moves by what it   *)
(* returned, a whole write by what was asked; size() comes back to where   *)
(* it started ("Restore position").  A seek from the beginning or the end  *)
(* leads where it says, and a failed one nowhere.  A seek from the current *)
(* position moves by twice its offset, since seekg and seekp both apply it;*)
(* a failed one may have moved, and then, as after an I/O error, only the  *)
(* next seek from the beginning or the end tells.                          *)
PositionKnown == is_open /\ believed # Unknown => believed = pos

(* open on an object that is open returns true although the old file stays *)
(* behind it; a caller that also looks at the error code is not misled: a  *)
(* true with error 0 means that the file it named is the one behind it.    *)
OpenedIsNamed ==
  ret = [op |-> "open", value |-> True] /\ last_error_ = 0 => opened = path_
=============================================================================
