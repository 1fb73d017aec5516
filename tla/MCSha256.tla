------------------------------ MODULE MCSha256 ------------------------------
(* Sha256 for TLC: all lengths around the end of a block, read in pieces   *)
(* that do not fit the blocks.  While the file is read Transform only      *)
(* collects the blocks; nothing but the compression looks at state_, so it *)
(* can follow when all of them are there, for the lengths with a known     *)
(* digest.                                                                 *)
EXTENDS Sha256Padding, Sha256Messages

VARIABLES position, words, work, round, chain     \* of the compression
compressionVars == <<position, words, work, round, chain>>

Boundaries == 0 .. 3 \cup 53 .. 66 \cup 117 .. 130

T == INSTANCE Sha256Transform WITH message <- digest, state <- chain

FileInit == Init /\ T!Init
FileNext ==
  \/ Next /\ UNCHANGED compressionVars
  \/ /\ pc = "returned" /\ digest # Nullopt /\ length \in KnownLengths
     /\ T!Next
     /\ UNCHANGED vars
FileSpec == FileInit /\ [][FileNext]_<<vars, compressionVars>>

(* When all blocks of the file are compressed, state_ is its SHA-256 as    *)
(* the standard defines it: for an empty, a short, an exactly filled and   *)
(* several blocks.                                                         *)
DigestIsSha256 ==
  digest # Nullopt /\ length \in KnownLengths /\ ~T!BlockLeft
    => chain = [k \in 1 .. 8 |-> T!Word(Known(length)[k])]
=============================================================================
