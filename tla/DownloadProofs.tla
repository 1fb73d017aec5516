--------------------------- MODULE DownloadProofs ---------------------------
(***************************************************************************)
(* Proofs about http_download_file (Download) for any number of workers,   *)
(* calls, attempts and chunks, when no two downloads have the same local   *)
(* path.                                                                   *)
(***************************************************************************)
EXTENDS Download, TLAPS

(* Every worker has a local path of its own, no path is the name of        *)
(* another one's .part file.                                               *)
Separate ==
  /\ \A v, w \in Workers : Target[v] = Target[w] => v = w
  /\ \A p, q \in Targets : p # Part(q)
  /\ Existing \subseteq Targets
  /\ None \notin Inodes

(* The inodes a worker's calls make, and with them the one that was there. *)
Own(w)  == {<<w, c, k>> : c \in 1 .. MaxCalls, k \in 0 .. Retries}
Mine(w) == Own(w) \cup {OldInode(Target[w])}

Active == {"removePart", "open", "receive", "size", "hash", "removeTarget", "rename", "cleanup"}

Shapes ==
  /\ DOMAIN dir = Names /\ DOMAIN data = Inodes /\ gap \subseteq Targets
  /\ pc \in [Workers -> Active \cup {"idle", "failed", "succeeded"}]
  /\ fd \in [Workers -> Inodes \cup {None}]
  /\ calls \in [Workers -> 0 .. MaxCalls] /\ attempt \in [Workers -> 0 .. Retries]

(* The two names of a worker: whose inodes they mean, that they mean       *)
(* different ones, and that a running call has not made the final file.    *)
NamesApart(w) ==
  /\ dir[PartOf(w)] \in Own(w) \cup {None}
  /\ dir[Target[w]] \in Mine(w) \cup {None}
  /\ dir[PartOf(w)] # None => dir[PartOf(w)] # dir[Target[w]] /\ dir[PartOf(w)][2] <= calls[w]
  /\ dir[Target[w]] # None => dir[Target[w]][2] <= calls[w]
  /\ dir[Target[w]] # None /\ pc[w] \in Active => dir[Target[w]][2] < calls[w]
  /\ pc[w] \in Active => calls[w] > 0

(* The stream and the .part file, stage by stage.                          *)
Stage(w) ==
  /\ pc[w] = "receive" => fd[w] = dir[PartOf(w)]
  /\ pc[w] # "receive" => fd[w] = None
  /\ pc[w] \in {"open", "failed", "succeeded"} => dir[PartOf(w)] = None
  /\ pc[w] \in {"receive", "hash", "removeTarget", "rename"} => dir[PartOf(w)] # None
  /\ pc[w] = "hash" /\ w \in CheckSize => Len(data[dir[PartOf(w)]]) = BodyLen
  /\ pc[w] \in {"removeTarget", "rename"} => Valid(w, data[dir[PartOf(w)]])

(* The final file.                                                         *)
Final(w) ==
  /\ dir[Target[w]] \in {None, OldInode(Target[w])} \/ Valid(w, data[dir[Target[w]]])
  /\ Target[w] \in Existing => dir[Target[w]] # None \/ Target[w] \in gap \/ pc[w] = "rename"

IInv == Shapes /\ \A w \in Workers : NamesApart(w) /\ Stage(w) /\ Final(w)

-----------------------------------------------------------------------------
(* Workers do not meet in the file system.                                 *)
LEMMA Disjoint ==
  ASSUME Separate, NEW v \in Workers, NEW w \in Workers, v # w
  PROVE  /\ Target[v] # Target[w] /\ PartOf(v) # PartOf(w)
         /\ Target[v] # PartOf(w) /\ PartOf(v) # Target[w]
         /\ Mine(v) \cap Mine(w) = {}
<1>1. Target[v] # Target[w]
  BY DEF Separate
<1>2. PartOf(v) # PartOf(w)
  BY <1>1 DEF PartOf, Part
<1>3. Target[v] # PartOf(w) /\ PartOf(v) # Target[w]
  BY DEF Separate, Targets, PartOf
<1>4. Mine(v) \cap Mine(w) = {}
  BY <1>1 DEF Mine, Own, OldInode
<1> QED
  BY <1>1, <1>2, <1>3, <1>4

(* The names and inodes of one worker.                                     *)
LEMMA Private ==
  ASSUME Separate, NEW w \in Workers
  PROVE  /\ Target[w] \in Names /\ PartOf(w) \in Names /\ Target[w] # PartOf(w)
         /\ Target[w] \in Targets
         /\ Mine(w) \subseteq Inodes /\ None \notin Mine(w)
         /\ OldInode(Target[w]) \notin Own(w)
         /\ \A i \in Mine(w) : i[2] \in Nat
<1>1. Target[w] \in Targets
  BY DEF Targets
<1>2. Target[w] \in Names /\ PartOf(w) \in Names /\ Target[w] # PartOf(w)
  BY <1>1 DEF Names, PartOf, Separate
<1>3. Mine(w) \subseteq Inodes
  BY <1>1 DEF Mine, Own, Inodes
<1>4. OldInode(Target[w]) \notin Own(w)
  BY DEF Own, OldInode
<1>5. \A i \in Mine(w) : i[2] \in Nat
  BY DEF Mine, Own, OldInode
<1> QED
  BY <1>1, <1>2, <1>3, <1>4, <1>5 DEF Separate

(* What a step of w leaves alone of v's part of the world.                 *)
Untouched(v) ==
  /\ pc'[v] = pc[v] /\ fd'[v] = fd[v] /\ calls'[v] = calls[v]
  /\ dir'[Target[v]] = dir[Target[v]] /\ dir'[PartOf(v)] = dir[PartOf(v)]
  /\ \A i \in Mine(v) : data'[i] = data[i]
  /\ gap \subseteq gap'

(* What is untouched stays right.                                          *)
LEMMA Frame ==
  ASSUME Separate, NEW v \in Workers, NamesApart(v), Stage(v), Final(v), Untouched(v)
  PROVE  NamesApart(v)' /\ Stage(v)' /\ Final(v)'
<1>1. dir[PartOf(v)] # None => data'[dir[PartOf(v)]] = data[dir[PartOf(v)]]
  BY DEF Untouched, NamesApart, Mine
<1>2. dir[Target[v]] # None => data'[dir[Target[v]]] = data[dir[Target[v]]]
  BY DEF Untouched, NamesApart
<1>3. NamesApart(v)'
  BY DEF Untouched, NamesApart, PartOf
<1>4. Stage(v)'
  BY <1>1 DEF Untouched, Stage, Valid, PartOf
<1>5. Final(v)'
  BY <1>2 DEF Untouched, Final, Valid, OldInode
<1> QED
  BY <1>3, <1>4, <1>5

(* Removing a name changes at most the content behind that name.           *)
LEMMA Removal ==
  ASSUME NEW n, DOMAIN data = Inodes, data' = DataWithout(n)
  PROVE  DOMAIN data' = Inodes /\ \A i \in Inodes : i # dir[n] => data'[i] = data[i]
BY DEF DataWithout

(* The steps of w in terms of w's own variables.  It is enough to look at  *)
(* w: names and contents it may change are its own.                        *)
LEMMA Locality ==
  ASSUME Separate, Shapes, Shapes', \A v \in Workers : NamesApart(v) /\ Stage(v) /\ Final(v),
         NEW w \in Workers,
         \A v \in Workers \ {w} : pc'[v] = pc[v] /\ fd'[v] = fd[v] /\ calls'[v] = calls[v],
         \A n \in Names \ {Target[w], PartOf(w)} : dir'[n] = dir[n],
         \A i \in Inodes \ Mine(w) : data'[i] = data[i],
         gap \subseteq gap',
         NamesApart(w)', Stage(w)', Final(w)'
  PROVE  IInv'
<1>1. ASSUME NEW v \in Workers, v # w
      PROVE  NamesApart(v)' /\ Stage(v)' /\ Final(v)'
  <2>1. dir'[Target[v]] = dir[Target[v]] /\ dir'[PartOf(v)] = dir[PartOf(v)]
    BY <1>1, Disjoint, Private
  <2>2. \A i \in Mine(v) : data'[i] = data[i]
    BY <1>1, Disjoint, Private
  <2>3. Untouched(v)
    BY <1>1, <2>1, <2>2 DEF Untouched
  <2> QED
    BY <2>3, Frame
<1> QED
  BY <1>1 DEF IInv

(* Every step of a call keeps the invariant.                               *)
LEMMA CallStep ==
  ASSUME Separate, IInv, NEW w \in Workers, step(w)
  PROVE  IInv'
<1> USE DownloadAssumption DEF IInv
<1>1. Shapes /\ NamesApart(w) /\ Stage(w) /\ Final(w)
  OBVIOUS
<1>2. /\ Target[w] \in Names /\ PartOf(w) \in Names /\ Target[w] # PartOf(w)
      /\ Mine(w) \subseteq Inodes /\ None \notin Mine(w) /\ Target[w] \in Targets
      /\ None \notin Inodes /\ Own(w) \subseteq Mine(w)
      /\ \A i \in Mine(w) : i[2] \in Nat
  BY Private DEF Separate, Mine
<1>3. CASE http_download_file(w)
  <2>1. Shapes'
    BY <1>1, <1>3 DEF http_download_file, Goto, AttemptFails, Shapes, Active
  <2>2. NamesApart(w)'
    BY <1>1, <1>2, <1>3 DEF http_download_file, Goto, AttemptFails, Shapes, Active, NamesApart, PartOf
  <2>3. Stage(w)'
    BY <1>1, <1>2, <1>3 DEF http_download_file, Goto, AttemptFails, Shapes, Stage, Valid, PartOf
  <2>4. Final(w)'
    BY <1>1, <1>2, <1>3 DEF http_download_file, Goto, AttemptFails, Shapes, Final, Valid
  <2>5. UNCHANGED <<dir, data>> /\ gap \subseteq gap'
    BY <1>3 DEF http_download_file
  <2>6. \A v \in Workers \ {w} : pc'[v] = pc[v] /\ fd'[v] = fd[v] /\ calls'[v] = calls[v]
    BY <1>1, <1>3 DEF http_download_file, Goto, AttemptFails, Shapes
  <2> QED
    BY <1>1, <2>1, <2>2, <2>3, <2>4, <2>5, <2>6, Locality
<1>4. CASE open_fails(w)
  <2>1. Shapes'
    BY <1>1, <1>4 DEF open_fails, Goto, AttemptFails, Shapes, Active
  <2>2. NamesApart(w)'
    BY <1>1, <1>2, <1>4 DEF open_fails, Goto, AttemptFails, Shapes, Active, NamesApart, PartOf
  <2>3. Stage(w)'
    BY <1>1, <1>2, <1>4 DEF open_fails, Goto, AttemptFails, Shapes, Stage, Valid, PartOf
  <2>4. Final(w)'
    BY <1>1, <1>2, <1>4 DEF open_fails, Goto, AttemptFails, Shapes, Final, Valid
  <2>5. UNCHANGED <<dir, data>> /\ gap \subseteq gap'
    BY <1>4 DEF open_fails
  <2>6. \A v \in Workers \ {w} : pc'[v] = pc[v] /\ fd'[v] = fd[v] /\ calls'[v] = calls[v]
    BY <1>1, <1>4 DEF open_fails, Goto, AttemptFails, Shapes
  <2> QED
    BY <1>1, <2>1, <2>2, <2>3, <2>4, <2>5, <2>6, Locality
<1>5. CASE perform_fails(w)
  <2>1. Shapes'
    BY <1>1, <1>5 DEF perform_fails, Goto, AttemptFails, Shapes, Active
  <2>2. NamesApart(w)'
    BY <1>1, <1>2, <1>5 DEF perform_fails, Goto, AttemptFails, Shapes, Active, NamesApart, PartOf
  <2>3. Stage(w)'
    BY <1>1, <1>2, <1>5 DEF perform_fails, Goto, AttemptFails, Shapes, Stage, Valid, PartOf
  <2>4. Final(w)'
    BY <1>1, <1>2, <1>5 DEF perform_fails, Goto, AttemptFails, Shapes, Final, Valid
  <2>5. UNCHANGED <<dir, data>> /\ gap \subseteq gap'
    BY <1>5 DEF perform_fails
  <2>6. \A v \in Workers \ {w} : pc'[v] = pc[v] /\ fd'[v] = fd[v] /\ calls'[v] = calls[v]
    BY <1>1, <1>5 DEF perform_fails, Goto, AttemptFails, Shapes
  <2> QED
    BY <1>1, <2>1, <2>2, <2>3, <2>4, <2>5, <2>6, Locality
<1>6. CASE check_size(w)
  <2>1. Shapes'
    BY <1>1, <1>6 DEF check_size, Goto, AttemptFails, Shapes, Active
  <2>2. NamesApart(w)'
    BY <1>1, <1>2, <1>6 DEF check_size, Goto, AttemptFails, Shapes, Active, NamesApart, PartOf
  <2>3. Stage(w)'
    BY <1>1, <1>2, <1>6 DEF check_size, Goto, AttemptFails, Shapes, Stage, Valid, PartOf, SizeAccepted
  <2>4. Final(w)'
    BY <1>1, <1>2, <1>6 DEF check_size, Goto, AttemptFails, Shapes, Final, Valid
  <2>5. UNCHANGED <<dir, data>> /\ gap \subseteq gap'
    BY <1>6 DEF check_size
  <2>6. \A v \in Workers \ {w} : pc'[v] = pc[v] /\ fd'[v] = fd[v] /\ calls'[v] = calls[v]
    BY <1>1, <1>6 DEF check_size, Goto, AttemptFails, Shapes
  <2> QED
    BY <1>1, <2>1, <2>2, <2>3, <2>4, <2>5, <2>6, Locality
<1>7. CASE check_hash(w)
  <2>1. Shapes'
    BY <1>1, <1>7 DEF check_hash, Goto, AttemptFails, Shapes, Active
  <2>2. NamesApart(w)'
    BY <1>1, <1>2, <1>7 DEF check_hash, Goto, AttemptFails, Shapes, Active, NamesApart, PartOf
  <2>3. Stage(w)'
    BY <1>1, <1>2, <1>7 DEF check_hash, Goto, AttemptFails, Shapes, Stage, Valid, PartOf, HashAccepted
  <2>4. Final(w)'
    BY <1>1, <1>2, <1>7 DEF check_hash, Goto, AttemptFails, Shapes, Final, Valid
  <2>5. UNCHANGED <<dir, data>> /\ gap \subseteq gap'
    BY <1>7 DEF check_hash
  <2>6. \A v \in Workers \ {w} : pc'[v] = pc[v] /\ fd'[v] = fd[v] /\ calls'[v] = calls[v]
    BY <1>1, <1>7 DEF check_hash, Goto, AttemptFails, Shapes
  <2> QED
    BY <1>1, <2>1, <2>2, <2>3, <2>4, <2>5, <2>6, Locality
<1>8. CASE rename_fails(w)
  <2>1. Shapes'
    BY <1>1, <1>2, <1>8 DEF rename_fails, AttemptFails, Shapes, Active
  <2>2. NamesApart(w)'
    BY <1>1, <1>2, <1>8 DEF rename_fails, Goto, AttemptFails, Shapes, Active, NamesApart, PartOf
  <2>3. Stage(w)'
    BY <1>1, <1>2, <1>8 DEF rename_fails, Goto, AttemptFails, Shapes, Stage, Valid, PartOf
  <2>4. Final(w)'
    BY <1>1, <1>2, <1>8 DEF rename_fails, Goto, AttemptFails, Shapes, Final, Valid
  <2>5. UNCHANGED <<dir, data>> /\ gap \subseteq gap'
    BY <1>8 DEF rename_fails
  <2>6. \A v \in Workers \ {w} : pc'[v] = pc[v] /\ fd'[v] = fd[v] /\ calls'[v] = calls[v]
    BY <1>1, <1>8 DEF rename_fails, Goto, AttemptFails, Shapes
  <2> QED
    BY <1>1, <2>1, <2>2, <2>3, <2>4, <2>5, <2>6, Locality
<1>9. CASE remove_part(w)
  <2>1. Shapes'
    BY <1>1, <1>9, Removal DEF remove_part, Goto, Shapes, Active, FirstRemoved
  <2>2. \A n \in Names \ {Target[w], PartOf(w)} : dir'[n] = dir[n]
    BY <1>1, <1>9 DEF remove_part, Shapes, FirstRemoved
  <2>3. \A i \in Inodes : i # dir[PartOf(w)] => data'[i] = data[i]
    BY <1>1, <1>9, Removal, Zenon DEF remove_part, FirstRemoved, Shapes
  <2>4. NamesApart(w)'
    BY <1>1, <1>2, <1>9, Zenon DEF remove_part, Goto, Shapes, Active, NamesApart, Stage, PartOf, FirstRemoved
  <2>5. Stage(w)'
    BY <1>1, <1>2, <1>9, <2>3, Zenon DEF remove_part, Goto, Shapes, Stage, Valid, PartOf, NamesApart, FirstRemoved
  <2>6. Final(w)'
    BY <1>1, <1>2, <1>9, <2>3, Zenon DEF remove_part, Goto, Shapes, Active, Final, Valid, NamesApart, Stage, OldInode, FirstRemoved
  <2>7. \A v \in Workers \ {w} : pc'[v] = pc[v] /\ fd'[v] = fd[v] /\ calls'[v] = calls[v]
    BY <1>1, <1>9, Zenon DEF remove_part, Goto, Shapes
  <2>8. gap \subseteq gap' /\ \A i \in Inodes \ Mine(w) : data'[i] = data[i]
    BY <1>1, <1>2, <1>9, <2>3 DEF remove_part, NamesApart, Stage, Mine, FirstRemoved
  <2> QED
    BY <1>1, <2>1, <2>2, <2>4, <2>5, <2>6, <2>7, <2>8, Locality
<1>10. CASE cleanup(w)
  <2>1. Shapes'
    BY <1>1, <1>10, Removal DEF cleanup, Goto, Shapes, Active, PartRemoved
  <2>2. \A n \in Names \ {Target[w], PartOf(w)} : dir'[n] = dir[n]
    BY <1>1, <1>10 DEF cleanup, Shapes, PartRemoved
  <2>3. \A i \in Inodes : i # dir[PartOf(w)] => data'[i] = data[i]
    BY <1>1, <1>10, Removal, Zenon DEF cleanup, PartRemoved, Shapes
  <2>4. NamesApart(w)'
    BY <1>1, <1>2, <1>10, Zenon DEF cleanup, Goto, Shapes, Active, NamesApart, Stage, PartOf, PartRemoved
  <2>5. Stage(w)'
    BY <1>1, <1>2, <1>10, <2>3, Zenon DEF cleanup, Goto, Shapes, Stage, Valid, PartOf, NamesApart, PartRemoved
  <2>6. Final(w)'
    BY <1>1, <1>2, <1>10, <2>3, Zenon DEF cleanup, Goto, Shapes, Active, Final, Valid, NamesApart, Stage, OldInode, PartRemoved
  <2>7. \A v \in Workers \ {w} : pc'[v] = pc[v] /\ fd'[v] = fd[v] /\ calls'[v] = calls[v]
    BY <1>1, <1>10, Zenon DEF cleanup, Goto, Shapes
  <2>8. gap \subseteq gap' /\ \A i \in Inodes \ Mine(w) : data'[i] = data[i]
    BY <1>1, <1>2, <1>10, <2>3 DEF cleanup, NamesApart, Stage, Mine, PartRemoved
  <2> QED
    BY <1>1, <2>1, <2>2, <2>4, <2>5, <2>6, <2>7, <2>8, Locality
<1>11. CASE remove_target(w)
  <2>1. Shapes'
    BY <1>1, <1>11, Removal, Zenon DEF remove_target, Goto, Shapes, Active
  <2>2. \A n \in Names \ {Target[w], PartOf(w)} : dir'[n] = dir[n]
    BY <1>1, <1>11 DEF remove_target, Shapes
  <2>3. \A i \in Inodes : i # dir[Target[w]] => data'[i] = data[i]
    BY <1>1, <1>11, Removal, Zenon DEF remove_target, Shapes
  <2>4. NamesApart(w)'
    BY <1>1, <1>2, <1>11, Zenon DEF remove_target, Goto, Shapes, Active, NamesApart, Stage, PartOf
  <2>5. Stage(w)'
    BY <1>1, <1>2, <1>11, <2>3, Zenon DEF remove_target, Goto, Shapes, Stage, Valid, PartOf, NamesApart
  <2>6. Final(w)'
    BY <1>1, <1>2, <1>11, <2>3, Zenon DEF remove_target, Goto, Shapes, Active, Final, Valid, NamesApart, Stage, OldInode
  <2>7. \A v \in Workers \ {w} : pc'[v] = pc[v] /\ fd'[v] = fd[v] /\ calls'[v] = calls[v]
    BY <1>1, <1>11, Zenon DEF remove_target, Goto, Shapes
  <2>8. gap \subseteq gap' /\ \A i \in Inodes \ Mine(w) : data'[i] = data[i]
    BY <1>1, <1>2, <1>11, <2>3 DEF remove_target, NamesApart, Stage, Mine
  <2> QED
    BY <1>1, <2>1, <2>2, <2>4, <2>5, <2>6, <2>7, <2>8, Locality
<1>12. CASE rename_succeeds(w)
  <2>1. Shapes'
    BY <1>1, <1>12 DEF rename_succeeds, Goto, Shapes, Active
  <2>2. \A n \in Names \ {Target[w], PartOf(w)} : dir'[n] = dir[n]
    BY <1>1, <1>12 DEF rename_succeeds, Shapes
  <2>3. data' = data
    BY <1>12 DEF rename_succeeds
  <2>4. NamesApart(w)'
    BY <1>1, <1>2, <1>12 DEF rename_succeeds, Goto, Shapes, Active, NamesApart, Stage, PartOf
  <2>5. Stage(w)'
    BY <1>1, <1>2, <1>12, <2>3, Zenon DEF rename_succeeds, Goto, Shapes, Stage, Valid, PartOf, NamesApart
  <2>6. Final(w)'
    BY <1>1, <1>2, <1>12, <2>3 DEF rename_succeeds, Goto, Shapes, Active, Final, Valid, NamesApart, Stage, OldInode
  <2>7. \A v \in Workers \ {w} : pc'[v] = pc[v] /\ fd'[v] = fd[v] /\ calls'[v] = calls[v]
    BY <1>1, <1>12 DEF rename_succeeds, Goto, Shapes
  <2>8. gap \subseteq gap' /\ \A i \in Inodes \ Mine(w) : data'[i] = data[i]
    BY <1>1, <1>2, <1>12, <2>3, Zenon DEF rename_succeeds, NamesApart, Stage, Mine
  <2> QED
    BY <1>1, <2>1, <2>2, <2>4, <2>5, <2>6, <2>7, <2>8, Locality
<1>13. CASE open_part(w)
  <2> DEFINE i == NewInode(w)
  <2>0. dir[PartOf(w)] = None /\ i \in Own(w) /\ i[2] = calls[w]
    BY <1>1, <1>13 DEF open_part, Stage, NamesApart, Shapes, Active, NewInode, Own
  <2> HIDE DEF i
  <2>1. dir' = [dir EXCEPT ![PartOf(w)] = i] /\ data' = [data EXCEPT ![i] = <<>>]
        /\ fd' = [fd EXCEPT ![w] = i] /\ pc' = [pc EXCEPT ![w] = "receive"]
        /\ pc[w] = "open" /\ UNCHANGED <<calls, attempt, gap>>
    BY <1>13, <2>0 DEF open_part, Goto, i
  <2>2. Shapes'
    BY <1>1, <1>2, <2>0, <2>1, Zenon DEF Shapes, Active
  <2>3. NamesApart(w)'
    BY <1>1, <1>2, <2>0, <2>1 DEF Shapes, Active, NamesApart, PartOf
  <2>4. Stage(w)'
    BY <1>1, <1>2, <2>0, <2>1 DEF Shapes, Stage, PartOf
  <2>5. dir[Target[w]] # i
    BY <1>1, <1>2, <2>0, <2>1 DEF NamesApart, Active
  <2>6. Final(w)'
    BY <1>1, <1>2, <2>0, <2>1, <2>5, Zenon DEF Shapes, Final, Valid, NamesApart
  <2>7. \A n \in Names \ {Target[w], PartOf(w)} : dir'[n] = dir[n]
    BY <1>1, <2>1 DEF Shapes
  <2>8. \A j \in Inodes \ Mine(w) : data'[j] = data[j]
    BY <1>1, <1>2, <2>0, <2>1 DEF Shapes
  <2>9. \A v \in Workers \ {w} : pc'[v] = pc[v] /\ fd'[v] = fd[v] /\ calls'[v] = calls[v]
    BY <1>1, <2>1 DEF Shapes
  <2> QED
    BY <1>1, <2>1, <2>2, <2>3, <2>4, <2>6, <2>7, <2>8, <2>9, Locality, Zenon
<1>14. CASE FileWriteCallback(w)
  <2>1. Shapes'
    BY <1>1, <1>14 DEF FileWriteCallback, Shapes
  <2>2. \A n \in Names \ {Target[w], PartOf(w)} : dir'[n] = dir[n]
    BY <1>1, <1>14, Zenon DEF FileWriteCallback, Shapes
  <2>3. \A i \in Inodes : i # dir[PartOf(w)] => data'[i] = data[i]
    BY <1>1, <1>14, Zenon DEF FileWriteCallback, Stage, Shapes
  <2>4. NamesApart(w)'
    BY <1>1, <1>2, <1>14, ZenonT(30) DEF FileWriteCallback, Goto, Shapes, Active, NamesApart, Stage, PartOf
  <2>5. Stage(w)'
    BY <1>1, <1>2, <1>14, <2>3, Zenon DEF FileWriteCallback, Goto, Shapes, Stage, Valid, PartOf, NamesApart
  <2>6. Final(w)'
    BY <1>1, <1>2, <1>14, <2>3, Zenon DEF FileWriteCallback, Goto, Shapes, Active, Final, Valid, NamesApart, Stage, OldInode
  <2>7. \A v \in Workers \ {w} : pc'[v] = pc[v] /\ fd'[v] = fd[v] /\ calls'[v] = calls[v]
    BY <1>1, <1>14, ZenonT(30) DEF FileWriteCallback, Goto, Shapes
  <2>8. gap \subseteq gap' /\ \A i \in Inodes \ Mine(w) : data'[i] = data[i]
    BY <1>1, <1>2, <1>14, <2>3, Zenon DEF FileWriteCallback, NamesApart, Stage, Mine
  <2> QED
    BY <1>1, <2>1, <2>2, <2>4, <2>5, <2>6, <2>7, <2>8, Locality
<1>15. CASE perform_succeeds(w)
  <2>1. Shapes'
    BY <1>1, <1>15, Zenon DEF perform_succeeds, Goto, Shapes, Active, AfterClose
  <2>2. \A n \in Names \ {Target[w], PartOf(w)} : dir'[n] = dir[n]
    BY <1>1, <1>15, Zenon DEF perform_succeeds, Shapes, AfterClose
  <2>3. \A i \in Inodes : i # dir[PartOf(w)] => data'[i] = data[i]
    BY <1>1, <1>15, Zenon DEF perform_succeeds, Stage, Shapes
  <2>4. NamesApart(w)'
    BY <1>1, <1>2, <1>15, ZenonT(30) DEF perform_succeeds, Goto, Shapes, Active, NamesApart, Stage, PartOf, AfterClose
  <2>5. Stage(w)'
    BY <1>1, <1>2, <1>15, <2>3, ZenonT(30) DEF perform_succeeds, Goto, Shapes, Stage, Valid, PartOf, NamesApart, AfterClose
  <2>6. Final(w)'
    BY <1>1, <1>2, <1>15, <2>3, Zenon DEF perform_succeeds, Goto, Shapes, Active, Final, Valid, NamesApart, Stage, OldInode, AfterClose
  <2>7. \A v \in Workers \ {w} : pc'[v] = pc[v] /\ fd'[v] = fd[v] /\ calls'[v] = calls[v]
    BY <1>1, <1>15, ZenonT(30) DEF perform_succeeds, Goto, Shapes
  <2>8. gap \subseteq gap' /\ \A i \in Inodes \ Mine(w) : data'[i] = data[i]
    BY <1>1, <1>2, <1>15, <2>3, Zenon DEF perform_succeeds, NamesApart, Stage, Mine, AfterClose
  <2> QED
    BY <1>1, <2>1, <2>2, <2>4, <2>5, <2>6, <2>7, <2>8, Locality
<1> QED
  BY <1>3, <1>4, <1>5, <1>6, <1>7, <1>8, <1>9, <1>10, <1>11, <1>12, <1>13, <1>14, <1>15 DEF step

(* So does the death of the process: the streams are gone, what has a name *)
(* stays.                                                                  *)
LEMMA CrashStep ==
  ASSUME Separate, IInv, crash
  PROVE  IInv'
<1> USE DEF IInv
<1>1. Shapes'
  BY DEF crash, Shapes, Targets
<1>2. ASSUME NEW w \in Workers PROVE NamesApart(w)' /\ Stage(w)' /\ Final(w)'
  <2>1. NamesApart(w) /\ Stage(w) /\ Final(w) /\ pc'[w] = "idle" /\ fd'[w] = None
    BY DEF crash
  <2>2. pc[w] = "rename" => Target[w] \in gap'
    BY Zenon DEF crash
  <2>3. NamesApart(w)'
    BY <2>1 DEF crash, NamesApart, Active, PartOf
  <2>4. Stage(w)'
    BY <2>1, Zenon DEF Stage
  <2>5. Final(w)'
    BY <2>1, <2>2 DEF crash, Final, Valid
  <2> QED
    BY <2>3, <2>4, <2>5
<1> QED
  BY <1>1, <1>2

(* It holds before the first call, with the old files in place.            *)
LEMMA Start ==
  ASSUME Separate, Init
  PROVE  IInv
<1> USE DownloadAssumption
<1>1. Shapes
  BY DEF Init, Shapes, Active
<1>2. ASSUME NEW w \in Workers PROVE NamesApart(w) /\ Stage(w) /\ Final(w)
  <2>1. /\ Target[w] \in Names /\ PartOf(w) \in Names /\ PartOf(w) \notin Targets
        /\ OldInode(Target[w]) \in Mine(w) /\ None \notin Mine(w)
    BY Private DEF Separate, PartOf, Targets, Mine
  <2>2. dir[PartOf(w)] = None
    BY <2>1 DEF Init, Separate
  <2>3. dir[Target[w]] = IF Target[w] \in Existing THEN OldInode(Target[w]) ELSE None
    BY <2>1 DEF Init
  <2>4. pc[w] = "idle" /\ fd[w] = None /\ calls[w] = 0
    BY DEF Init
  <2>5. NamesApart(w)
    BY <2>1, <2>2, <2>3, <2>4 DEF NamesApart, Active, OldInode
  <2>6. Stage(w)
    BY <2>2, <2>4 DEF Stage
  <2>7. Final(w)
    BY <2>1, <2>3 DEF Final
  <2> QED
    BY <2>5, <2>6, <2>7
<1> QED
  BY <1>1, <1>2 DEF IInv

(* So it holds always.                                                     *)
LEMMA Invariance ==
  ASSUME Separate
  PROVE  Spec => []IInv
<1>1. Init => IInv
  BY Start
<1>2. IInv /\ [Next]_vars => IInv'
  <2> SUFFICES ASSUME IInv, [Next]_vars PROVE IInv'
    OBVIOUS
  <2>1. CASE crash
    BY <2>1, CrashStep
  <2>2. CASE \E w \in Workers : step(w)
    BY <2>2, CallStep, Zenon
  <2>3. CASE UNCHANGED vars
    BY <2>3 DEF vars, IInv, Shapes, NamesApart, Stage, Final, Valid
  <2> QED
    BY <2>1, <2>2, <2>3 DEF Next
<1> QED
  BY <1>1, <1>2, PTL DEF Spec

(* A final file is the old one or one that passed the checks of its task,  *)
(* however bodies are cut or wrong, renames fail and processes die.        *)
THEOREM PublishedCorrect ==
  ASSUME Separate
  PROVE  Spec => []PublishedIsValid
<1>1. IInv => PublishedIsValid
  BY Zenon DEF IInv, Final, PublishedIsValid, Targets
<1> QED
  BY <1>1, Invariance, PTL

(* Nobody writes to a final file.                                          *)
THEOREM ClosedCorrect ==
  ASSUME Separate
  PROVE  Spec => []PublishedIsClosed
<1>1. IInv => PublishedIsClosed
  <2> SUFFICES ASSUME IInv, NEW w \in Workers, fd[w] # None, NEW v \in Workers
               PROVE  dir[Target[v]] # fd[w]
    BY DEF PublishedIsClosed, Targets
  <2>1. fd[w] = dir[PartOf(w)] /\ fd[w] \in Own(w) /\ fd[w] # dir[Target[w]]
    BY DEF IInv, Stage, NamesApart
  <2>2. dir[Target[v]] \in Mine(v) \cup {None}
    BY DEF IInv, NamesApart
  <2>3. CASE v # w
    BY <2>1, <2>2, <2>3, Disjoint DEF Mine
  <2> QED
    BY <2>1, <2>3, Zenon
<1> QED
  BY <1>1, Invariance, PTL

(* A call that has returned left no .part file.                            *)
THEOREM NoPartCorrect ==
  ASSUME Separate
  PROVE  Spec => []NoPartLeft
<1>1. IInv => NoPartLeft
  BY DEF IInv, Stage, NoPartLeft
<1> QED
  BY <1>1, Invariance, PTL

(* An old file is lost only when the rename fails or the process dies      *)
(* between its removal and the rename.                                     *)
THEOREM OldFileCorrect ==
  ASSUME Separate
  PROVE  Spec => []OldFileSafe
<1>1. IInv => OldFileSafe
  <2> SUFFICES ASSUME IInv, NEW p \in Existing, dir[p] = None, p \notin gap
               PROVE  \E w \in Workers : /\ Target[w] = p /\ pc[w] = "rename"
                                          /\ dir[PartOf(w)] # None /\ Valid(w, data[dir[PartOf(w)]])
    BY DEF OldFileSafe
  <2>1. PICK w \in Workers : Target[w] = p
    BY DEF Separate, Targets
  <2>2. pc[w] = "rename"
    BY <2>1 DEF IInv, Final
  <2> QED
    BY <2>1, <2>2 DEF IInv, Stage
<1> QED
  BY <1>1, Invariance, PTL
=============================================================================
