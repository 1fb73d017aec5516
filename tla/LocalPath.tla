----------------------------- MODULE LocalPath -----------------------------
(***************************************************************************)
(* Where a task may read or write: SyncManager::resolve_local_path and     *)
(* is_large_task (net/sync_manager.cpp), and the calls of Network that use *)
(* the path.  A path is resolved twice: by enqueue, which creates nothing, *)
(* and by process_task, much later and with the directories above the file *)
(* created.  What it returns is a name: Network opens it later, and what it*)
(* leads to is decided then.                                               *)
(*                                                                         *)
(* A place is the sequence of names from the top of the file system.  Any  *)
(* name may be a link to another place.  The code checks the directory the *)
(* file is in, not the last name.                                          *)
(* A definition with a suffix is a wrong variant of the one after it.      *)
(***************************************************************************)
EXTENDS Naturals, Sequences

CONSTANTS
  Paths,        \* local paths: [absolute |-> BOOLEAN, parts |-> names]
  Root,         \* the place of local_root
  LinkPlaces,   \* places that may be links
  LinkTargets,  \* where they may lead
  RegularFiles  \* the ones of those that are not directories

VARIABLES
  path,      \* the task's local_path
  direction, \* "Download" or "Upload"
  links,     \* LinkPlaces -> a place, or NoLink
  dirs,      \* places that are directories
  made,      \* history: directories the program created
  relinked,  \* history: links changed since enqueue
  steady,    \* history: no link changed since the check in process_task
  resolving, \* "idle", "enqueue", "queued", "created", "checked", "transfer", "refused"
  target     \* the file that Network used last, as the file system found it

pathVars == <<path, direction, links, dirs, made, relinked, steady, resolving, target>>

-----------------------------------------------------------------------------
Up == ".."
NoLink == <<>>
parent_path(s) == SubSeq(s, 1, Len(s) - 1)
filename(s) == s[Len(s)]

(* path::lexically_normal: "." goes, a name and the ".." after it go; a    *)
(* path that ends in one of them keeps an empty last name.                 *)
WithPart(done, part) ==
  IF part = "." THEN done
  ELSE IF part = Up /\ done # <<>> /\ filename(done) # Up THEN parent_path(done)
  ELSE Append(done, part)
Done(parts) ==
  LET done[k \in 0 .. Len(parts)] == IF k = 0 THEN <<>> ELSE WithPart(done[k - 1], parts[k]) IN done
lexically_normal(parts) ==
  LET done == Done(parts)[Len(parts)] IN
  IF done # <<>> /\ filename(done) # Up /\ filename(parts) \in {".", Up} THEN Append(done, "") ELSE done

(* weakly_canonical: links are followed, what does not exist is kept.  A   *)
(* walk over the names of a path, and where it ends.                       *)
Follow(l, place, part) ==
  LET step == IF part = Up THEN (IF place = <<>> THEN <<>> ELSE parent_path(place)) ELSE Append(place, part)
  IN  IF step \in LinkPlaces /\ l[step] # NoLink THEN l[step] ELSE step
Walk(l, parts) ==
  LET at[k \in 0 .. Len(parts)] == IF k = 0 THEN <<>> ELSE Follow(l, at[k - 1], parts[k]) IN at
weakly_canonical(parts) == Walk(links, parts)[Len(parts)]

Normal    == lexically_normal(path.parts)
candidate == Root \o Normal
Parent    == parent_path(candidate)

is_descendant_of(child, parent) ==
  Len(parent) <= Len(child) /\ \A k \in DOMAIN parent : child[k] = parent[k]

(* Refused for its text alone; an empty path normalises to an empty one    *)
(* and "." to no name.                                                     *)
Lexical == path.absolute \/ Normal = <<>> \/ \E k \in DOMAIN Normal : Normal[k] = Up

Confined_unchecked == TRUE
Confined == is_descendant_of(weakly_canonical(Parent), weakly_canonical(Root))

(* The directories on the way to a place, and the place.                   *)
Above(place) == {SubSeq(place, 1, n) : n \in 1 .. Len(place)}

(* create_directories(candidate.parent_path()), for a download: each       *)
(* missing one, where the names lead; it ends at a name that is a file.    *)
OnTheWay == IF direction = "Upload" THEN {} ELSE {weakly_canonical(p) : p \in Above(Parent)}
Missing  == {p \in OnTheWay \ dirs : Above(p) \cap RegularFiles = {}}

-----------------------------------------------------------------------------
(* A task comes, for any path and over any arrangement of links.           *)
arrive(d) ==
  /\ resolving = "idle" /\ resolving' = "enqueue"
  /\ path' \in Paths /\ direction' = d
  /\ links' \in [LinkPlaces -> LinkTargets]
  /\ UNCHANGED <<dirs, made, relinked, steady, target>>

(* enqueue: is_large_task resolves the path for either direction.  Any     *)
(* call into the file system may fail, the one for an upload's size too;   *)
(* then the task is refused.                                               *)
ResolvedOnEnqueue_not == ~Lexical
ResolvedOnEnqueue == ~Lexical /\ Confined
enqueue ==
  /\ resolving = "enqueue"
  /\ \/ ResolvedOnEnqueue /\ resolving' = "queued"
     \/ resolving' = "refused"
  /\ UNCHANGED <<path, direction, links, dirs, made, relinked, steady, target>>

(* process_task: resolve_local_path(path, direction == Download).  First   *)
(* the directories are made; the text may be refused, or create_directories*)
(* fails when some or all of them are made.                                *)
create_fails ==
  /\ resolving = "queued" /\ resolving' = "refused"
  /\ \E some \in IF Lexical THEN {{}} ELSE SUBSET Missing :
       dirs' = dirs \cup some /\ made' = made \cup some
  /\ UNCHANGED <<path, direction, links, relinked, steady, target>>

create_parent ==
  /\ resolving = "queued" /\ resolving' = "created"
  /\ ~Lexical /\ OnTheWay \cap RegularFiles = {}
  /\ dirs' = dirs \cup Missing /\ made' = made \cup Missing
  /\ UNCHANGED <<path, direction, links, relinked, steady, target>>

(* Then the directory is looked at again.                                  *)
check_parent ==
  /\ resolving = "created" /\ resolving' = "checked"
  /\ Confined
  /\ steady' = TRUE
  /\ UNCHANGED <<path, direction, links, dirs, made, relinked, target>>

(* It is not confined, weakly_canonical fails, or Network cannot open it.  *)
process_refused ==
  /\ resolving \in {"created", "checked"} /\ resolving' = "refused"
  /\ UNCHANGED <<path, direction, links, dirs, made, relinked, steady, target>>

(* Network uses the name, more than once in one transfer.  An upload       *)
(* follows a link at the last name, and wants a regular file there.  A     *)
(* download removes and replaces what has the last name (or that name with *)
(* .part), be it a link or not.                                            *)
Reached == IF direction = "Upload" THEN weakly_canonical(candidate)
        ELSE Append(weakly_canonical(Parent), filename(candidate))
open_file ==
  /\ resolving \in {"checked", "transfer"} /\ resolving' = "transfer"
  /\ direction = "Upload" => filename(candidate) # "" /\ Reached \notin dirs
  /\ target' = Reached
  /\ UNCHANGED <<path, direction, links, dirs, made, relinked, steady>>

(* The transfer failed and is tried again from the beginning.              *)
requeue_task ==
  /\ resolving = "transfer" /\ resolving' = "queued"
  /\ UNCHANGED <<path, direction, links, dirs, made, relinked, steady, target>>

process_task ==
  create_fails \/ create_parent \/ check_parent \/ process_refused \/ open_file \/ requeue_task

(* Somebody replaces a directory or file by a link, or the reverse.        *)
relink ==
  /\ resolving \in {"queued", "created", "checked", "transfer"}
  /\ relinked' = TRUE /\ steady' = FALSE
  /\ \E p \in LinkPlaces, t \in LinkTargets : links' = [links EXCEPT ![p] = t]
  /\ UNCHANGED <<path, direction, dirs, made, resolving, target>>

PathInit ==
  /\ path = [absolute |-> FALSE, parts |-> <<>>] /\ direction = "Download"
  /\ links = [p \in LinkPlaces |-> NoLink]
  /\ dirs = Above(Root) \cup (LinkTargets \ (RegularFiles \cup {NoLink}))
  /\ made = {} /\ relinked = FALSE /\ steady = FALSE /\ resolving = "idle" /\ target = <<>>

PathNext ==
  (\E d \in {"Download", "Upload"} : arrive(d)) \/ enqueue \/ process_task \/ relink
PathSpec == PathInit /\ [][PathNext]_pathVars

-----------------------------------------------------------------------------
(* Properties.                                                             *)

(* The last name, in the directory where the path leads, is a link.        *)
LastIsLink ==
  LET p == Append(weakly_canonical(Parent), filename(candidate)) IN
  p \in LinkPlaces /\ links[p] # NoLink

(* When no link changes between the check in process_task and the use of   *)
(* the name, the file is really in a directory below local_root, whatever  *)
(* changed while the task was queued and while directories were made; for  *)
(* an upload, unless its last name is a link.  net/SYNC_PROTOCOL.md:17     *)
(* promises more (every link out of local-root is refused): the code does  *)
(* not look at the last name, nor again after the check.                   *)
TransferInside ==
  resolving = "transfer" /\ steady /\ (direction = "Upload" => ~LastIsLink) =>
    is_descendant_of(parent_path(target), Root) /\ filename(target) \notin {Up, "."}

(* While links stay as they are, no directory is ever created outside      *)
(* local_root, also for a task that is refused in the end: the check in    *)
(* enqueue comes before the creation in process_task.                      *)
MadeInside == ~relinked => \A d \in made : is_descendant_of(d, Root)
=============================================================================
