------------------------------ MODULE MtpStore ------------------------------
(***************************************************************************)
(* The responder's object handles (esp_mtp_file_list_* in                  *)
(* esp_mtp_helper.c) and the card they name, under the operations that     *)
(* change either: GetObjectHandles, SendObjectInfo, DeleteObject and the   *)
(* end of a session.                                                       *)
(*                                                                         *)
(* The list lives in blocks of BlockSize entries; handle i is entry i - 1. *)
(* A folder is read from the card once; later listings come from the list, *)
(* so the list must know of every object that the host sends.  An entry    *)
(* keeps its parent's handle and its own name; a path is put together from *)
(* the entries, and names an object of the card only as long as nobody     *)
(* deletes it.                                                             *)
(*                                                                         *)
(* One task carries out the operations, and only it uses list and card, so *)
(* an operation is one step.  An operation that is refused changes         *)
(* nothing, whatever the reason; Refused stands for all of them.           *)
(***************************************************************************)
EXTENDS Naturals, Sequences, SequencesExt, FiniteSets

CONSTANTS
  Names,        \* names of files and folders
  Cards,        \* what may be on the card: [files |-> , folders |-> ]
  MaxDepth,     \* a path with more names does not fit the buffer
  BlockSize,    \* MTP_FILE_LIST_SIZE
  ParentRange,  \* 2^16: an entry's parent is a uint16_t
  MaxEntries,   \* bound on the handles of a session
  AllocFails    \* esp_mtp_file_list_add may run out of memory

ASSUME SizeAssumption ==
  /\ MaxDepth \in Nat \ {0} /\ BlockSize \in Nat \ {0} /\ MaxEntries \in Nat
  /\ ParentRange \in Nat \ {0}
ASSUME SwitchAssumption == AllocFails \in BOOLEAN

\* Paths the responder can use, and those one name too long.
Paths == UNION {[1 .. n -> Names] : n \in 1 .. MaxDepth + 1}

\* Every file and folder is in the root or in a folder.
IsTree(card) ==
  /\ card.files \subseteq Paths /\ card.folders \subseteq Paths
  /\ card.files \cap card.folders = {}
  /\ \A path \in card.files \cup card.folders :
       Front(path) = <<>> \/ Front(path) \in card.folders

ASSUME CardAssumption ==
  \A card \in Cards : IsTree(card) /\ IsFiniteSet(card.files \cup card.folders)

VARIABLES
  files, folders,  \* the card: the paths of its files and of its folders
  entries,         \* handle_list: entry_list[i - 1] of the blocks is entries[i]
  dropped,         \* ghost: handles of objects that were deleted
  revived,         \* ghost: the host used one of them after that
  partial,         \* ghost: handles of folders the list knows only a part of
  reply            \* the last operation's listing

vars == <<files, folders, entries, dropped, revived, partial, reply>>

Objects == files \cup folders
IsFolder(path) == path = <<>> \/ path \in folders
Children(path) == {p \in Objects : Front(p) = path}

\* The path that esp_mtp_file_list_find puts together; handle 0 is the root.
PathOf[h \in 0 .. Len(entries)] ==
  IF h = 0 THEN <<>> ELSE Append(PathOf[entries[h].parent], entries[h].name)

\* esp_mtp_file_list_find knows the handle, and the path fits the buffer.
Found(h) == h = 0 \/ (h \in 1 .. Len(entries) /\ Len(PathOf[h]) <= MaxDepth)

NoReply == [ok |-> FALSE, of |-> 0, handles |-> {}]
Listing(h, handles) == [ok |-> TRUE, of |-> h, handles |-> handles]

Init ==
  /\ \E card \in Cards : files = card.files /\ folders = card.folders
  /\ entries = <<>> /\ dropped = {} /\ revived = FALSE /\ partial = {}
  /\ reply = NoReply

-----------------------------------------------------------------------------
(* The handle list. *)

\* What esp_mtp_file_list_add stores.  Mutated form: the index of the parent's
\* entry in place of its handle.
EntryByIndex(parent, name) ==
  [parent |-> IF parent = 0 THEN 0 ELSE parent - 1, name |-> name]
Entry(parent, name) == [parent |-> parent % ParentRange, name |-> name]

\* esp_mtp_file_list_fill_handle_array: the children of a folder among the
\* entries from its own on.  The block is looked up once, for the first entry,
\* and the later entries are looked up in the same block.
\* Mutated forms: the search starts one entry later; nothing is remembered.
FilledTooLate(parent) ==
  {h \in parent + 2 .. Len(entries) : entries[h].parent = parent}
FilledNever(parent) == {}
Filled(parent) ==
  LET block == (parent \div BlockSize) * BlockSize
  IN  {h \in parent + 1 .. Len(entries) :
         entries[block + ((h - 1) % BlockSize) + 1].parent = parent}

-----------------------------------------------------------------------------
(* The operations. *)

\* The host names a handle, perhaps that of an object that is gone.
Uses(h) == revived' = (revived \/ h \in dropped)

\* The orders in which readdir may list a folder; the last names are missing
\* when an entry cannot be added.
Directories(path) ==
  LET names == {Last(p) : p \in Children(path)}
  IN  IF AllocFails THEN SetToAllKPermutations(names) ELSE SetToSeqs(names)

GetObjectHandles(h) ==
  /\ Uses(h)
  /\ \/ /\ Filled(h) # {}
        /\ reply' = Listing(h, Filled(h))
        /\ UNCHANGED <<entries, partial>>
     \/ /\ Filled(h) = {} /\ Found(h) /\ IsFolder(PathOf[h])
        /\ \E names \in Directories(PathOf[h]) :
             /\ Len(entries) + Len(names) <= MaxEntries
             /\ entries' = entries \o [k \in DOMAIN names |-> Entry(h, names[k])]
             /\ reply' = Listing(h, Len(entries) + 1 .. Len(entries'))
             /\ partial' = IF Len(names) = Cardinality(Children(PathOf[h]))
                           THEN partial \ {h} ELSE partial \cup {h}
  /\ UNCHANGED <<files, folders, dropped>>

\* The object the host sends next is all that the list will know of its folder:
\* the folder has other objects and was never read from the card.
HidesOthers(h) == Filled(h) = {} /\ Children(PathOf[h]) # {}

\* send_object_info up to its response: the object is created on the card
\* first and then gets its handle.
SendObjectInfo(h, name, isFolder) ==
  LET path == Append(PathOf[h], name)
  IN  /\ Uses(h)
      /\ Found(h) /\ IsFolder(PathOf[h]) /\ path \notin Objects
      /\ Len(path) <= MaxDepth
      /\ IF isFolder THEN folders' = folders \cup {path} /\ UNCHANGED files
                     ELSE files' = files \cup {path} /\ UNCHANGED folders
      /\ \/ /\ Len(entries) < MaxEntries
            /\ entries' = Append(entries, Entry(h, name))
            /\ partial' = IF HidesOthers(h) THEN partial \cup {h} ELSE partial
         \/ /\ AllocFails
            /\ partial' = partial \cup {h}
            /\ UNCHANGED entries
      /\ reply' = NoReply
      /\ UNCHANGED dropped

Below(path) == {p \in Objects : IsPrefix(path, p)}

\* What delete_dir leaves: an object whose unlink or rmdir fails (kept; for a folder that
\* does not open, everything in it), one whose path is too long for the buffer, and the
\* folders on the way to either.  Mutated form: nothing below is deleted.
RemovedAlone(path, kept) == Objects \ {path}
Remaining(path, kept) ==
  {p \in Objects : \/ ~IsPrefix(path, p)
                   \/ \E q \in Objects : IsPrefix(p, q) /\ (Len(q) > MaxDepth \/ q \in kept)}

\* Nobody looks at a result: the response is OK whatever is left.  The entries stay in
\* the list.
DeleteObject(h, kept) ==
  LET remaining == Remaining(PathOf[h], kept)
  IN  /\ h # 0 /\ Uses(h) /\ Found(h) /\ PathOf[h] \in Objects
      /\ files' = files \cap remaining
      /\ folders' = folders \cap remaining
      /\ dropped' = dropped \cup {i \in 1 .. Len(entries) :
                                    PathOf[i] \in Objects \ remaining}
      /\ reply' = NoReply
      /\ UNCHANGED <<entries, partial>>

Refused ==
  /\ reply' = NoReply
  /\ UNCHANGED <<files, folders, entries, dropped, revived, partial>>

\* esp_mtp_file_list_clean, when the task goes back to wait for a start.
SessionEnds ==
  /\ entries' = <<>> /\ dropped' = {} /\ revived' = FALSE /\ partial' = {}
  /\ reply' = NoReply
  /\ UNCHANGED <<files, folders>>

Next ==
  \/ \E h \in 0 .. Len(entries) : GetObjectHandles(h)
  \/ \E h \in 0 .. Len(entries), name \in Names, isFolder \in BOOLEAN :
       SendObjectInfo(h, name, isFolder)
  \/ \E h \in 1 .. Len(entries) : \E kept \in SUBSET Below(PathOf[h]) : DeleteObject(h, kept)
  \/ Refused
  \/ SessionEnds

Spec == Init /\ [][Next]_vars

-----------------------------------------------------------------------------
(* Properties. *)

\* The card stays a tree, and every entry's parent is the root or an earlier
\* entry, so that find's recursion ends.
TypeOK ==
  /\ IsTree([files |-> files, folders |-> folders])
  /\ Len(entries) <= MaxEntries
  /\ \A i \in DOMAIN entries : entries[i].parent < i /\ entries[i].name \in Names
  /\ reply.handles \subseteq DOMAIN entries

\* A handle names an object of the card until that object is deleted.
HandleValid == \A i \in DOMAIN entries : PathOf[i] \in Objects \/ i \in dropped

\* No object has two handles, whatever is listed, sent and deleted in whatever
\* order; unless the host used a handle of something it had deleted, which
\* names a new object of that path.
NoTwoHandles ==
  ~revived =>
    \A i, j \in DOMAIN entries \ dropped : PathOf[i] = PathOf[j] => i = j

\* A listing names exactly the objects in the folder, although it mostly comes
\* from the list and not from the card: it misses none that was sent since, and
\* lists none of another folder.  Deleted objects may still be listed.  Folders
\* that the list came to know in part are excepted, and only they.
ListingExact ==
  reply.ok /\ ~revived =>
    LET known == {PathOf[i] : i \in reply.handles \ dropped}
        there == Children(PathOf[reply.of])
    IN  known \subseteq there /\ (reply.of \notin partial => known = there)

\* "0xFFFFFFFF" gets the handles of the objects in the root folder.
RootListed ==
  reply.ok /\ reply.of = 0 /\ 0 \notin partial =>
    Children(<<>>) \subseteq {PathOf[i] : i \in reply.handles}
=============================================================================
