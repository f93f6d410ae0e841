------------------------------ MODULE Datasets ------------------------------
(***************************************************************************)
(* What the responder tells a host about itself, its storage and an        *)
(* object, and what it understands of the object a host announces:         *)
(* get_device_info, get_storage_ids, get_storage_info, get_object_info and *)
(* the dataset of send_object_info in esp_mtp.c, with the conversions of   *)
(* names and dates in esp_mtp_helper.c.                                    *)
(*                                                                         *)
(* A dataset is the sequence of its bytes from container->data on: numbers *)
(* of one to eight bytes, arrays with a count before them, and strings     *)
(* with an 8-bit count of units before them.  The place of a string        *)
(* follows from the counts before it.  The room that is left in the buffer *)
(* is handed to a conversion through the count's own byte, so that only    *)
(* its low eight bits arrive.                                              *)
(***************************************************************************)
EXTENDS Utf, SequencesExt

CONSTANTS
  HeadLen,       \* MTP_CONTAINER_HEAD_LEN
  BufferSize,    \* handle->buffer_size: HeadLen + 4096
  RoomRange,     \* 2^8: *data, which takes the room, is a uint8_t
  FilenameSize,  \* sizeof(filename) in send_object_info
  Objects,       \* what may be on the card
  Announcements, \* what a host may announce
  NoObject,
  Stamps,        \* the dates "YYYYMMDDThhmmss", as bytes
  NoTime,        \* the time 0
  StaleBytes     \* what may follow a dataset in the buffer

ASSUME SizeAssumption ==
  /\ HeadLen \in Nat /\ BufferSize = HeadLen + 4096 /\ RoomRange = 256
  /\ FilenameSize \in Nat \ {0} /\ StaleBytes \subseteq Nat

\* Bytes or units of a text, of which 0 is the end.
Below(limit) == {v \in Nat : 0 < v /\ v < limit}
ASSUME StampAssumption == Stamps \subseteq [1 .. 15 -> Below(128)]

\* A name is a sequence of characters; character c is utf8 on the card and
\* utf16, one unit or none, for the host.
Characters == [utf8 : Seq(Below(256)), utf16 : Seq(Below(65536))]
NameBytes(chars) == Concat([i \in DOMAIN chars |-> chars[i].utf8])
NameUnits(chars) == Concat([i \in DOMAIN chars |-> chars[i].utf16])

HasUnit(c) == Len(c.utf16) = 1 /\ c.utf8 = BytesOf(c.utf16[1])

\* Four bytes or a later byte alone; or too few bytes of a character.
Malformed(c) == IsLater(c.utf8[1]) \/ c.utf8[1] >= 240
CutShort(c) ==
  \/ c.utf8[1] \div 32 = 6 /\ Len(c.utf8) = 1
  \/ c.utf8[1] \div 16 = 14 /\ Len(c.utf8) <= 2
HasNone(chars, i) ==
  /\ chars[i].utf16 = <<>> /\ chars[i].utf8 # <<>>
  /\ \/ Malformed(chars[i])
     \/ /\ CutShort(chars[i])
        /\ i < Len(chars) => ~IsLater(chars[i + 1].utf8[1])

ASSUME ObjectAssumption ==
  /\ Objects \subseteq [name : Seq(Characters), isFolder : BOOLEAN, size : Nat, parent : Nat,
                        created : Stamps, modified : Stamps]
  /\ \A o \in Objects : \A i \in DOMAIN o.name : HasUnit(o.name[i]) \/ HasNone(o.name, i)

\* Units whose bytes, one further on, could be those of a date.
Spells(units) == Len(units) >= 14 /\ \A i \in DOMAIN units : i <= 15 => units[i] % 256 = 0

\* What a host announces has a count for each string; its keywords do not spell
\* a date where one is left out before them.
ASSUME AnnouncementAssumption ==
  /\ Announcements \subseteq [name : Seq(Characters), isFolder : BOOLEAN, size : Nat,
                              created : Stamps \cup {<<>>}, modified : Stamps \cup {<<>>},
                              keywords : Seq(Below(65536))]
  /\ \A h \in Announcements :
       /\ \A i \in DOMAIN h.name : HasUnit(h.name[i])
       /\ Len(h.name) < 255 /\ Len(h.keywords) < 255
       /\ ~Spells(h.keywords)

VARIABLES
  op,      \* the operation that was carried out last
  object,  \* the object it told of: name, size, times, whether it is a folder
  buff,    \* container->data up to container->len
  heard,   \* what the host announced
  made     \* what send_object_info understood

vars == <<op, object, buff, heard, made>>

Zeros(n) == [i \in 1 .. n |-> 0]

\* The n bytes of a number, the low one first.
Number(value, n) ==
  LET shift == [k \in 1 .. n |-> [v \in Nat |-> v \div 256]]
  IN  [i \in 1 .. n |-> Rounds(shift, value, i - 1) % 256]
Bytes2(units) ==
  [i \in 1 .. 2 * Len(units) |->
     IF i % 2 = 1 THEN units[(i + 1) \div 2] % 256 ELSE units[i \div 2] \div 256]

\* The count in front of a string counts the terminator too.  Mutated form: it
\* does not.
CountWithoutEnd(units) == Len(units)
CountOf(units) == Len(units) + 1
String(units) == <<CountOf(units) % 256>> \o Bytes2(units) \o Zeros(2)

-----------------------------------------------------------------------------
(* Datasets of the responder. *)

Room(dataset) == (BufferSize - HeadLen - Len(dataset)) % RoomRange

\* A string after what the dataset holds already.
With(dataset, text) == dataset \o String(Utf16(text, Room(dataset)))

\* The fixed texts differ in their lengths.
Text(n) == [i \in 1 .. n |-> 120]
ExtensionText == Text(37)
DeviceTexts == <<Text(9), Text(8), Text(5), Text(6)>>
StorageTexts == <<Text(4), Text(1)>>
WithAll(dataset, texts) ==
  Rounds([k \in DOMAIN texts |-> [told \in Seq(Nat) |-> With(told, texts[k])]],
         dataset, Len(texts))

Format(isFolder) == IF isFolder THEN \h3001 ELSE \h3000
Association(isFolder) == IF isFolder THEN 1 ELSE 0

\* MTP_OPERATION_...: twelve codes; no events, properties or capture formats;
\* two object formats.
OperationCodes == <<\h1001, \h1002, \h1003, \h1004, \h1005, \h1007, \h1008, \h1009, \h100B, \h100C, \h100D, \h101B>>
DeviceArrays ==
  Number(Len(OperationCodes), 4) \o Bytes2(OperationCodes)
    \o Zeros(4) \o Zeros(4) \o Zeros(4)
    \o Number(2, 4) \o Number(Format(FALSE), 2) \o Number(Format(TRUE), 2)

DeviceInfo ==
  LET version == Number(100, 2) \o Number(6, 4) \o Number(100, 2)
  IN  WithAll(With(version, ExtensionText) \o Number(0, 2) \o DeviceArrays, DeviceTexts)

StorageIds == Number(1, 4) \o Number(65537, 4)

\* The two sizes come from esp_vfs_fat_info.
StorageInfo(capacity, free) ==
  WithAll(Number(3, 2) \o Number(2, 2) \o Number(0, 2) \o capacity \o free
            \o [i \in 1 .. 4 |-> 255], StorageTexts)

\* The numbers of an ObjectInfo dataset; thumbnail and image are not used.
\* Mutated form: the association type takes four bytes.
FixedUnpacked(isFolder, size, parent) ==
  Number(65537, 4) \o Number(Format(isFolder), 2) \o Zeros(2) \o Number(size, 4)
    \o Zeros(26) \o Number(parent, 4) \o Number(Association(isFolder), 4) \o Zeros(8)
Fixed(isFolder, size, parent) ==
  Number(65537, 4) \o Number(Format(isFolder), 2) \o Zeros(2) \o Number(size, 4)
    \o Zeros(26) \o Number(parent, 4) \o Number(Association(isFolder), 2) \o Zeros(8)

\* esp_mtp_time_to_utf16_datatime is the conversion of a stamp.
ObjectInfo(o) ==
  WithAll(Fixed(o.isFolder, o.size, o.parent), <<NameBytes(o.name), o.created, o.modified>>)
    \o Zeros(1)

Tell(operation, dataset) ==
  /\ op = "none" /\ op' = operation /\ buff' = dataset
  /\ heard' = NoObject /\ made' = NoObject

GetDeviceInfo == Tell("device", DeviceInfo) /\ object' = NoObject
GetStorageIds == Tell("ids", StorageIds) /\ object' = NoObject
GetStorageInfo ==
  \E free \in {Zeros(8), [i \in 1 .. 8 |-> 255]} :
    Tell("storage", StorageInfo([i \in 1 .. 8 |-> 255], free)) /\ object' = NoObject
GetObjectInfo ==
  \E o \in Objects : Tell("object", ObjectInfo(o)) /\ object' = o

-----------------------------------------------------------------------------
(* The dataset of a host. *)

ByteOf(d, place, stale) == IF place <= Len(d) THEN d[place] ELSE stale
NumberAt(d, place, n) == [i \in 1 .. n |-> d[place + i - 1]]
UnitOf(d, place, stale) == ByteOf(d, place, stale) + 256 * ByteOf(d, place + 1, stale)

\* The units of the string whose count is at a place, up to its terminator; the
\* count itself only says where the next string is.
UnitsAt(d, place) ==
  LET units == [i \in 1 .. (Len(d) - place) \div 2 + 2 |-> UnitOf(d, place + 2 * i - 1, 0)]
  IN  SubSeq(units, 1, SelectInSeq(units, LAMBDA u : u = 0) - 1)

\* Mutated form: the terminator is not among the units counted.
NextAfterEnd(d, place) == place + 3 + 2 * d[place]
NextString(d, place) == place + 1 + 2 * d[place]

\* esp_mtp_utf16_datatime_to_time: fifteen characters and then the end or a
\* fraction.  strptime knows the dates among them, and mktime makes the time of one,
\* which localtime_r turns into the same date again.  strptime leaves tm_isdst unset;
\* mktime looks at it only in a time zone with summer time, and nothing sets a zone
\* here.  An absent string has no terminator; what follows it is looked at instead.
TimeAt(d, place, stale) ==
  LET unit == [i \in 1 .. 16 |-> UnitOf(d, place + 2 * i - 1, stale)]
      date == SubSeq(unit, 1, 15)
  IN  IF unit[16] \in {0, 46} /\ date \in Stamps THEN date ELSE NoTime

\* send_object_info, from the dataset to the object it makes and its times.
NamePlace == 53
Understood(d, stale) ==
  LET created == NextString(d, NamePlace)
      modified == NextString(d, created)
  IN  [isFolder |-> NumberAt(d, 5, 2) = Number(Format(TRUE), 2),
       size |-> NumberAt(d, 9, 4),
       name |-> Utf8(UnitsAt(d, NamePlace), FilenameSize),
       accessed |-> TimeAt(d, created, stale),
       modified |-> TimeAt(d, modified, stale)]

SendObjectInfo(d) ==
  /\ buff' = d
  /\ \E stale \in StaleBytes : made' = Understood(d, stale)

\* A host may leave a date or the keywords out: their count is then zero.
Optional(units) == IF units = <<>> THEN <<0>> ELSE String(units)
Announced(h) ==
  Fixed(h.isFolder, h.size, 0) \o String(NameUnits(h.name))
    \o Optional(h.created) \o Optional(h.modified) \o Optional(h.keywords)

Announce ==
  \E h \in Announcements :
    /\ op = "none" /\ op' = "announced" /\ heard' = h /\ object' = NoObject
    /\ SendObjectInfo(Announced(h))

\* The host makes a copy: it announces what it was told.
Copy ==
  /\ op = "object" /\ op' = "copied"
  /\ SendObjectInfo(buff)
  /\ UNCHANGED <<object, heard>>

-----------------------------------------------------------------------------
Init == op = "none" /\ object = NoObject /\ buff = <<>>
        /\ heard = NoObject /\ made = NoObject

\* The task reads the next request over the last dataset, of which nothing but
\* StaleBytes and what a host copies is seen again.
ReadRequest ==
  /\ op # "none" /\ op' = "none" /\ buff' = <<>>
  /\ object' = NoObject /\ heard' = NoObject /\ made' = NoObject

Next == GetDeviceInfo \/ GetStorageIds \/ GetStorageInfo \/ GetObjectInfo
        \/ Announce \/ Copy \/ ReadRequest

Spec == Init /\ [][Next]_vars
-----------------------------------------------------------------------------
(* Properties. *)

\* A host finds its way by the counts.
HostNext(place) == place + 1 + 2 * buff[place]
AfterArray(place) == place + 4 + 2 * buff[place]
NextTimes(n, place) ==
  Rounds([k \in 1 .. n |-> [at \in Nat |-> HostNext(at)]], place, n)

\* The count of a string agrees with where its terminator is.
WholeAt(place) ==
  /\ place + 2 * buff[place] <= Len(buff)
  /\ Len(UnitsAt(buff, place)) = buff[place] - 1

TextsAt(texts, place) ==
  \A k \in DOMAIN texts : LET p == NextTimes(k - 1, place)
                          IN  WholeAt(p) /\ UnitsAt(buff, p) = texts[k]

\* Whatever the counts and however much a text was cut, a dataset fits the buffer,
\* and a host that goes through it by the counts finds each string's end where it
\* is, and comes out where the dataset ends; the fixed texts are whole.
WalkEnds ==
  /\ HeadLen + Len(buff) <= BufferSize /\ \A i \in DOMAIN buff : buff[i] \in 0 .. 255
  /\ op = "object" =>
       /\ \A k \in 0 .. 2 : WholeAt(NextTimes(k, NamePlace))
       /\ NextTimes(3, NamePlace) = Len(buff) /\ Last(buff) = 0
  /\ op = "device" =>
       LET arrays == HostNext(9) + 2
           texts == AfterArray(AfterArray(AfterArray(AfterArray(AfterArray(arrays)))))
       IN  /\ TextsAt(<<ExtensionText>>, 9) /\ TextsAt(DeviceTexts, texts)
           /\ NextTimes(4, texts) = Len(buff) + 1
  /\ op = "storage" => TextsAt(StorageTexts, 27) /\ NextTimes(2, 27) = Len(buff) + 1

\* The first character that has no unit, and the units before it.
FirstWithout(chars) == SelectInSeq(chars, LAMBDA c : c.utf16 = <<>>)
TellableUnits(chars) ==
  LET k == FirstWithout(chars)
  IN  NameUnits(IF k = 0 THEN chars ELSE SubSeq(chars, 1, k - 1))

\* Units of a name that a dataset has room for, and those that leave room for
\* both dates: of 4044 bytes, and of what is left after the name, only the low
\* eight bits count. Less and less is left for a date by 69 units and more, until
\* at MostUnits the low eight bits begin anew.
MostUnits == 101
UnitsBeforeDates == 68
LeavesRoom(units) == Len(units) <= UnitsBeforeDates \/ Len(units) >= MostUnits

ToldDates ==
  /\ UnitsAt(buff, NextTimes(1, NamePlace)) = object.created
  /\ UnitsAt(buff, NextTimes(2, NamePlace)) = object.modified

\* The host is told the name, cut only where a character has no unit or at
\* MostUnits, and both dates after a name that leaves them room.
ObjectTold ==
  op = "object" =>
    LET units == TellableUnits(object.name)
    IN  /\ UnitsAt(buff, NamePlace) =
              SubSeq(units, 1, IF Len(units) < MostUnits THEN Len(units) ELSE MostUnits)
        /\ LeavesRoom(units) => ToldDates

\* The longest part of a name, in whole characters, that fits the filename.
FittingName(chars) ==
  LET fitting == {k \in 0 .. Len(chars) :
                    Len(NameBytes(SubSeq(chars, 1, k))) < FilenameSize}
      most == CHOOSE k \in fitting : \A l \in fitting : l <= k
  IN  NameBytes(SubSeq(chars, 1, most))

\* What a host announces is what is made: the name in whole characters, the
\* size, the kind, and the dates, of which an absent one counts as none,
\* whatever follows it.
AnnouncedTaken ==
  op = "announced" =>
    /\ made.name = FittingName(heard.name)
    /\ made.isFolder = heard.isFolder /\ made.size = Number(heard.size, 4)
    /\ made.accessed = IF heard.created = <<>> THEN NoTime ELSE heard.created
    /\ made.modified = IF heard.modified = <<>> THEN NoTime ELSE heard.modified

\* A host that announces what it was told of an object makes one of the same
\* name, size, kind and dates, as far as ObjectTold goes.
CopyKept ==
  op = "copied" =>
    LET name == object.name
    IN  /\ made.isFolder = object.isFolder /\ made.size = Number(object.size, 4)
        /\ FirstWithout(name) = 0 /\ Len(name) <= MostUnits => made.name = FittingName(name)
        /\ LeavesRoom(TellableUnits(name)) =>
             made.accessed = object.created /\ made.modified = object.modified
=============================================================================
