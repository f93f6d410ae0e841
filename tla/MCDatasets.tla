----------------------------- MODULE MCDatasets -----------------------------
(* Values of the constants for the runs of Datasets. *)
EXTENDS Datasets, FiniteSets

Char(utf8, unit) == [utf8 |-> utf8, utf16 |-> <<unit>>]
NoChar(utf8) == [utf8 |-> utf8, utf16 |-> <<>>]

\* The first and the last character of each length.
Letter == Char(<<97>>, 97)
Short == Char(<<194, 128>>, 128)
Long == Char(<<224, 160, 128>>, 2048)
UnitCharacters == {Letter, Short, Long, Char(<<127>>, 127), Char(<<223, 191>>, 2047),
               Char(<<239, 191, 191>>, 65535)}

\* Four bytes; a first byte without the others; one of the others alone.
Alone == NoChar(<<128>>)
NoCharacters == {NoChar(<<240, 159, 152, 128>>), NoChar(<<195>>), NoChar(<<224, 160>>), Alone}

\* Half of a surrogate pair, which only a host has.
Surrogate == Char(<<237, 160, 189>>, 55357)

NamesOver(chars) == [1 .. 1 -> chars] \cup [1 .. 2 -> chars]
Run(char, lengths) == {[i \in 1 .. n |-> char] : n \in lengths}

Day(d) == <<50, 48, 50, 52, 48, 49, 48 + d, 49, 84, 50, 51, 53, 57, 53, 57>>
SomeStamps == {Day(0), Day(2)}

CardNames == {n \in NamesOver(UnitCharacters \cup NoCharacters) : Len(n) = 2 => n[2] # Alone}
  \cup Run(Letter, {67, 68, 69, 76, 83, 84, 85, 99, 100, 101, 102, 103, 254, 255})
  \cup Run(Short, {68, 101, 127}) \cup Run(Long, {68, 69, 84, 85})
File(name) == [name |-> name, isFolder |-> FALSE, size |-> 2147483647, parent |-> 0,
               created |-> Day(0), modified |-> Day(2)]
Folder(name) == [File(name) EXCEPT !.isFolder = TRUE, !.size = 0, !.parent = 258]
SomeObjects == {File(name) : name \in CardNames} \cup {Folder(name) : name \in CardNames}

HostNames == NamesOver(UnitCharacters \cup {Surrogate}) \cup Run(Letter, {253, 254})
  \cup Run(Short, {126, 127, 128}) \cup Run(Long, {84, 85, 254})
Announcement(name, created, modified, keywords) ==
  [name |-> name, isFolder |-> FALSE, size |-> 65536, created |-> created,
   modified |-> modified, keywords |-> keywords]
SomeAnnouncements ==
  {Announcement(name, Day(0), Day(2), <<>>) : name \in HostNames}
    \cup {Announcement(<<Letter>>, c, m, k) :
            c \in {<<>>} \cup SomeStamps, m \in {<<>>} \cup SomeStamps,
            k \in {<<>>, <<19968>>, [i \in 1 .. 50 |-> 50]}}
=============================================================================
