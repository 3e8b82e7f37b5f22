------------------------------- MODULE Domains -------------------------------
(***************************************************************************)
(* get_domains of mig/probe/main.c: the text of the file given with -d,    *)
(* one domain name per line, is turned byte by byte into names in wire     *)
(* form, each label after its length and each name ended by a zero byte;   *)
(* and the walk of make_queries over the result, which starts again at the *)
(* first name when it meets the zero byte after the last.                  *)
(*                                                                         *)
(* Offsets count from 0 as in the code, so the byte at offset i is         *)
(* text[i + 1].                                                            *)
(***************************************************************************)
EXTENDS Integers, Sequences, FiniteSets, SequencesExt, Ranks

CONSTANTS
  Letters,       \* bytes of names; the text has no zero byte
  MaxLabel,      \* UCHAR_MAX
  FileLimit,     \* DOMAINS_FILE_LIMIT
  Texts          \* bound: what read() may have put into the buffer

Newline == 10
Dot == 46
Nul == 0
Byte == 1..255

ASSUME LettersAssumption == Letters \subseteq Byte \ {Newline, Dot}
ASSUME LimitAssumption == MaxLabel \in 1..255 /\ FileLimit \in Nat
ASSUME TextsAssumption == Texts \subseteq Seq(Letters \cup {Newline, Dot})

VARIABLES
  text,        \* buffer, bytes_read long
  i,           \* bytes looked at
  src,         \* src_offset: where the current label is taken from
  names,       \* what has been written to *domains
  zone_count,  \* bytes in the current label
  length,      \* bytes in the current line
  line,        \* number of the current line
  count,       \* names written
  result       \* of get_domains, "parse" while it runs

scanVars == <<i, src, zone_count, length, line>>
vars == <<text, scanVars, names, count, result>>

Init ==
  /\ text \in Texts
  /\ i = 0 /\ src = 0 /\ zone_count = 0 /\ length = 0 /\ line = 1
  /\ names = << >> /\ count = 0
  /\ result = "load"

\* Variant: the odd byte is forgotten.
AllocatedEven == 3 * (Len(text) \div 2) + 1

\* The size of *domains.
Allocated == 3 * (Len(text) \div 2 + (Len(text) % 2)) + 1
-----------------------------------------------------------------------------
\* An empty or too large file is refused; so is any file if a system call or
\* malloc fails.
LoadFails ==
  /\ result = "load"
  /\ result' = "failed"
  /\ UNCHANGED <<text, scanVars, names, count>>

Load ==
  /\ result = "load"
  /\ Len(text) \in 1..FileLimit
  /\ result' = "parse"
  /\ UNCHANGED <<text, scanVars, names, count>>

AtDot == result = "parse" /\ i < Len(text) /\ text[i + 1] = Dot
AtNewline == result = "parse" /\ i < Len(text) /\ text[i + 1] = Newline
AtLetter == result = "parse" /\ i < Len(text) /\ text[i + 1] \in Letters
AtEnd == result = "parse" /\ i = Len(text)

\* The current label, after its length as an unsigned char.
Label == <<zone_count % 256>> \o SubSeq(text, src + 1, src + zone_count)

\* "Invalid domain name": the names are freed.
Reject ==
  /\ result' = "rejected"
  /\ names' = << >>
  /\ UNCHANGED <<text, scanVars, count>>

\* Variant: the next label is taken from the dot on.
EndLabelAtDot ==
  /\ AtDot /\ zone_count > 0
  /\ names' = names \o Label
  /\ zone_count' = 0 /\ src' = i
  /\ length' = length + 1 /\ i' = i + 1
  /\ UNCHANGED <<text, line, count, result>>

EndLabel ==
  /\ AtDot /\ zone_count > 0
  /\ names' = names \o Label
  /\ zone_count' = 0 /\ src' = i + 1
  /\ length' = length + 1 /\ i' = i + 1
  /\ UNCHANGED <<text, line, count, result>>

RejectLabel == AtDot /\ zone_count = 0 /\ Reject

\* Only the line is counted: src stays behind at the newline.
BlankLine ==
  /\ AtNewline /\ length = 0
  /\ line' = line + 1 /\ i' = i + 1
  /\ UNCHANGED <<text, src, names, zone_count, length, count, result>>

\* Variant: a name may end with a dot.
EndNameUnchecked ==
  /\ AtNewline /\ length > 0
  /\ names' = names \o Label \o <<Nul>>
  /\ count' = count + 1
  /\ zone_count' = 0 /\ src' = i + 1 /\ length' = 0
  /\ line' = line + 1 /\ i' = i + 1
  /\ UNCHANGED <<text, result>>

EndName ==
  /\ AtNewline /\ zone_count > 0
  /\ names' = names \o Label \o <<Nul>>
  /\ count' = count + 1
  /\ zone_count' = 0 /\ src' = i + 1 /\ length' = 0
  /\ line' = line + 1 /\ i' = i + 1
  /\ UNCHANGED <<text, result>>

RejectName == AtNewline /\ length > 0 /\ zone_count = 0 /\ Reject

\* Variant: a label may have one byte too many.
LetterBeyond ==
  /\ AtLetter /\ zone_count <= MaxLabel
  /\ zone_count' = zone_count + 1
  /\ length' = length + 1 /\ i' = i + 1
  /\ UNCHANGED <<text, src, names, line, count, result>>

Letter ==
  /\ AtLetter /\ zone_count < MaxLabel
  /\ zone_count' = zone_count + 1
  /\ length' = length + 1 /\ i' = i + 1
  /\ UNCHANGED <<text, src, names, line, count, result>>

RejectLetter == AtLetter /\ zone_count = MaxLabel /\ Reject

\* The last line has no newline.
FinishName ==
  /\ AtEnd /\ length > 0 /\ zone_count > 0
  /\ names' = names \o Label \o <<Nul, Nul>>
  /\ count' = count + 1
  /\ result' = "ok"
  /\ UNCHANGED <<text, scanVars>>

RejectLast == AtEnd /\ length > 0 /\ zone_count = 0 /\ Reject

Finish ==
  /\ AtEnd /\ length = 0
  /\ names' = Append(names, Nul)
  /\ result' = "ok"
  /\ UNCHANGED <<text, scanVars, count>>

Next ==
  \/ LoadFails \/ Load
  \/ EndLabel \/ RejectLabel \/ BlankLine \/ EndName \/ RejectName
  \/ Letter \/ RejectLetter \/ FinishName \/ RejectLast \/ Finish

Spec == Init /\ [][Next]_vars
-----------------------------------------------------------------------------
(* make_queries, main.c:53-119: the name in query k.                       *)

\* strlen(name) + 1 of the name at offset o.
NameSize(o) == CHOOSE n \in 1..(Len(names) - o) :
  names[o + n] = Nul /\ \A m \in 1..(n - 1) : names[o + m] # Nul

NameOffset(k) ==
  LET offset[q \in 0..k] == IF q = 0 THEN 0 ELSE
        LET next == offset[q - 1] + NameSize(offset[q - 1]) IN
        IF names[next + 1] = Nul THEN 0 ELSE next
  IN offset[k]

QueryName(k) == SubSeq(names, NameOffset(k) + 1, NameOffset(k) + NameSize(NameOffset(k)))
-----------------------------------------------------------------------------
(* What the text says, without the scan.                                   *)

\* Where s is cut: at both ends and at every separator.
Cuts(s, sep) == {0, Len(s) + 1} \cup {k \in DOMAIN s : s[k] = sep}

\* The pieces of s between separators.
Pieces(s, sep) ==
  LET cuts == Cuts(s, sep)
  IN [k \in 1..(Cardinality(cuts) - 1) |-> SubSeq(s, Nth(cuts, k - 1) + 1, Nth(cuts, k) - 1)]

Lines == Pieces(text, Newline)

IllFormed(name) ==
  name # << >> /\ \E label \in ToSet(Pieces(name, Dot)) : Len(label) \notin 1..MaxLabel

\* A blank line that another line follows.
HasBlankLine == \E k \in 1..(Len(Lines) - 1) : Lines[k] = << >>

FileNames == Kept(Lines, {k \in DOMAIN Lines : Lines[k] # << >>})

\* Every label after its length, which takes the place of the dot before it.
WireForm(name) ==
  LET cuts == Cuts(name, Dot)
  IN  [m \in 1..(Len(name) + 2) |->
         IF m = Len(name) + 2 THEN Nul
         ELSE IF m - 1 \in cuts THEN Len(Pieces(name, Dot)[Rank(cuts, m - 1) + 1])
         ELSE name[m - 1]]

\* Query k asks for the domain on line k, and the file is gone through again
\* and again.
QueriesFollowFile ==
  /\ count = Len(FileNames)
  /\ count > 0 => \A k \in 0..(2 * count) : QueryName(k) = WireForm(FileNames[(k % count) + 1])
-----------------------------------------------------------------------------
TypeOK ==
  /\ text \in Seq(Letters \cup {Newline, Dot})
  /\ i \in 0..Len(text) /\ src \in 0..Len(text)
  /\ zone_count \in 0..MaxLabel /\ length \in 0..Len(text)
  /\ line \in 1..(Len(text) + 1) /\ count \in 0..Len(text)
  /\ names \in Seq(0..255)
  /\ result \in {"load", "parse", "ok", "rejected", "failed"}

\* README.md:32: every query of mig (main.c:53-119) asks for the domain its
\* line of the file holds, in turn, if no blank line precedes a name.
NamesRead == result = "ok" /\ ~HasBlankLine => QueriesFollowFile

\* A file is accepted if and only if all its lines are names, and the message
\* "Invalid domain name at line" of main.c:461, 487, 516 and 530 points at the
\* first that is not.
RejectsFirstIllFormed ==
  /\ result = "ok" => \A k \in DOMAIN Lines : ~IllFormed(Lines[k])
  /\ result = "rejected" => IllFormed(Lines[line]) /\ \A k \in 1..(line - 1) : ~IllFormed(Lines[k])

\* The names of a file that ends with a newline, or has an odd size, fit the
\* block of main.c:433; those of any other file end at most one byte beyond it.
NamesFitButForOneByte ==
  LET sure == Len(text) % 2 = 1 \/ (text # << >> /\ text[Len(text)] = Newline)
  IN Len(names) <= IF sure THEN Allocated ELSE Allocated + 1
-----------------------------------------------------------------------------
(* The invariant behind NamesFitButForOneByte.  A line of c bytes yields   *)
(* c + 1 bytes of names; the shortest, of two bytes, makes that 3/2.       *)

Counters ==
  /\ zone_count <= length /\ length <= i /\ src + zone_count <= i
  /\ line <= i + 1
  /\ (i > 0 /\ text[i] = Newline) => length = 0

\* The lines before this one took at most 3/2 of their bytes, and the labels of
\* this one as many as they have, dots included.
Room ==
  /\ length - zone_count <= Len(names)
  /\ 2 * (Len(names) - (length - zone_count)) <= 3 * (i - length)

IInv ==
  /\ TypeOK /\ NamesFitButForOneByte
  /\ result \in {"load", "parse"} => Counters /\ Room /\ count + length <= i
=============================================================================
