------------------------------ MODULE ByteFile ------------------------------
(***************************************************************************)
(* What client/sml/byte_string.h promises: objects that are written and    *)
(* read like files, each a sequence of bytes with a position in it.        *)
(*                                                                         *)
(* A position is lost by a seek to a place outside the contents and by an  *)
(* assignment of fewer bytes, which keeps the position.  Whoever has lost  *)
(* it must set it again before reading or writing there.                   *)
(***************************************************************************)
EXTENDS Integers, Sequences

CONSTANTS
    Objects,
    Bytes,
    MaxLen,     \* bound: bytes that are written or read at a time
    Lost        \* not a number: the position of an object that has none

VARIABLES
    contents,   \* the bytes of each object
    pos,        \* how many of them are before its position, or Lost
    out         \* what the last step has read

fileVars == <<contents, pos, out>>

Known(x) == pos[x] # Lost
Set(x, c, p) ==
    /\ contents' = [contents EXCEPT ![x] = c]
    /\ pos' = [pos EXCEPT ![x] = IF p \in 0 .. Len(c) THEN p ELSE Lost]
    /\ out' = <<>>

\* The bytes s take the place of those at position p of c and after.
Overwritten(c, p, s) ==
    SubSeq(c, 1, p) \o s \o SubSeq(c, p + Len(s) + 1, Len(c))

Write(x, s) ==
    /\ Known(x)
    /\ Set(x, Overwritten(contents[x], pos[x], s), pos[x] + Len(s))

Read(x, n) ==
    /\ Known(x)
    /\ LET c    == contents[x]
           last == IF pos[x] + n <= Len(c) THEN pos[x] + n ELSE Len(c)
       IN  /\ out' = SubSeq(c, pos[x] + 1, last)
           /\ pos' = [pos EXCEPT ![x] = last]
    /\ UNCHANGED contents

\* The position is set to a place in the contents, or lost.
Seek(x, p) == Set(x, contents[x], p)

AppendTo(x, s) == Set(x, contents[x] \o s, Len(contents[x]) + Len(s))

\* Assignment keeps the position, or loses it if it is beyond the new contents.
\* One that was lost may be anywhere then.
Assign(x, c) ==
    \E p \in IF Known(x) THEN {pos[x]} ELSE 0 .. Len(c) \cup {Lost} : Set(x, c, p)

\* A new object starts at its first byte.
Make(x, c) == Set(x, c, 0)

FileInit ==
    /\ contents = [x \in Objects |-> <<>>]
    /\ pos = [x \in Objects |-> 0]
    /\ out = <<>>

Strings == UNION {[1 .. n -> Bytes] : n \in 0 .. MaxLen}

FileNext ==
    \E x \in Objects :
        \/ \E s \in Strings : Write(x, s) \/ AppendTo(x, s) \/ Make(x, s)
        \/ \E n \in 0 .. MaxLen : Read(x, n)
        \/ \E p \in 0 .. Len(contents[x]) \cup {Lost} : Seek(x, p)
        \/ \E y \in Objects : Assign(x, contents[y]) \/ AppendTo(x, contents[y])

FileSpec == FileInit /\ [][FileNext]_fileVars
=============================================================================
