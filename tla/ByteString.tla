----------------------------- MODULE ByteString -----------------------------
(***************************************************************************)
(* client/sml/byte_string.cpp: byte strings that are written and read at a *)
(* position, in a buffer that grows, and the way client/sml/datagram.cpp   *)
(* turns a datagram into bytes and back with them.                         *)
(*                                                                         *)
(* An object is a record, and each member function maps it to the object   *)
(* afterwards.  Memory fresh from new is Junk, which no byte of a string   *)
(* may ever be.                                                            *)
(***************************************************************************)
EXTENDS Integers, Sequences

CONSTANTS
    Objects,
    Handled,    \* those that are written, read and positioned; the others are
                \* only made and assigned
    Bytes,
    Junk,       \* what is in memory that nothing was written to
    Lost,       \* see ByteFile
    Align,      \* ALIGNED_SIZE, 16 in the code
    MaxLen,     \* bound: length of a string
    Widths      \* the number of bytes of each field of a datagram before its
                \* payload, in the order they are sent: 1, 4, 4 and 4

ASSUME ConstantsAssumption ==
    /\ Junk \notin Bytes /\ Lost \notin Int
    /\ Handled \subseteq Objects
    /\ Align \in Nat \ {0} /\ MaxLen \in Nat
    /\ Widths \in Seq(Nat)

VARIABLES
    str,    \* the objects
    out     \* what the last step has read

vars == <<str, out>>

Strings == UNION {[1 .. n -> Bytes] : n \in 0 .. MaxLen}

-----------------------------------------------------------------------------
(* The object *)

Object ==
    [buf_size_ : 0 .. 2 * (MaxLen + Align),
     buf_      : UNION {[0 .. n - 1 -> Bytes \cup {Junk}] :
                            n \in 0 .. 2 * (MaxLen + Align)},
     data_len_ : 0 .. MaxLen,
     offset_   : Int]

\* The default constructor.
Empty == [buf_size_ |-> 0, buf_ |-> <<>>, data_len_ |-> 0, offset_ |-> 0]

Min(i, j) == IF i < j THEN i ELSE j

\* The size that is allocated for n bytes.
Aligned(n) == IF n = 0 THEN 0 ELSE ((n - 1) \div Align) * Align + Align

ResizedUncopied(o, n) ==     \* mutant: what the old buffer holds is left there
    [o EXCEPT !.buf_size_ = Aligned(n),
              !.buf_ = [k \in 0 .. Aligned(n) - 1 |-> Junk]]

\* _change_buffer_size_to: the data is copied to the new buffer.
Resized(o, n) ==
    [o EXCEPT !.buf_size_ = Aligned(n),
              !.buf_ = [k \in 0 .. Aligned(n) - 1 |->
                          IF k < o.data_len_ /\ o.buf_size_ # 0 THEN o.buf_[k] ELSE Junk]]

\* The sizes that adjust_buffer_size tries, each twice the one before.
Power[k \in Nat] == IF k = 0 THEN 1 ELSE 2 * Power[k - 1]

\* adjust_buffer_size doubles 1 until it is at least need.
Doubled(need) ==
    CHOOSE n \in {Power[k] : k \in 0 .. need} :
        n >= need /\ \A k \in 0 .. need : Power[k] >= need => n <= Power[k]

\* gurantee_space
WithSpace(o, n) == IF n > o.buf_size_ THEN Resized(o, Doubled(n)) ELSE o

\* bcopy or memcpy of the bytes s to the place at of the buffer.
Copied(o, at, s) ==
    [o EXCEPT !.buf_ = [k \in DOMAIN o.buf_ |->
        IF k \in at .. at + Len(s) - 1 THEN s[k - at + 1] ELSE o.buf_[k]]]

\* write, which is never cut short, as there is space for all of it; data_len_
\* grows if the position has passed it.
Written(o, s) ==
    LET w == Copied(WithSpace(o, o.offset_ + Len(s)), o.offset_, s)
        p == o.offset_ + Len(s)
    IN  IF s = <<>> THEN o
        ELSE [w EXCEPT !.offset_ = p,
                       !.data_len_ = IF p > @ THEN p ELSE @]

\* The data from the place k of the buffer on, up to the place l.
Slice(o, k, l) == [i \in 1 .. l - k |-> o.buf_[k + i - 1]]

ContentsOfBuffer(o) == Slice(o, 0, o.buf_size_)   \* mutant: all of the buffer

Contents(o) == Slice(o, 0, o.data_len_)

\* How far read(n) moves the position: n, but no further than can_read().
ReadEnd(o, n) == Min(o.offset_ + n, o.data_len_)

\* The constructor that copies the bytes s, into a buffer for n of them; the
\* copy constructor asks for all of the buffer it copies from.
Constructed(s, n) ==
    [Copied(Resized(Empty, n), 0, s) EXCEPT !.data_len_ = Len(s)]

\* operator=, which leaves offset_ alone.
Assigned(o, v) ==
    [Copied(Resized(o, v.buf_size_), 0, Contents(v)) EXCEPT !.data_len_ = v.data_len_]

\* seek to a place outside the string throws, if it is beyond the end, when
\* offset_ has been assigned.
Sought(o, whence, i) ==
    [o EXCEPT !.offset_ = CASE whence = "seek_cur" -> o.offset_ + i
                            [] whence = "seek_end" -> o.data_len_ + i
                            [] whence = "seek_set" -> i]

\* append
Appended(o, s) == Written(Sought(o, "seek_end", 0), s)

\* Whether read and write are called within the string: beyond its end can_read
\* underflows, and what a write skips is nobody's.
Inside(o) == o.offset_ \in 0 .. o.data_len_

-----------------------------------------------------------------------------
(* Datagrams: a field is the sequence of bytes it has in memory. *)

Fields == DOMAIN Widths
Datagrams ==
    {d \in [fields : [Fields -> Strings], payload : Strings] :
        \A f \in Fields : Len(d.fields[f]) = Widths[f]}

\* An object after it was given the first n fields, by operator<<.
WithFields(d) ==
    LET after[n \in 0 .. Len(Widths)] ==
          IF n = 0 THEN Empty ELSE Written(after[n - 1], d.fields[n])
    IN  after

\* datagram::operator shared_ptr<std::string>
Serialized(d) == Contents(Written(WithFields(d)[Len(Widths)], d.payload))

\* The places where fields begin, and the payload after the last.
Begins == LET at[n \in 1 .. Len(Widths) + 1] ==
                IF n = 1 THEN 0 ELSE at[n - 1] + Widths[n - 1]
          IN  at

\* The constructor of datagram from the bytes s: operator>> for each field,
\* which throws unless it yields all of it, and for a string the whole rest.
\* The set is empty if it throws.
Parsed(s) ==
    LET o == Constructed(s, Len(s))
        end(f) == ReadEnd([o EXCEPT !.offset_ = Begins[f]], Widths[f])
    IN  IF \E f \in Fields : end(f) < Begins[f] + Widths[f] THEN {}
        ELSE {[fields  |-> [f \in Fields |-> Slice(o, Begins[f], end(f))],
               payload |-> Slice(o, Begins[Len(Widths) + 1], o.data_len_)]}

-----------------------------------------------------------------------------
(* What a program does with byte strings *)

Becomes(x, o) ==
    /\ o.data_len_ <= MaxLen
    /\ str' = [str EXCEPT ![x] = o]
    /\ out' = <<>>

Write(x, s) == Inside(str[x]) /\ Becomes(x, Written(str[x], s))

Read(x, n) ==
    LET o == str[x] IN
    /\ Inside(o)
    /\ out' = Slice(o, o.offset_, ReadEnd(o, n))
    /\ str' = [str EXCEPT ![x].offset_ = ReadEnd(o, n)]

\* Bound: the offset stays near the string.
Seek(x, whence, i) ==
    /\ Sought(str[x], whence, i).offset_ \in -1 .. MaxLen + 1
    /\ Becomes(x, Sought(str[x], whence, i))

AppendBytes(x, s) == Becomes(x, Appended(str[x], s))

\* append of another byte_string, and operator+.
AppendString(x, y) == x # y /\ AppendBytes(x, Contents(str[y]))

Assign(x, y) == Becomes(x, Assigned(str[x], str[y]))

\* The constructors from bytes and from a string.
FromBytes(x, s) == Becomes(x, Constructed(s, Len(s)))

\* The copy constructor.
Copy(x, y) ==
    x # y /\ Becomes(x, Constructed(Contents(str[y]), str[y].buf_size_))

\* sub_byte_string, for a part of the string.
SubByteString(x, y, k, l) ==
    /\ k <= l /\ l <= str[y].data_len_
    /\ Becomes(x, Constructed(Slice(str[y], k, l), l - k))

-----------------------------------------------------------------------------
Init ==
    /\ str = [x \in Objects |-> Empty]
    /\ out = <<>>

Next ==
    \/ \E x \in Handled :
         \/ \E s \in Strings : Write(x, s)
         \/ \E n \in 0 .. MaxLen : Read(x, n)
         \/ \E whence \in {"seek_set", "seek_cur", "seek_end"} :
              \E i \in -1 .. 1 : Seek(x, whence, i)
         \/ \E s \in Strings : AppendBytes(x, s)
         \/ \E y \in Objects : AppendString(x, y)
    \/ \E x \in Objects :
         \/ \E s \in Strings : FromBytes(x, s)
         \/ \E y \in Objects : Assign(x, y)
         \/ \E y \in Objects : Copy(x, y)
         \/ \E y \in Objects : \E k, l \in 0 .. MaxLen : SubByteString(x, y, k, l)

Spec == Init /\ [][Next]_vars

-----------------------------------------------------------------------------
(* Properties *)

\* Every variable has its type, and data lies within its buffer.
TypeOK ==
    /\ str \in [Objects -> Object]
    /\ \A x \in Objects : /\ DOMAIN str[x].buf_ = 0 .. str[x].buf_size_ - 1
                          /\ str[x].data_len_ <= str[x].buf_size_
    /\ out \in Strings

File == INSTANCE ByteFile WITH
    contents <- [x \in Objects |-> Contents(str[x])],
    pos <- [x \in Objects |-> IF Inside(str[x]) THEN str[x].offset_ ELSE Lost]

\* However buffers grow, are replaced and shared out, byte strings behave like
\* files: what was written is read back, and no byte that was not written.
IsByteFile == File!FileSpec

\* What a datagram turns into has one reading, the datagram; and whatever bytes
\* have a reading, they are what that datagram turns into.  Bytes that are too
\* few for the fields have none.
RoundTrip ==
    \A x \in Objects :
        LET s == Contents(str[x]) IN
        /\ \A d \in Parsed(s) : d \in Datagrams /\ Serialized(d) = s
        /\ (Parsed(s) = {}) <=> Len(s) < Begins[Len(Widths) + 1]
        /\ \A d \in Datagrams : Serialized(d) = s => Parsed(s) = {d}
=============================================================================
