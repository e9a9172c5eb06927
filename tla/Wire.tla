-------------------------------- MODULE Wire --------------------------------
(***************************************************************************)
(* The packet header of src/wire/src/lib.rs: its fields at fixed offsets   *)
(* of a byte buffer, written and read through raw pointers by Header and   *)
(* by the two views.  A value is the sequence of its bytes, the most       *)
(* significant first; a scalar lies in memory in the order of the host     *)
(* unless to_be and from_be turn it.                                       *)
(***************************************************************************)
EXTENDS Integers, Sequences, SequencesExt

CONSTANTS
  Values(_),        \* the values of a field that are enumerated
  LittleEndianHost, \* whether the host stores the least significant byte first
  BufLens           \* the lengths of buffers

VARIABLES
  buf,    \* the buffer, indexed from 0
  header  \* what has been written: each field's last value

wireVars == <<buf, header>>

HEADER_SIZE == 96

Fields == {"src_id", "dst_id", "flow_label", "seq_num", "session_id", "flags", "length"}

OffsetSeqLate(f) ==
  CASE f = "src_id" -> 0 [] f = "dst_id" -> 32 [] f = "flow_label" -> 64
    [] f = "seq_num" -> 70 [] f = "session_id" -> 76 [] f = "flags" -> 92
    [] f = "length" -> 94

Offset(f) ==
  CASE f = "src_id" -> 0 [] f = "dst_id" -> 32 [] f = "flow_label" -> 64
    [] f = "seq_num" -> 68 [] f = "session_id" -> 76 [] f = "flags" -> 92
    [] f = "length" -> 94

Width(f) ==
  CASE f \in {"src_id", "dst_id"} -> 32 [] f = "session_id" -> 16
    [] f = "seq_num" -> 8 [] f = "flow_label" -> 4 [] f \in {"flags", "length"} -> 2

Scalar(f) == f \notin {"src_id", "dst_id", "session_id"}

Bytes == 0..255

ASSUME WireAssumption ==
  /\ LittleEndianHost \in BOOLEAN /\ BufLens \subseteq Nat
  /\ \A f \in Fields : Values(f) \subseteq [1..Width(f) -> Bytes]

ZeroValue(f) == [i \in 1..Width(f) |-> 0]

\* to_be and from_be, on scalars only.
SwapToBe(f, v) == IF Scalar(f) /\ LittleEndianHost THEN Reverse(v) ELSE v

\* The bytes of a value in memory.
InMemory(f, v) == IF Scalar(f) /\ LittleEndianHost THEN Reverse(v) ELSE v

\* An unaligned store and load of one field.
Store(b, f, v) ==
  LET bytes == InMemory(f, SwapToBe(f, v))
  IN  [i \in DOMAIN b |-> IF i \in Offset(f)..(Offset(f) + Width(f) - 1)
                          THEN bytes[i - Offset(f) + 1] ELSE b[i]]

Load(b, f) ==
  SwapToBe(f, InMemory(f, [i \in 1..Width(f) |-> b[Offset(f) + i - 1]]))

\* Header::marshal_into, field after field, and Header::parse.
Marshal(b, h) ==
  LET put(acc, f) == Store(acc, f, h[f])
  IN  put(put(put(put(put(put(put(b, "src_id"), "dst_id"), "flow_label"), "seq_num"),
                  "session_id"), "flags"), "length")

Parse(b) == [f \in Fields |-> Load(b, f)]

----------------------------------------------------------------------------
\* new_header_buffer: zeros; Header::new is all zeros too.
WireInit ==
  /\ buf \in {[i \in 0..(n - 1) |-> 0] : n \in BufLens}
  /\ header = [f \in Fields |-> ZeroValue(f)]

\* marshal_into and HeaderView::view refuse a buffer below HEADER_SIZE.
LongEnough == Cardinality(DOMAIN buf) >= HEADER_SIZE

MarshalInto(h) ==
  /\ LongEnough
  /\ buf' = Marshal(buf, h) /\ header' = h

\* The setters of HeaderView.
SetField(f, v) ==
  /\ LongEnough
  /\ buf' = Store(buf, f, v)
  /\ header' = [header EXCEPT ![f] = v]

\* ErrBufferTooSmall
TooShort == ~LongEnough /\ UNCHANGED wireVars

WireNext ==
  \/ TooShort
  \/ \E f \in Fields : \E v \in Values(f) : SetField(f, v)
  \/ \E f \in Fields : \E v \in Values(f) :
       MarshalInto([g \in Fields |-> IF g = f THEN v ELSE ZeroValue(g)])

WireSpec == WireInit /\ [][WireNext]_wireVars

WireTypeOK ==
  /\ \E n \in BufLens : buf \in [0..(n - 1) -> Bytes]
  /\ header \in [Fields -> UNION {[1..Width(f) -> Bytes] : f \in Fields}]
  /\ \A f \in Fields : header[f] \in [1..Width(f) -> Bytes]

\* Whatever is written field by field or at once is what parse and the getters
\* read: no field reaches into another.  On the wire every value is in network
\* order at its place, and bytes after the header are never touched.
WireRoundTrip ==
  LongEnough =>
    /\ Parse(buf) = header
    /\ \A f \in Fields, i \in 1..32 : i <= Width(f) => buf[Offset(f) + i - 1] = header[f][i]
    /\ \A i \in DOMAIN buf : i >= HEADER_SIZE => buf[i] = 0
====
