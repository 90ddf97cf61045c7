------------------------------- MODULE Codec --------------------------------
(***************************************************************************)
(* Encoding and decoding of 9P messages (serialize.rs).  A message is      *)
(* encoded into the bytes of a frame, one `<<` after the other, and what   *)
(* arrives as a frame is decoded, one decode! after the other.             *)
(*                                                                         *)
(* Values are symbolic.  The value of a field is "the value of the field   *)
(* at this path", with the number of low bits it may have set, so that all *)
(* messages of one kind whose strings and vectors have the same lengths    *)
(* are checked at once.  Only lengths and type numbers are numbers.        *)
(***************************************************************************)
EXTENDS FcallLayout, SequencesExt, FiniteSetsExt

CONSTANTS
    Kinds,      \* the kinds of message that are sent
    StrLens,    \* lengths in bytes of strings and data
    VecLens,    \* numbers of elements of vectors
    BadTypes    \* type numbers that are no message of 9P2000.L

ASSUME LengthsFit == \* the lengths that a u16 holds
    /\ Kinds \subseteq DOMAIN Fcall
    /\ StrLens \subseteq 0..65535 /\ VecLens \subseteq 0..65535 /\ BadTypes \subseteq 0..255

VARIABLES
    msg,        \* the message: its kind and the lengths of its parts
    ph,         \* "encode", "sent", "decode", "ok", "err"
    todo,       \* what is still to be encoded or decoded
    wire,       \* the bytes written, or still to be read
    given,      \* the fields of the message that have been encoded
    frame,      \* what arrived: "whole", "short" (its end is missing), "foreign"
    kind,       \* the kind of message the decoder recognised
    out         \* the fields decoded

vars == <<msg, ph, todo, wire, given, frame, kind, out>>

None == "none"

-----------------------------------------------------------------------------
\* A piece of work: the field at path `at`, of type t.  With t = "bytes" it is
\* n bytes; with i > 0 it is the elements i to n of a vector of t.
Field(at, t) == [at |-> at, t |-> t, n |-> 0, i |-> 0]

FieldsOf(at, order, types) ==
    [j \in DOMAIN order |-> Field(Append(at, order[j]), types[order[j]])]

MsgTypes(k) == Fcall[k] @@ Reserved

Header == <<Field(<<"type">>, "u8"), Field(<<"tag">>, "u16")>>

EncFields(k) == FieldsOf(<< >>, EncMsg[k], MsgTypes(k))

DecFields(k) == FieldsOf(<< >>, DecMsg[k], MsgTypes(k))

DecOrderSwapped(t) ==
    IF t = "Statfs"
    THEN <<"typ", "bsize", "blocks", "bavail", "bfree", "files", "ffree", "fsid", "namelen">>
    ELSE DecStruct[t]

DecOrder(t) == DecStruct[t]

\* Qid::size, DirEntry::size, DirEntryData::size
QidSize == 1 + 4 + 8
DirEntrySizeNoLen(nameLen) == QidSize + 8 + 1 + nameLen
DirEntrySize(nameLen) == QidSize + 8 + 1 + 2 + nameLen
DirEntryDataSize(m) == m.vlen * DirEntrySize(m.slen)

\* A run of w bytes on the wire: the value of the field at `of`; n is its value
\* where the decoder's control depends on it.
Run(w, of, bits, n) == [w |-> w, of |-> of, bits |-> bits, n |-> n]

Size(s) == FoldSeq(LAMBDA r, a : r.w + a, 0, s)

IsInt(f) == f.i = 0 /\ f.t \in DOMAIN Width
IsBytes(f) == f.i = 0 /\ f.t = "bytes"
IsText(f) == f.i = 0 /\ f.t \in {"String", "Data"}
IsStruct(f) == f.i = 0 /\ f.t \in DOMAIN Struct
IsVec(f) == f.i = 0 /\ f.t \in DOMAIN Element
IsLoop(f) == f.i > 0

\* the elements of a vector
Elements(f, n) == [at |-> f.at, t |-> Element[f.t], n |-> n, i |-> 1]

\* `as u16`
Cast(n, t) == IF t = "u16" THEN n % 65536 ELSE n

\* what a field contributes to a message; reserved members contribute nothing
Part(at, of, bits) ==
    {p \in {[at |-> at, of |-> of, bits |-> bits]} : at[1] \notin DOMAIN Reserved}

-----------------------------------------------------------------------------
(* Encoding                                                                *)

Init ==
    /\ msg \in [kind : Kinds, slen : StrLens, vlen : VecLens]
    /\ ph = "encode"
    /\ todo = Header \o EncFields(msg.kind)
    /\ wire = << >> /\ given = {} /\ frame = "whole" /\ kind = None /\ out = {}

Encoding == ph = "encode" /\ todo # << >>

\* integers, and the integers behind flags
EncodeInt ==
    LET f == Head(todo) IN
    /\ Encoding /\ IsInt(f)
    /\ wire' = Append(wire, Run(Width[f.t], f.at, Bits[f.t],
                                IF f.at = <<"type">> THEN MsgType[msg.kind] ELSE 0))
    /\ given' = given \cup Part(f.at, f.at, Bits[f.t])
    /\ todo' = Tail(todo)
    /\ UNCHANGED <<msg, ph, frame, kind, out>>

\* String::encode, Data::encode: the length, then the bytes
EncodeText ==
    LET f == Head(todo) IN
    /\ Encoding /\ IsText(f)
    /\ wire' = wire \o <<Run(Width[LenType[f.t]], f.at, 0, Cast(msg.slen, LenType[f.t]))>>
                    \o (IF msg.slen = 0 THEN << >> ELSE <<Run(msg.slen, f.at, 8 * msg.slen, 0)>>)
    /\ given' = given \cup Part(f.at, f.at, 8 * msg.slen)
    /\ todo' = Tail(todo)
    /\ UNCHANGED <<msg, ph, frame, kind, out>>

EncodeStruct ==
    LET f == Head(todo) IN
    /\ Encoding /\ IsStruct(f)
    /\ todo' = FieldsOf(f.at, EncStruct[f.t], Struct[f.t]) \o Tail(todo)
    /\ UNCHANGED <<msg, ph, wire, given, frame, kind, out>>

\* Vec::encode writes the number of elements, DirEntryData::encode their size
EncodeVec ==
    LET f == Head(todo) IN
    /\ Encoding /\ IsVec(f)
    /\ wire' = Append(wire, Run(Width[LenType[f.t]], f.at, 0,
                                IF f.t = "DirEntryData" THEN DirEntryDataSize(msg)
                                                        ELSE Cast(msg.vlen, LenType[f.t])))
    /\ given' = given \cup Part(f.at, f.at, msg.vlen)
    /\ todo' = <<Elements(f, msg.vlen)>> \o Tail(todo)
    /\ UNCHANGED <<msg, ph, frame, kind, out>>

\* one turn of the fold, or of the decoder's loop, over the elements
NextElement ==
    LET f == Head(todo) IN
    /\ ph \in {"encode", "decode"} /\ todo # << >> /\ IsLoop(f)
    /\ todo' = (IF f.i > f.n THEN << >>
                ELSE <<Field(Append(f.at, ToString(f.i)), f.t), [f EXCEPT !.i = @ + 1]>>)
               \o Tail(todo)
    /\ UNCHANGED <<msg, ph, wire, given, frame, kind, out>>

EncodeEnds ==
    /\ ph = "encode" /\ todo = << >>
    /\ ph' = "sent"
    /\ UNCHANGED <<msg, todo, wire, given, frame, kind, out>>

-----------------------------------------------------------------------------
(* What reaches the decoder as a frame (external)                          *)

FrameArrives ==
    /\ ph = "sent"
    /\ ph' = "decode" /\ todo' = Header
    /\ UNCHANGED <<msg, wire, given, frame, kind, out>>

\* the peer's frame ends early: in front of a run, or after its first byte
FrameShort ==
    /\ ph = "sent"
    /\ \E j \in DOMAIN wire : \E b \in {0, 1} :
          /\ b < wire[j].w
          /\ wire' = SubSeq(wire, 1, j - 1)
                     \o (IF b = 0 THEN << >> ELSE <<[wire[j] EXCEPT !.w = 1, !.of = <<"?">>]>>)
    /\ frame' = "short" /\ ph' = "decode" /\ todo' = Header
    /\ UNCHANGED <<msg, given, kind, out>>

\* the peer speaks another dialect
FrameForeign ==
    /\ ph = "sent"
    /\ \E n \in BadTypes : wire' = [wire EXCEPT ![1].n = n]
    /\ frame' = "foreign" /\ ph' = "decode" /\ todo' = Header
    /\ UNCHANGED <<msg, given, kind, out>>

-----------------------------------------------------------------------------
(* Decoding                                                                *)

\* the bytes the next read asks for
Need(f) ==
    CASE IsInt(f) -> Width[f.t]
      [] IsBytes(f) -> f.n
      [] IsText(f) \/ IsVec(f) -> Width[LenType[f.t]]
      [] OTHER -> 0

Decoding == ph = "decode" /\ todo # << >> /\ Size(wire) >= Need(Head(todo))

\* What read_exact(n) returns; a read across the ends of runs is the value of
\* no field.
Got(n) == IF wire[1].w = n THEN wire[1] ELSE Run(n, <<"?">>, 8 * n, 0)

\* how much of each run is left after reading n bytes
After(n) ==
    LET left(j) == LET before == Size(SubSeq(wire, 1, j - 1))
                   IN  IF n <= before THEN wire[j].w
                       ELSE IF n - before >= wire[j].w THEN 0 ELSE wire[j].w - (n - before)
        cut == [j \in DOMAIN wire |->
                   IF left(j) = wire[j].w THEN wire[j]
                   ELSE [wire[j] EXCEPT !.w = left(j), !.of = <<"?">>]]
    IN  SelectSeq(cut, LAMBDA r : r.w > 0)

\* read_exact and the byteorder reads fail at the end of the frame
DecodeEof ==
    /\ ph = "decode" /\ todo # << >> /\ Size(wire) < Need(Head(todo))
    /\ ph' = "err" /\ todo' = << >>
    /\ UNCHANGED <<msg, wire, given, frame, kind, out>>

\* MsgType::from_u8
DecodeType ==
    /\ Decoding /\ Head(todo).at = <<"type">>
    /\ kind' = (IF \E k \in DOMAIN MsgType : MsgType[k] = Got(1).n
                THEN CHOOSE k \in DOMAIN MsgType : MsgType[k] = Got(1).n
                ELSE None)
    /\ wire' = After(1)
    /\ todo' = Tail(todo)
    /\ UNCHANGED <<msg, ph, given, frame, out>>

\* the tag, then the match on the type
DecodeTag ==
    /\ Decoding /\ Head(todo).at = <<"tag">>
    /\ out' = out \cup Part(<<"tag">>, Got(2).of, Got(2).bits)
    /\ wire' = After(2)
    /\ IF kind \in DOMAIN Fcall
       THEN todo' = DecFields(kind) /\ ph' = ph
       ELSE todo' = << >> /\ ph' = "err"
    /\ UNCHANGED <<msg, given, frame, kind>>

\* integers; from_bits_truncate drops the flags that have no name
DecodeInt ==
    LET f == Head(todo)
        r == Got(Width[f.t])
    IN  /\ Decoding /\ IsInt(f) /\ f.at \notin {<<"type">>, <<"tag">>}
        /\ out' = out \cup Part(f.at, r.of, IF r.bits < Bits[f.t] THEN r.bits ELSE Bits[f.t])
        /\ wire' = After(Width[f.t])
        /\ todo' = Tail(todo)
        /\ UNCHANGED <<msg, ph, given, frame, kind>>

\* the length of a string or of data
DecodeText ==
    LET f == Head(todo)
        w == Width[LenType[f.t]]
    IN  /\ Decoding /\ IsText(f)
        /\ todo' = <<[Field(f.at, "bytes") EXCEPT !.n = Got(w).n]>> \o Tail(todo)
        /\ wire' = After(w)
        /\ UNCHANGED <<msg, ph, given, frame, kind, out>>

\* its bytes
DecodeBytes ==
    LET f == Head(todo) IN
    /\ Decoding /\ IsBytes(f)
    /\ out' = out \cup Part(f.at, IF f.n = 0 THEN f.at ELSE Got(f.n).of, 8 * f.n)
    /\ wire' = After(f.n)
    /\ todo' = Tail(todo)
    /\ UNCHANGED <<msg, ph, given, frame, kind>>

DecodeStruct ==
    LET f == Head(todo) IN
    /\ Decoding /\ IsStruct(f)
    /\ todo' = FieldsOf(f.at, DecOrder(f.t), Struct[f.t]) \o Tail(todo)
    /\ UNCHANGED <<msg, ph, wire, given, frame, kind, out>>

\* Vec::decode and DirEntryData::decode: the length is a number of elements
DecodeVec ==
    LET f == Head(todo)
        w == Width[LenType[f.t]]
    IN  /\ Decoding /\ IsVec(f)
        /\ out' = out \cup Part(f.at, Got(w).of, Got(w).n)
        /\ todo' = <<Elements(f, Got(w).n)>> \o Tail(todo)
        /\ wire' = After(w)
        /\ UNCHANGED <<msg, ph, given, frame, kind>>

DecodeEnds ==
    /\ ph = "decode" /\ todo = << >>
    /\ ph' = "ok"
    /\ UNCHANGED <<msg, todo, wire, given, frame, kind, out>>

\* the next message
Again ==
    /\ ph \in {"ok", "err"}
    /\ msg' \in [kind : Kinds, slen : StrLens, vlen : VecLens]
    /\ ph' = "encode" /\ todo' = Header \o EncFields(msg'.kind)
    /\ wire' = << >> /\ given' = {} /\ frame' = "whole" /\ kind' = None /\ out' = {}

Next ==
    \/ EncodeInt \/ EncodeText \/ EncodeStruct \/ EncodeVec \/ NextElement \/ EncodeEnds
    \/ FrameArrives \/ FrameShort \/ FrameForeign
    \/ DecodeEof \/ DecodeType \/ DecodeTag \/ DecodeInt \/ DecodeText \/ DecodeBytes
    \/ DecodeStruct \/ DecodeVec \/ DecodeEnds
    \/ Again

Spec == Init /\ [][Next]_vars

-----------------------------------------------------------------------------
(* Properties                                                              *)

\* What is decoded from the whole frame of a message is the message: the decoder
\* recognises its kind, puts the value of every field, with all of its bits, back
\* where it was, reads every byte and does not fail (Encodable and Decodable for
\* Msg and for the types it is made of).  An Rreaddir is apart: ReaddirSize.
\* A frame that ends before its message does, and a frame of a type that is not
\* in MsgType, is an error for Msg::decode and never some message: no part of a
\* message that is left out is taken for absent.
RoundTrip ==
    /\ ph = "ok" => frame = "whole"
    /\ frame = "whole" /\ msg.kind # "Rreaddir" =>
        /\ ph # "err"
        /\ ph = "ok" => kind = msg.kind /\ out = given \ Part(<<"type">>, <<"type">>, 8) /\ wire = << >>

\* The size at the front of an Rreaddir is the number of bytes of the entries
\* that follow it (DirEntry::size against DirEntry::encode), which is what the
\* kernel takes it for and what Treaddir's count limits.
ReaddirSize ==
    ph = "sent" /\ msg.kind = "Rreaddir" => wire[3].n = Size(SubSeq(wire, 4, Len(wire)))
=============================================================================
