-------------------------------- MODULE Wire --------------------------------
(***************************************************************************)
(* The protocol buffer codec of daemon/protocol/generated.pb.go, which     *)
(* carries the calls of bblfshctl to the daemon's control service.         *)
(*                                                                         *)
(* The code spells out every message three times: ProtoSize predicts how   *)
(* many bytes it takes (Marshal allocates exactly as many), MarshalTo      *)
(* writes the fields, and Unmarshal reads them back.  The three are kept   *)
(* apart here as well, and the properties say that they agree.             *)
(*                                                                         *)
(* A buffer is a sequence of bytes, read from position 1; a string is one  *)
(* too.  Times and durations are encoded by a library: they are the bytes  *)
(* it writes.  A machine word has WordBits bits, 64 in the code.           *)
(***************************************************************************)
EXTENDS Integers, Sequences, FiniteSets, SequencesExt

CONSTANTS
    WordBits,   \* bits of uint64 and int
    Corpus,     \* the messages that are sent: pairs <<type, message>>
    Unknown     \* encoded fields of a newer version of the protocol

ASSUME WordAssumption == WordBits \in Nat /\ WordBits > 8

VARIABLES
    phase,      \* "idle", "sent", "extended" or "received"
    sent,       \* the message that was marshalled, <<type, message>>
    wire,       \* the bytes in transit
    whole,      \* no byte of the encoding was lost
    got         \* what Unmarshal returned

vars == <<phase, sent, wire, whole, got>>

\* uint64(n) of an int, and int(u) of a uint64.
Uint(n)   == n % 2^WordBits
Signed(u) == IF u >= 2^(WordBits - 1) THEN u - 2^WordBits ELSE u

\* The payloads of time.Time{} and of a zero time.Duration.
ZeroTime     == <<8, 128, 146, 184, 195, 152, 254, 255, 255, 255, 1>>
ZeroDuration == <<>>

-----------------------------------------------------------------------------
(* The size of a message.                                                  *)

RECURSIVE sovGenerated(_)
sovGenerated(x) == IF x < 128 THEN 1 ELSE 1 + sovGenerated(x \div 128)

Total(f) == FoldSeq(LAMBDA x, y: x + y, 0, f)

\* What ProtoSize adds for a field of each kind.  Zero values take no room,
\* except for times, durations and the elements of a repeated field.
SizeBytes(l)   == 1 + l + sovGenerated(l)
SizeString(s)  == IF s = <<>> THEN 0 ELSE SizeBytes(Len(s))
\* Mutant: negative numbers are taken for small ones.
SizeIntSigned(n) == IF n = 0 THEN 0 ELSE IF n < 0 THEN 2 ELSE 1 + sovGenerated(n)
SizeInt(n)     == IF n = 0 THEN 0 ELSE 1 + sovGenerated(Uint(n))
SizeBool(b)    == IF b THEN 2 ELSE 0
SizeStrings(l) == Total([k \in DOMAIN l |-> SizeBytes(Len(l[k]))])
SizeInts(l)    ==
    IF l = <<>> THEN 0
    ELSE SizeBytes(Total([k \in DOMAIN l |-> sovGenerated(Uint(l[k]))]))

DriverImageStateProtoSize(m) ==
    SizeString(m.Reference) + SizeString(m.Language) + SizeString(m.Version)
    + SizeBytes(Len(m.Build)) + SizeString(m.Status) + SizeString(m.OS)
    + SizeStrings(m.NativeVersion) + SizeString(m.GoVersion)

DriverInstanceStateProtoSize(m) ==
    SizeString(m.ID) + SizeString(m.Image) + SizeInt(m.Status)
    + SizeBytes(Len(m.Created)) + SizeInts(m.Processes)

DriverInstanceStatesResponseProtoSize(m) ==
    SizeStrings(m.Errors) + SizeBytes(Len(m.Elapsed))
    + Total([k \in DOMAIN m.State |->
                 SizeBytes(DriverInstanceStateProtoSize(m.State[k]))])

DriverPoolStateProtoSize(m) ==
    SizeInt(m.Wanted) + SizeInt(m.Running) + SizeInt(m.Waiting)
    + SizeInt(m.Success) + SizeInt(m.Errors) + SizeInt(m.Exited)

\* An entry of the map: the key is field 1 and the pool's state field 2.
EntrySize(k, v) == SizeBytes(Len(k)) + SizeBytes(DriverPoolStateProtoSize(v))

DriverPoolStatesResponseProtoSize(m) ==
    SizeStrings(m.Errors) + SizeBytes(Len(m.Elapsed))
    + Total([i \in 1..Cardinality(DOMAIN m.State) |->
                LET k == SetToSeq(DOMAIN m.State)[i]
                IN  SizeBytes(EntrySize(k, m.State[k]))])

DriverStatesResponseProtoSize(m) ==
    SizeStrings(m.Errors) + SizeBytes(Len(m.Elapsed))
    + Total([k \in DOMAIN m.State |->
                 SizeBytes(DriverImageStateProtoSize(m.State[k]))])

InstallDriverRequestProtoSize(m) ==
    SizeString(m.Language) + SizeString(m.ImageReference) + SizeBool(m.Update)

RemoveDriverRequestProtoSize(m) == SizeString(m.Language)

ResponseProtoSize(m) == SizeStrings(m.Errors) + SizeBytes(Len(m.Elapsed))

ProtoSize(t, m) ==
    CASE t = "DriverInstanceStatesResponse" -> DriverInstanceStatesResponseProtoSize(m)
      [] t = "DriverPoolStatesResponse"     -> DriverPoolStatesResponseProtoSize(m)
      [] t = "DriverStatesResponse"         -> DriverStatesResponseProtoSize(m)
      [] t = "InstallDriverRequest"         -> InstallDriverRequestProtoSize(m)
      [] t = "RemoveDriverRequest"          -> RemoveDriverRequestProtoSize(m)
      [] t = "Response"                     -> ResponseProtoSize(m)
      [] t = "DriverImageState"           -> DriverImageStateProtoSize(m)
      [] t = "DriverInstanceState"        -> DriverInstanceStateProtoSize(m)
      [] t = "DriverPoolState"            -> DriverPoolStateProtoSize(m)
      [] OTHER                              -> 0   \* the three empty requests

-----------------------------------------------------------------------------
(* Writing a message.                                                      *)

RECURSIVE encodeVarintGenerated(_)
\* Mutant: the low bits are not masked.
VarintUnmasked(v) ==
    IF v >= 128 THEN <<v + 128>> \o encodeVarintGenerated(v \div 128) ELSE <<v>>

encodeVarintGenerated(v) ==
    IF v >= 128 THEN <<(v % 128) + 128>> \o encodeVarintGenerated(v \div 128)
    ELSE <<v>>

Varints(l) == FlattenSeq([k \in DOMAIN l |-> encodeVarintGenerated(Uint(l[k]))])

\* What MarshalTo writes for a field of each kind.  The length of a nested
\* message is its ProtoSize.
PutMessage(tag, size, s) == <<tag>> \o encodeVarintGenerated(size) \o s
PutBytes(tag, s)   == PutMessage(tag, Len(s), s)
PutString(tag, s)  == IF s = <<>> THEN <<>> ELSE PutBytes(tag, s)
PutInt(tag, n)     == IF n = 0 THEN <<>> ELSE <<tag>> \o encodeVarintGenerated(Uint(n))
PutBool(tag, b)    == IF b THEN <<tag, 1>> ELSE <<>>
PutStrings(tag, l) == FlattenSeq([k \in DOMAIN l |-> PutBytes(tag, l[k])])
PutInts(tag, l)    == PutString(tag, Varints(l))

DriverImageStateMarshalTo(m) ==
    PutString(10, m.Reference) \o PutString(18, m.Language) \o PutString(26, m.Version)
    \o PutBytes(34, m.Build) \o PutString(42, m.Status) \o PutString(50, m.OS)
    \o PutStrings(58, m.NativeVersion) \o PutString(66, m.GoVersion)

DriverInstanceStateMarshalTo(m) ==
    PutString(10, m.ID) \o PutString(18, m.Image) \o PutInt(24, m.Status)
    \o PutBytes(34, m.Created) \o PutInts(42, m.Processes)

DriverInstanceStatesResponseMarshalTo(m) ==
    PutStrings(10, m.Errors) \o PutBytes(18, m.Elapsed)
    \o FlattenSeq([k \in DOMAIN m.State |->
           PutMessage(26, DriverInstanceStateProtoSize(m.State[k]),
                      DriverInstanceStateMarshalTo(m.State[k]))])

DriverPoolStateMarshalTo(m) ==
    PutInt(8, m.Wanted) \o PutInt(16, m.Running) \o PutInt(24, m.Waiting)
    \o PutInt(32, m.Success) \o PutInt(40, m.Errors) \o PutInt(48, m.Exited)

\* The loop over the Go map State takes its keys in any order, here keys.
DriverPoolStatesResponseMarshalTo(m, keys) ==
    PutStrings(10, m.Errors) \o PutBytes(18, m.Elapsed)
    \o FlattenSeq([i \in DOMAIN keys |->
           LET k == keys[i]
               v == m.State[k]
           IN  PutMessage(26, EntrySize(k, v),
                   PutBytes(10, k)
                   \o PutMessage(18, DriverPoolStateProtoSize(v),
                                 DriverPoolStateMarshalTo(v)))])

DriverStatesResponseMarshalTo(m) ==
    PutStrings(10, m.Errors) \o PutBytes(18, m.Elapsed)
    \o FlattenSeq([k \in DOMAIN m.State |->
           PutMessage(26, DriverImageStateProtoSize(m.State[k]),
                      DriverImageStateMarshalTo(m.State[k]))])

InstallDriverRequestMarshalTo(m) ==
    PutString(10, m.Language) \o PutString(18, m.ImageReference) \o PutBool(24, m.Update)

RemoveDriverRequestMarshalTo(m) == PutString(10, m.Language)

ResponseMarshalTo(m) == PutStrings(10, m.Errors) \o PutBytes(18, m.Elapsed)

MarshalTo(t, m, keys) ==
    CASE t = "DriverInstanceStatesResponse" -> DriverInstanceStatesResponseMarshalTo(m)
      [] t = "DriverPoolStatesResponse"     -> DriverPoolStatesResponseMarshalTo(m, keys)
      [] t = "DriverStatesResponse"         -> DriverStatesResponseMarshalTo(m)
      [] t = "InstallDriverRequest"         -> InstallDriverRequestMarshalTo(m)
      [] t = "RemoveDriverRequest"          -> RemoveDriverRequestMarshalTo(m)
      [] t = "Response"                     -> ResponseMarshalTo(m)
      [] t = "DriverImageState"           -> DriverImageStateMarshalTo(m)
      [] t = "DriverInstanceState"        -> DriverInstanceStateMarshalTo(m)
      [] t = "DriverPoolState"            -> DriverPoolStateMarshalTo(m)
      [] OTHER                              -> <<>>   \* the three empty requests

-----------------------------------------------------------------------------
(* Reading a message.  A result has the error, empty when there is none,   *)
(* the value read, and the position after it.                              *)

Ok(v, i) == [err |-> "", val |-> v, next |-> i]
Fail(e)  == [err |-> e, val |-> <<>>, next |-> 0]
Then(r, Continue(_)) == IF r.err = "" THEN Continue(r) ELSE r

\* The loop that reads a varint, written out at every use in the code.  Bits
\* above the word are shifted out.
RECURSIVE VarintFrom(_, _, _, _)
VarintFrom(b, i, shift, v) ==
    CASE shift >= WordBits -> Fail("ErrIntOverflow")
      [] shift < WordBits /\ i > Len(b) -> Fail("ErrUnexpectedEOF")
      [] OTHER ->
           LET w == (v + (b[i] % 128) * 2^shift) % 2^WordBits
           IN  IF b[i] < 128 THEN Ok(w, i + 1) ELSE VarintFrom(b, i + 1, shift + 7, w)

Varint(b, i) == VarintFrom(b, i, 0, 0)

\* Mutant: the length is not compared with the end of the buffer.
DelimitedUnchecked(b, i) ==
    Then(Varint(b, i), LAMBDA n:
        Ok(n.next, IF n.next + n.val > Len(b) + 1 THEN Len(b) + 1 ELSE n.next + n.val))

\* A length and the bytes it delimits: the value is the position of the first
\* byte, next the position after the last.
Delimited(b, i) ==
    Then(Varint(b, i), LAMBDA n:
        CASE Signed(n.val) < 0 -> Fail("ErrInvalidLength")
          [] Signed(n.val) >= 0 /\ n.next + n.val > Len(b) + 1 -> Fail("ErrUnexpectedEOF")
          [] OTHER -> Ok(n.next, n.next + n.val))

Slice(b, d) == SubSeq(b, d.val, d.next - 1)

RECURSIVE skipGenerated(_, _)
RECURSIVE SkipGroup(_, _)

\* Mutant: the fields of a group are taken for tags.
SkipGroupTags(b, i) ==
    Then(Varint(b, i), LAMBDA w: IF w.val % 8 = 4 THEN w ELSE SkipGroup(b, w.next))

\* The inner loop of skipGenerated: the fields of a group, up to its end tag.
SkipGroup(b, i) ==
    Then(Varint(b, i), LAMBDA w:
        IF w.val % 8 = 4 THEN w
        ELSE Then(skipGenerated(b, i), LAMBDA s: SkipGroup(b, s.next)))

\* The position after the field whose tag is at i, which may lie past the end.
skipGenerated(b, i) ==
    Then(Varint(b, i), LAMBDA w:
        CASE w.val % 8 = 0 -> Varint(b, w.next)
          [] w.val % 8 = 1 -> Ok(<<>>, w.next + 8)
          [] w.val % 8 = 2 ->
               Then(Varint(b, w.next), LAMBDA n:
                   IF Signed(n.val) < 0 THEN Fail("ErrInvalidLength")
                   ELSE Ok(<<>>, n.next + n.val))
          [] w.val % 8 = 3 -> SkipGroup(b, w.next)
          [] w.val % 8 = 4 -> w
          [] w.val % 8 = 5 -> Ok(<<>>, w.next + 4)
          [] OTHER -> Fail("illegal wireType"))

\* Leave out the unknown field at i, which must end before stop.
Skip(b, i, stop) ==
    Then(skipGenerated(b, i), LAMBDA s:
        IF s.next > stop THEN Fail("ErrUnexpectedEOF") ELSE s)

RECURSIVE Unmarshal(_, _)

\* The loop over an entry of DriverPoolStatesResponse.State.  The wire type of
\* the key and of the value is not looked at.
RECURSIVE Entry(_, _, _, _)
Entry(b, i, stop, e) ==
    IF i >= stop THEN Ok(e, stop)
    ELSE Then(Varint(b, i), LAMBDA w:
        CASE w.val \div 8 = 1 ->
               Then(Delimited(b, w.next), LAMBDA d:
                   Entry(b, d.next, stop, [e EXCEPT !.key = Slice(b, d)]))
          [] w.val \div 8 = 2 ->
               Then(Delimited(b, w.next), LAMBDA d:
                   Then(Unmarshal("DriverPoolState", Slice(b, d)), LAMBDA r:
                       Entry(b, d.next, stop, [e EXCEPT !.value = r.val])))
          [] OTHER ->
               Then(Skip(b, i, stop), LAMBDA s: Entry(b, s.next, stop, e)))

RECURSIVE Packed(_, _, _, _)
Packed(b, i, stop, l) ==
    IF i >= stop THEN Ok(l, i)
    ELSE Then(Varint(b, i), LAMBDA v: Packed(b, v.next, stop, Append(l, Signed(v.val))))

NoEntry == [key |-> <<>>, value |-> [nil |-> TRUE]]

\* The new value of a field that holds old, read from position i.
FieldValue(b, i, wireType, kind, old) ==
    LET bytes(Use(_)) == IF wireType = 2 THEN Then(Delimited(b, i), Use)
                         ELSE Fail("wrong wireType")
        number(Use(_)) == IF wireType = 0
                          THEN Then(Varint(b, i), LAMBDA v: Ok(Use(v.val), v.next))
                          ELSE Fail("wrong wireType")
    IN  CASE kind = "string"  -> bytes(LAMBDA d: Ok(Slice(b, d), d.next))
          [] kind = "strings" -> bytes(LAMBDA d: Ok(Append(old, Slice(b, d)), d.next))
          [] kind = "int"     -> number(Signed)
          [] kind = "bool"    -> number(LAMBDA v: v # 0)
          [] kind = "ints"    ->
               IF wireType = 0 THEN number(LAMBDA v: Append(old, Signed(v)))
               ELSE bytes(LAMBDA d: Packed(b, d.val, d.next, old))
          [] kind = "entries" ->
               bytes(LAMBDA d:
                   Then(Entry(b, d.val, d.next, NoEntry), LAMBDA e:
                       Ok([k \in DOMAIN old \cup {e.val.key} |->
                              IF k = e.val.key THEN e.val.value ELSE old[k]], d.next)))
          [] OTHER -> \* a nested message of type kind
               bytes(LAMBDA d:
                   Then(Unmarshal(kind, Slice(b, d)), LAMBDA r:
                       Ok(Append(old, r.val), d.next)))

\* The loop of every Unmarshal: fields[n] is the kind and the name of field n.
RECURSIVE Fields(_, _, _, _)
Fields(b, i, fields, m) ==
    IF i > Len(b) THEN Ok(m, i)
    ELSE Then(Varint(b, i), LAMBDA w:
        LET num == w.val \div 8
            wireType == w.val % 8
        IN  CASE wireType = 4 -> Fail("wiretype end group for non-group")
              [] wireType # 4 /\ num = 0 -> Fail("illegal tag")
              [] wireType # 4 /\ num \in DOMAIN fields ->
                   LET name == fields[num][2]
                   IN  Then(FieldValue(b, w.next, wireType, fields[num][1], m[name]),
                            LAMBDA r: Fields(b, r.next, fields, [m EXCEPT ![name] = r.val]))
              [] OTHER -> Then(Skip(b, i, Len(b) + 1), LAMBDA s: Fields(b, s.next, fields, m)))

DriverImageStateUnmarshal ==
    << <<"string", "Reference">>, <<"string", "Language">>, <<"string", "Version">>,
       <<"string", "Build">>, <<"string", "Status">>, <<"string", "OS">>,
       <<"strings", "NativeVersion">>, <<"string", "GoVersion">> >>

DriverInstanceStateUnmarshal ==
    << <<"string", "ID">>, <<"string", "Image">>, <<"int", "Status">>,
       <<"string", "Created">>, <<"ints", "Processes">> >>

DriverInstanceStatesResponseUnmarshal ==
    << <<"strings", "Errors">>, <<"string", "Elapsed">>, <<"DriverInstanceState", "State">> >>

DriverPoolStateUnmarshal ==
    << <<"int", "Wanted">>, <<"int", "Running">>, <<"int", "Waiting">>,
       <<"int", "Success">>, <<"int", "Errors">>, <<"int", "Exited">> >>

DriverPoolStatesResponseUnmarshal ==
    << <<"strings", "Errors">>, <<"string", "Elapsed">>, <<"entries", "State">> >>

DriverStatesResponseUnmarshal ==
    << <<"strings", "Errors">>, <<"string", "Elapsed">>, <<"DriverImageState", "State">> >>

InstallDriverRequestUnmarshal ==
    << <<"string", "Language">>, <<"string", "ImageReference">>, <<"bool", "Update">> >>

RemoveDriverRequestUnmarshal == << <<"string", "Language">> >>

ResponseUnmarshal == << <<"strings", "Errors">>, <<"string", "Elapsed">> >>

\* The requests without fields: whatever they hold is skipped.
DriverInstanceStatesRequestUnmarshal == <<>>
DriverPoolStatesRequestUnmarshal     == <<>>
DriverStatesRequestUnmarshal         == <<>>

FieldsOf(t) ==
    CASE t = "DriverImageState"             -> DriverImageStateUnmarshal
      [] t = "DriverInstanceState"          -> DriverInstanceStateUnmarshal
      [] t = "DriverInstanceStatesResponse" -> DriverInstanceStatesResponseUnmarshal
      [] t = "DriverPoolState"              -> DriverPoolStateUnmarshal
      [] t = "DriverPoolStatesResponse"     -> DriverPoolStatesResponseUnmarshal
      [] t = "DriverStatesResponse"         -> DriverStatesResponseUnmarshal
      [] t = "InstallDriverRequest"         -> InstallDriverRequestUnmarshal
      [] t = "RemoveDriverRequest"          -> RemoveDriverRequestUnmarshal
      [] t = "Response"                     -> ResponseUnmarshal
      [] t = "DriverInstanceStatesRequest"  -> DriverInstanceStatesRequestUnmarshal
      [] t = "DriverPoolStatesRequest"      -> DriverPoolStatesRequestUnmarshal
      [] t = "DriverStatesRequest"          -> DriverStatesRequestUnmarshal

\* The Go zero value of a message, which Unmarshal fills in.
Zero(t) ==
    LET kind(name) == (CHOOSE f \in Range(FieldsOf(t)) : f[2] = name)[1]
        zero(name) == CASE kind(name) = "int"  -> 0
                        [] kind(name) = "bool" -> FALSE
                        [] name \in {"Build", "Created"} -> ZeroTime
                        [] OTHER -> <<>>
    IN  [name \in {f[2] : f \in Range(FieldsOf(t))} |-> zero(name)]

Unmarshal(t, b) == Fields(b, 1, FieldsOf(t), Zero(t))

-----------------------------------------------------------------------------
(* One message on its way from one side of the control connection to the   *)
(* other.                                                                  *)

None == Ok(<<>>, 0)

Init ==
    /\ phase = "idle"
    /\ sent = <<"", <<>>>>
    /\ wire = <<>>
    /\ whole = TRUE
    /\ got = None

\* Marshal.
Marshal(t, m) ==
    /\ phase = "idle"
    /\ phase' = "sent"
    /\ sent' = <<t, m>>
    /\ \E keys \in SetToSeqs(IF t = "DriverPoolStatesResponse" THEN DOMAIN m.State ELSE {}) :
          wire' = MarshalTo(t, m, keys)
    /\ UNCHANGED <<whole, got>>

\* The peer runs a newer version: it writes a field unknown here before or
\* after the known ones.
NewerPeer(u) ==
    /\ phase = "sent" /\ whole
    /\ phase' = "extended"
    /\ wire' \in {u \o wire, wire \o u}
    /\ UNCHANGED <<sent, whole, got>>

\* The peer is another implementation of protocol buffers, which does not pack
\* the numbers of a repeated field.
UnpackedPeer ==
    /\ phase = "sent" /\ whole
    /\ sent[1] = "DriverInstanceState"
    /\ phase' = "extended"
    /\ LET l == sent[2].Processes
       IN  wire' = DriverInstanceStateMarshalTo([sent[2] EXCEPT !.Processes = <<>>])
                   \o FlattenSeq([k \in DOMAIN l |->
                                      <<40>> \o encodeVarintGenerated(Uint(l[k]))])
    /\ UNCHANGED <<sent, whole, got>>

\* The end of the message is lost.  Bound: an extended message, whose known
\* fields are cut in the other case, loses at most MaxCut bytes.
MaxCut == 12

Cut(n) ==
    /\ phase \in {"sent", "extended"}
    /\ phase = "extended" => n >= Len(wire) - MaxCut
    /\ whole
    /\ wire' = SubSeq(wire, 1, n)
    /\ whole' = FALSE
    /\ UNCHANGED <<phase, sent, got>>

Receive ==
    /\ phase \in {"sent", "extended"}
    /\ phase' = "received"
    /\ got' = Unmarshal(sent[1], wire)
    /\ UNCHANGED <<sent, wire, whole>>

Done ==
    /\ phase = "received"
    /\ phase' = "idle"
    /\ sent' = <<"", <<>>>>
    /\ wire' = <<>>
    /\ whole' = TRUE
    /\ got' = None

Next ==
    \/ \E c \in Corpus : Marshal(c[1], c[2])
    \/ \E u \in Unknown : NewerPeer(u)
    \/ UnpackedPeer
    \/ \E n \in 0..(Len(wire) - 1) : Cut(n)
    \/ Receive
    \/ Done

Spec == Init /\ [][Next]_vars

-----------------------------------------------------------------------------

\* What is in transit is a sequence of bytes: the varint writer masks every
\* group of seven bits before it stores it in a byte.
TypeOK ==
    /\ phase \in {"idle", "sent", "extended", "received"}
    /\ sent \in Corpus \cup {<<"", <<>>>>}
    /\ Range(wire) \subseteq 0..255
    /\ whole \in BOOLEAN

\* ProtoSize and MarshalTo agree on every message.  Marshal allocates ProtoSize
\* bytes and MarshalTo indexes into them, so a size that is too small panics
\* and one that is too large leaves garbage inside an enclosing message.
SizeExact ==
    [][phase = "idle" => Len(wire') = ProtoSize(sent'[1], sent'[2])]_vars

\* Unmarshal gives back the message that was marshalled: for every order in
\* which the loop over the map takes its keys, for negative numbers, for strings
\* long enough for a length of two bytes, and when the peer adds a field that
\* skipGenerated has to leave out or does not pack repeated numbers.
RoundTrip ==
    phase = "received" /\ whole => got.err = "" /\ got.val = sent[2]

\* A message that lost its end is refused with ErrUnexpectedEOF, or was cut
\* between two fields: then every field is the one that was sent or absent, and
\* a repeated field has lost its last elements.  No value is cut in two.
NoTornField ==
    phase = "received" /\ ~whole =>
        \/ got.err = "ErrUnexpectedEOF"
        \/ /\ got.err = ""
           /\ \A f \in Range(FieldsOf(sent[1])) :
                 LET a == got.val[f[2]]
                     b == sent[2][f[2]]
                 IN  \/ a \in {b, Zero(sent[1])[f[2]]}
                     \/ /\ f[1] \notin {"string", "int", "bool"}
                        /\ IF f[1] = "entries" THEN \A k \in DOMAIN a : a[k] = b[k]
                           ELSE IsPrefix(a, b)
=============================================================================
