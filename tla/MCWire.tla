------------------------------- MODULE MCWire -------------------------------
(***************************************************************************)
(* Messages for Wire.  A word has 15 bits: like 64 it is no multiple of 7, *)
(* so that the last group of a varint is cut short, and TLC can compute    *)
(* with it.  Long has 130 bytes: its length, and that of every message     *)
(* that holds it, takes two bytes.                                         *)
(***************************************************************************)
EXTENDS Wire

A    == <<97>>
Long == [i \in 1..130 |-> 98]

MCWordBits == 15

\* The least and the greatest int, and the numbers around a change of size.
Numbers == {0, 1, 127, 128, 16383, -1, -16384}

Times == {ZeroTime, <<>>, <<8, 44>>}

\* Messages with every field once empty and once not.
ImageStates ==
    [Reference : {<<>>, Long}, Language : {A}, Version : {<<>>}, Build : Times,
     Status : {A}, OS : {A}, NativeVersion : {<<>>, <<A, <<>>>>}, GoVersion : {<<>>}]
    \cup [Reference : {A}, Language : {<<>>}, Version : {A}, Build : {<<>>},
          Status : {<<>>}, OS : {<<>>}, NativeVersion : {<<Long>>}, GoVersion : {A}]

InstanceStates ==
    [ID : {A}, Image : {<<>>}, Status : {0, 3, -1}, Created : Times,
     Processes : {<<>>, <<0>>, <<1, 300>>, <<-1, 0, 127>>}]
    \cup [ID : {<<>>}, Image : {Long}, Status : {-1}, Created : {<<>>},
          Processes : {<<>>, <<5>>}]

PoolStates ==
    [Wanted : {0, 10}, Running : {0, 128}, Waiting : {0}, Success : Numbers,
     Errors : {0}, Exited : {0, 16383}]
    \cup [Wanted : {0}, Running : {0}, Waiting : {127}, Success : {0}, Errors : Numbers,
          Exited : {-1}]

Busy == [Wanted |-> 10, Running |-> 128, Waiting |-> 0, Success |-> 16383,
         Errors |-> 1, Exited |-> 0]
Idle == Zero("DriverPoolState")

Lists(S) == {<<>>} \cup {<<s>> : s \in S}

ErrorLists == {<<>>, <<A>>, <<A, Long>>}

MCCorpus ==
    ({"DriverImageState"} \X ImageStates)
    \cup ({"DriverInstanceState"} \X InstanceStates)
    \cup ({"DriverPoolState"} \X PoolStates)
    \cup ({"DriverInstanceStatesResponse"} \X
             [Errors : {<<>>, <<A>>}, Elapsed : {<<16, 5>>},
              State : Lists({s \in InstanceStates : s.Status = -1})])
    \cup ({"DriverPoolStatesResponse"} \X
             [Errors : ErrorLists, Elapsed : {<<>>},
              State : {<<>>} \cup [{A} -> {Busy, Idle}] \cup [{A, Long} -> {Busy, Idle}]])
    \cup ({"DriverStatesResponse"} \X
             [Errors : {<<>>, <<A>>}, Elapsed : {<<16, 5>>},
              State : Lists(ImageStates) \cup
                      {<<s, t>> : s, t \in {i \in ImageStates : i.Reference # Long}}])
    \cup ({"InstallDriverRequest"} \X
             [Language : {<<>>, A}, ImageReference : {<<>>, Long}, Update : BOOLEAN])
    \cup ({"RemoveDriverRequest"} \X [Language : {<<>>, A, Long}])
    \cup ({"Response"} \X [Errors : ErrorLists, Elapsed : {<<>>, <<16, 5>>}])
    \cup ({"DriverInstanceStatesRequest", "DriverPoolStatesRequest",
           "DriverStatesRequest"} \X {<<>>})

\* A field of each wire type, with numbers that take one and two bytes in the
\* tag: a varint, eight bytes, a string, a group that holds a string and a
\* group, and four bytes.
MCUnknown ==
    {<<120, 172, 2>>, <<121, 1, 2, 3, 4, 5, 6, 7, 8>>, <<162, 6, 2, 28, 28>>,
     <<123, 10, 2, 36, 36, 19, 8, 4, 20, 124>>, <<165, 6, 4, 4, 4, 4>>}
=============================================================================
