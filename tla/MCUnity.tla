------------------------------ MODULE MCUnity ------------------------------
(* Two groups of tests that redirect two pointers.  char has 2 bits and     *)
(* UNITY_INT 4; the calls of assertions are all those over that width, with *)
(* arrays, strings and blocks of memory of at most two elements.            *)
EXTENDS UnityRun

CONSTANTS p, q, old, new

MCCells == {p, q}
MCValues == {old, new}
MCNumber == [w \in {"0", "2x"} |-> IF w = "0" THEN 0 ELSE 2]
MCTests == << [group |-> "tr", name |-> "add", ignored |-> FALSE],
              [group |-> "tr", name |-> "add_long", ignored |-> TRUE],
              [group |-> "hds", name |-> "add", ignored |-> FALSE] >>
MCContains == {<< "add", "add" >>, << "add_long", "add" >>, << "add_long", "long" >>,
               << "tr", "tr" >>, << "hds", "hds" >>, << "hds", "s" >>}
MCArgVectors == {
    << >>, << "-r", "2x", "-g", "s" >>, << "-r", "-v", "-G", "tr" >>,
    << "-r", "0" >>, << "-d" >>, << "-n", "long", "-N", "add", "-r", "-d" >>,
    << "-v", "-h" >>, << "-s", "-g" >> }

Styles == {"INT", "UINT", "HEX"}
Types == [style : Styles, width : {ByteBits, IntBits}] \cup [style : {"CHAR"}, width : {ByteBits}]
Comparisons == {{"GREATER_THAN"}, {"GREATER_THAN", "EQUAL_TO"},
                {"SMALLER_THAN"}, {"SMALLER_THAN", "EQUAL_TO"}, {"NOT_EQUAL"}}

Numbers == Patterns \X Patterns
BitCalls == {[op |-> "BITS", mask |-> m, expected |-> n[1], actual |-> n[2]] :
                m \in Patterns, n \in Numbers}
EqualCalls == {[op |-> "EQUAL", style |-> t.style, width |-> t.width,
                expected |-> n[1], actual |-> n[2]] : t \in Types, n \in Numbers}
CompareCalls == {[op |-> "COMPARE", style |-> t.style, width |-> t.width, compare |-> k,
                  threshold |-> n[1], actual |-> n[2]] :
                    t \in Types, k \in Comparisons, n \in Numbers}
WithinCalls == {[op |-> "WITHIN", style |-> t.style, width |-> t.width, delta |-> d,
                 expected |-> n[1], actual |-> n[2]] :
                    t \in Types, d \in Patterns, n \in Numbers}

\* The pointers to blocks of at most n cells out of S.
Blocks(S, n) == {NULL} \cup UNION {[1 .. k -> S] : k \in 1 .. n}

Arrays(S) ==
    {c \in [num_elements : 0 .. 2, array_to_array : BOOLEAN, same : BOOLEAN,
            expected : Blocks(S, 2), actual : Blocks(S, 2)] :
        Readable(c, IF c.array_to_array THEN c.num_elements ELSE 1, c.num_elements)}
ArrayCalls ==
    {[op |-> "EQUAL_ARRAY", style |-> t.style, width |-> t.width,
      num_elements |-> c.num_elements, array_to_array |-> c.array_to_array,
      same |-> c.same, expected |-> c.expected, actual |-> c.actual] :
        t \in Types, c \in Arrays({0, 2, 3, 7})}
ArrayWithinCalls ==
    {[op |-> "ARRAY_WITHIN", style |-> t.style, width |-> t.width, delta |-> d,
      num_elements |-> c.num_elements, array_to_array |-> c.array_to_array,
      same |-> c.same, expected |-> c.expected, actual |-> c.actual] :
        t \in Types, d \in {0, 1, 9}, c \in Arrays({0, 2, 15})}

Texts == Blocks({1, 2}, 2) \cup {<< >>}
StringCalls ==
    {c \in [op : {"EQUAL_STRING", "NOT_EQUAL_STRING", "EQUAL_STRING_LEN", "NOT_EQUAL_STRING_LEN"},
            length : 0 .. 3, same : BOOLEAN, expected : Texts, actual : Texts] :
        Readable(c, 0, 0)}
StringArrayCalls ==
    {[op |-> "EQUAL_STRING_ARRAY", num_elements |-> c.num_elements,
      array_to_array |-> c.array_to_array, same |-> c.same,
      expected |-> c.expected, actual |-> c.actual] :
        c \in {d \in Arrays({NULL, << >>, << 1 >>, << 1, 2 >>}) :
                  ~d.array_to_array /\ d.expected # NULL => d.expected[1] # NULL}}
MemoryCalls ==
    {c \in [op : {"EQUAL_MEMORY"}, num_elements : 0 .. 2, length : 0 .. 2,
            array_to_array : BOOLEAN, same : BOOLEAN,
            expected : Blocks({0, 3}, 4), actual : Blocks({0, 3}, 4)] :
        Readable(c, IF c.array_to_array THEN c.num_elements * c.length ELSE c.length,
                    c.num_elements * c.length)}
    \cup
    {c \in [op : {"NOT_EQUAL_MEMORY"}, length : 0 .. 2, same : BOOLEAN,
            expected : Blocks({0, 3}, 2), actual : Blocks({0, 3}, 2)] :
        Readable(c, c.length, c.length)}

Finites == -FloatMax .. FloatMax
FloatCalls ==
    [op : {"FLOAT_WITHIN", "FLOAT_NOT_WITHIN"}, delta : Finites, expected : Floats, actual : Floats]
    \cup [op : {"EQUAL_FLOAT", "NOT_EQUAL_FLOAT"}, expected : Floats, actual : Floats]
    \cup [op : {"FLOAT_COMPARE"}, compare : Comparisons \ {{"NOT_EQUAL"}},
          threshold : Floats, actual : Floats]
    \cup [op : {"FLOAT_SPECIAL"}, trait : {"INF", "NEG_INF", "NAN", "DET"},
          should_be : BOOLEAN, actual : Floats]
FloatArrayCalls ==
    {[op |-> "FLOAT_ARRAY", delta |-> d, num_elements |-> c.num_elements,
      array_to_array |-> c.array_to_array, same |-> c.same,
      expected |-> c.expected, actual |-> c.actual] :
        d \in {0, -1, NaN, NegInf}, c \in Arrays({0, -2, FloatMax, NaN, Inf})}

MCCalls == UNION {
    BitCalls, EqualCalls, CompareCalls, WithinCalls, ArrayCalls, ArrayWithinCalls,
    StringCalls, StringArrayCalls, MemoryCalls, FloatCalls, FloatArrayCalls}

\* A call on its own is looked at once.
MCInit == UnityInit /\ (call # NULL => args = << >> /\ cell = [c \in Cells |-> old])
MCSpec == MCInit /\ [][UnityNext]_<<vars, call>> /\ WF_<<vars, call>>(UnityNext)

\* The suite that runs comes to its end, see RunEnds of UnityFixture.
SuiteEnds == call = NULL => RunEnds
=============================================================================
